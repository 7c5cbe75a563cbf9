CONSTANTS
  s1 = s1
  Sessions = {s1}
  Delay = 2
  Nap = 2
  MaxLate = 1
  MaxFuture = 3
  High = 3
  Low = 1
  MaxQueue = 4
  MaxGop = 2
  Deltas <- MCDeltas
  Spreads = {0, 2}
  MaxFrames = 3
  MaxAudio = 1
  None = None
SPECIFICATION FairSpec
INVARIANTS TypeOK PacerLetsGo WaitIsBounded JoinsCleanly
PROPERTY PacketsLeave
CHECK_DEADLOCK FALSE
