CONSTANTS
  zone = zone
  package = package
  s1 = s1
  s2 = s2
  Kinds = {zone, package}
  Package = package
  Sigs = {s1, s2}
  None = None
  EmitEvery = 2
  StopLinger = 2
  EventLinger = 3
  PulseHold = 4
  EventHold = 5
  IdleEnd = 5
  TimerCap = 6
  StartHold = 7
  Margin = 1
  Late = 1
SPECIFICATION Spec
INVARIANTS TypeOK MotionIsUnion KnownIsReported
