CONSTANTS
  s1 = s1
  s2 = s2
  Socks = {s1, s2}
  Settle = 2
  Steady = 1
  Batch = 2
  MaxParts = 5
  None = None
SPECIFICATION FairSpec
INVARIANTS TypeOK FeedIsWhole PausesHaveReasons
PROPERTY IngressResumes
CHECK_DEADLOCK FALSE
