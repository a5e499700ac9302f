SPECIFICATION FairRestartSpec
CONSTANTS
  t1 = t1
  t2 = t2
  t3 = t3
  NoTimer = NoTimer
  Nobody = Nobody
  Switched = {}
  Timer <- TwoTimers
PROPERTY
  EventuallyRelocked
