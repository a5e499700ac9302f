SPECIFICATION FairSpec
CONSTANTS
  t1 = t1
  t2 = t2
  t3 = t3
  NoTimer = NoTimer
  Nobody = Nobody
  Switched = {"autoLock"}
  Timer <- TwoTimers
PROPERTY
  BoltRelocked
