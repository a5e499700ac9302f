SPECIFICATION FairFaultSpec
CONSTANTS
  t1 = t1
  t2 = t2
  t3 = t3
  NoTimer = NoTimer
  Nobody = Nobody
  Switched = {}
  Timer <- TwoTimers
INVARIANTS
  RecognisedUnlockAudited
PROPERTIES
  OnlyAbortLosesRelock
  SerialCountdown
  FaceLockFreed
