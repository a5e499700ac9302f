SPECIFICATION Spec
CONSTANTS
  t1 = t1
  t2 = t2
  t3 = t3
  NoTimer = NoTimer
  Nobody = Nobody
  Switched <- AllSettings
  Timer <- ThreeTimers
INVARIANTS
  TypeOK
  RelockCovered
PROPERTY
  KeepsPromise
SYMMETRY TimerSymmetry
