SPECIFICATION Spec
CONSTANTS
  s1 = s1
  s2 = s2
  s3 = s3
  Spin <- ThreeSpins
  NoSpin = NoSpin
  SpinTicks = 3
INVARIANT
  LatestWins
CHECK_DEADLOCK FALSE
