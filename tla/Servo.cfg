SPECIFICATION FairSpec
CONSTANTS
  s1 = s1
  s2 = s2
  s3 = s3
  Spin <- ThreeSpins
  NoSpin = NoSpin
  SpinTicks = 3
INVARIANTS
  TypeOK
  DrivenByOwner
PROPERTIES
  SpacedLatestWins
  AllSpinsEnd
CHECK_DEADLOCK FALSE
