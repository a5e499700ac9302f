SPECIFICATION FairSpec
CONSTANTS
  j1 = j1
  j2 = j2
  j3 = j3
  p1 = p1
  p2 = p2
  NoJob = NoJob
  Job <- ThreeJobs
  Phone <- TwoPhones
INVARIANT
  TypeOK
PROPERTIES
  SerialOwnPhotos
  ServerFreed
CHECK_DEADLOCK FALSE
