SPECIFICATION FairFaultSpec
CONSTANTS
  m1 = m1
  m2 = m2
  e1 = e1
  e2 = e2
  p1 = p1
  p2 = p2
  Member <- OneMember
  Session <- TwoSessions
  Phone <- TwoPhones
  Nothing = Nothing
  MaxVersion = 2
INVARIANTS
  TypeOK
  StatusMatchesCount
  NoOrphans
  VersionTracksEnrolled
PROPERTIES
  PiFlowComplete
  MacFlowEnds
CHECK_DEADLOCK FALSE
