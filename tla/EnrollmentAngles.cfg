SPECIFICATION Spec
CONSTANTS
  m1 = m1
  m2 = m2
  e1 = e1
  e2 = e2
  p1 = p1
  p2 = p2
  Member <- OneMember
  Session <- TwoSessions
  Phone <- OnePhone
  Nothing = Nothing
  MaxVersion = 2
INVARIANT
  EnrolledHasAllAngles
CHECK_DEADLOCK FALSE
