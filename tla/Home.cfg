SPECIFICATION FairHomeSpec
CONSTANTS
  k1 = k1
  k2 = k2
  m1 = m1
  m2 = m2
  r1 = r1
  r2 = r2
  Poll <- TwoPolls
  StatusPoll <- TwoPolls
  Push <- TwoPolls
  MaxAlert = 2
  MaxAppStart = 1
  Cooldown = 2
  MaxClockSets = 1
  Member <- TwoMembers
  Row <- TwoRows
  Distance <- Distances
  Threshold <- Thresholds
  Nobody = Nobody
  NoAnswer = NoAnswer
  Null = Null
INVARIANTS
  AlertTypeOK
  OnlyRacedLoadHidesAlerts
  ScreenTypeOK
  SettingsTypeOK
  InStep
  SensorTypeOK
  RecogTypeOK
  ShutOutIsRefused
PROPERTIES
  AnnouncedOnce
  EventuallyHandled
  BadgeSettles
  FlipAgrees
  ScreenSettles
  StoredIsUsers
  ScansSpaced
  OneScanPerVisit
  VisitsScanned
  ThresholdHonoured
CHECK_DEADLOCK FALSE
