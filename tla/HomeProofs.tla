----------------------------- MODULE HomeProofs -----------------------------
(***************************************************************************)
(* MCHome puts the components that share no state side by side.  Each of    *)
(* them behaves there as its own specification says, so their theorems hold *)
(* of the whole: the parts cannot disturb each other.                       *)
(***************************************************************************)
EXTENDS MCHome, AlertFeedProofs, ScreenProofs, ScanProofs

-----------------------------------------------------------------------------
(* What a step of the whole is for each component.                          *)

LEMMA PollerIsAlert == PollerNext => AlertNext
  BY DEF PollerNext, AlertNext

LEMMA ActivityIsAlert == ActivityNext => AlertNext
  BY HomeAssumption DEF ActivityNext, AlertNext

LEMMA AlertStep == [HomeNext]_homeVars => [AlertNext]_alertVars
<1>1. CASE UNCHANGED homeVars
  BY <1>1 DEF homeVars
<1>2. CASE Moves("poller", PollerNext) \/ Moves("activity", ActivityNext)
  BY <1>2, PollerIsAlert, ActivityIsAlert DEF Moves
<1>3. CASE \/ Moves("screen", ScreenNext) \/ Moves("settings", SettingsNext)
           \/ Moves("sensor", SensorNext) \/ Moves("recognition", RecogNext)
  BY <1>3 DEF Moves, Others
<1> QED
  BY <1>1, <1>2, <1>3 DEF HomeNext

LEMMA ScreenStep == [HomeNext]_homeVars => [ScreenNext]_lockVars
<1>1. CASE UNCHANGED homeVars
  BY <1>1 DEF homeVars
<1>2. CASE Moves("screen", ScreenNext)
  BY <1>2 DEF Moves
<1>3. CASE \/ Moves("poller", PollerNext) \/ Moves("activity", ActivityNext)
           \/ Moves("settings", SettingsNext)
           \/ Moves("sensor", SensorNext) \/ Moves("recognition", RecogNext)
  BY <1>3 DEF Moves, Others
<1> QED
  BY <1>1, <1>2, <1>3 DEF HomeNext

LEMMA SettingsStep == [HomeNext]_homeVars => [SettingsNext]_settingsVars
<1>1. CASE UNCHANGED homeVars
  BY <1>1 DEF homeVars
<1>2. CASE Moves("settings", SettingsNext)
  BY <1>2 DEF Moves
<1>3. CASE \/ Moves("poller", PollerNext) \/ Moves("activity", ActivityNext)
           \/ Moves("screen", ScreenNext)
           \/ Moves("sensor", SensorNext) \/ Moves("recognition", RecogNext)
  BY <1>3 DEF Moves, Others
<1> QED
  BY <1>1, <1>2, <1>3 DEF HomeNext

LEMMA SensorStep == [HomeNext]_homeVars => [SensorNext]_sensorVars
<1>1. CASE UNCHANGED homeVars
  BY <1>1 DEF homeVars
<1>2. CASE Moves("sensor", SensorNext)
  BY <1>2 DEF Moves
<1>3. CASE \/ Moves("poller", PollerNext) \/ Moves("activity", ActivityNext)
           \/ Moves("screen", ScreenNext) \/ Moves("settings", SettingsNext)
           \/ Moves("recognition", RecogNext)
  BY <1>3 DEF Moves, Others
<1> QED
  BY <1>1, <1>2, <1>3 DEF HomeNext

LEMMA RecogStep == [HomeNext]_homeVars => [RecogNext]_recogVars
<1>1. CASE UNCHANGED homeVars
  BY <1>1 DEF homeVars
<1>2. CASE Moves("recognition", RecogNext)
  BY <1>2 DEF Moves
<1>3. CASE \/ Moves("poller", PollerNext) \/ Moves("activity", ActivityNext)
           \/ Moves("screen", ScreenNext) \/ Moves("settings", SettingsNext)
           \/ Moves("sensor", SensorNext)
  BY <1>3 DEF Moves, Others
<1> QED
  BY <1>1, <1>2, <1>3 DEF HomeNext

\* The whole implements each of its parts: no action of one component writes a
\* variable of another, and the two parts of the alerts take only steps that
\* the poller and the Activity screen take together.
THEOREM HomeImplementsParts ==
  HomeSpec => AlertSpec /\ ScreenSpec /\ SettingsSpec /\ SensorSpec /\ RecogSpec
<1>1. HomeInit => AlertInit /\ ScreenInit /\ SettingsInit /\ SensorInit /\ RecogInit
  BY DEF HomeInit
<1> QED
  BY <1>1, AlertStep, ScreenStep, SettingsStep, SensorStep, RecogStep, PTL
     DEF HomeSpec, AlertSpec, ScreenSpec, SettingsSpec, SensorSpec, RecogSpec

\* All that is claimed of the five components, liveness apart, holds of them side
\* by side, for any number of polls, alerts, rows and members at once.
THEOREM HomeIsSafe ==
  HomeSpec =>
    /\ [](AlertTypeOK /\ ScreenTypeOK /\ SettingsTypeOK /\ SensorTypeOK /\ RecogTypeOK)
    /\ [](OnlyRacedLoadHidesAlerts /\ InStep /\ ShutOutIsRefused)
    /\ AnnouncedOnce /\ FlipAgrees /\ StoredIsUsers
    /\ ScansSpaced /\ OneScanPerVisit /\ ThresholdHonoured
<1>1. AlertSpec => [](AlertTypeOK /\ OnlyRacedLoadHidesAlerts) /\ AnnouncedOnce
  BY AlertTypeCorrect, OnlyRacedLoadHidesAlertsAlways, AnnouncedOnceAlways, PTL
<1>2. ScreenSpec => []ScreenTypeOK /\ FlipAgrees
  BY ScreenTypeCorrect, FlipAgreesAlways, PTL
<1>3. SettingsSpec => [](SettingsTypeOK /\ InStep) /\ StoredIsUsers
  BY SettingsTypeCorrect, InStepAlways, StoredIsUsersAlways, PTL
<1>4. SensorSpec => []SensorTypeOK /\ ScansSpaced /\ OneScanPerVisit
  BY SensorTypeCorrect, ScansSpacedAlways, OneScanPerVisitAlways, PTL
<1>5. RecogSpec => [](RecogTypeOK /\ ShutOutIsRefused) /\ ThresholdHonoured
  BY RecogTypeCorrect, ShutOutIsRefusedAlways, ThresholdHonouredAlways, PTL
<1> QED
  BY <1>1, <1>2, <1>3, <1>4, <1>5, HomeImplementsParts, PTL

=============================================================================
