------------------------------- MODULE MCHome -------------------------------
(***************************************************************************)
(* The components that share no state, for TLC in one run: `part` says      *)
(* which of them moves, and the others stay in their initial states.  What  *)
(* holds of each of them holds of all of them side by side, as no action of *)
(* one reads or writes a variable of another.                               *)
(*                                                                          *)
(* AlertFeed is checked in two parts, to keep the graph small: "poller" has *)
(* two polls in flight and a restart of the app, "activity" the Activity    *)
(* screen and one poll.                                                     *)
(***************************************************************************)
EXTENDS AlertFeed, LockScreen, SettingsSync, MotionSensor, Recognition

CONSTANTS k1, k2, m1, m2, r1, r2

\* The poll of the part "activity" is one of the poller's.
ASSUME HomeAssumption == k1 \in Poll

TwoPolls == {k1, k2}
TwoMembers == {m1, m2}
TwoRows == {r1, r2}
\* Just below, at and just above what 0.60 and 0.61 let in.
Distances == {395, 405, 406}
Thresholds == {60, 61}

VARIABLE part

Parts == {"poller", "activity", "screen", "settings", "sensor", "recognition"}

homeVars == <<part, alertVars, lockVars, settingsVars, sensorVars, recogVars>>

HomeInit ==
  /\ part \in Parts
  /\ AlertInit /\ ScreenInit /\ SettingsInit /\ SensorInit /\ RecogInit
  /\ part # "screen" => locked
  /\ part # "sensor" => ~pin

Others(p) ==
  /\ UNCHANGED part
  /\ p \notin {"poller", "activity"} => UNCHANGED alertVars
  /\ p # "screen" => UNCHANGED lockVars
  /\ p # "settings" => UNCHANGED settingsVars
  /\ p # "sensor" => UNCHANGED sensorVars
  /\ p # "recognition" => UNCHANGED recogVars

Moves(p, A) == part = p /\ A /\ Others(p)

PollerNext ==
  \/ PostAlert \/ ReadElsewhere \/ AppStart
  \/ \E k \in Poll : AnswerPoll(k) \/ EndPoll(k)

ActivityNext ==
  \/ PostAlert \/ ReadElsewhere \/ Screen
  \/ AnswerPoll(k1) \/ EndPoll(k1)

HomeNext ==
  \/ Moves("poller", PollerNext)
  \/ Moves("activity", ActivityNext)
  \/ Moves("screen", ScreenNext)
  \/ Moves("settings", SettingsNext)
  \/ Moves("sensor", SensorNext)
  \/ Moves("recognition", RecogNext)

HomeSpec == HomeInit /\ [][HomeNext]_homeVars

-----------------------------------------------------------------------------
(* Fairness.                                                                *)

\* The app keeps polling, every request ends within its timeout, and the
\* network lets some answer through again and again.
AlertFairness ==
  /\ WF_homeVars(Moves("activity", AnswerPoll(k1)))
  /\ WF_homeVars(Moves("activity", EndPoll(k1)))
  /\ WF_homeVars(Moves("activity", EndLoad))
  /\ WF_homeVars(Moves("activity", EndMark))
  /\ SF_homeVars(Moves("activity", Deliver(k1)))
  /\ \A k \in Poll :
       /\ WF_homeVars(Moves("poller", AnswerPoll(k)))
       /\ WF_homeVars(Moves("poller", EndPoll(k)))
  /\ SF_homeVars(Moves("poller", \E k \in Poll : Deliver(k)))

ScreenFairness ==
  /\ \A k \in StatusPoll :
       /\ WF_homeVars(Moves("screen", AnswerStatus(k)))
       /\ WF_homeVars(Moves("screen", EndStatus(k)))
  /\ WF_homeVars(Moves("screen", EndCommand))
  /\ WF_homeVars(Moves("screen", EndDoorbell))
  /\ SF_homeVars(Moves("screen", \E k \in StatusPoll : DeliverStatus(k)))

\* Time passes and the polling thread runs: a scan ends or fails.
SensorFairness ==
  /\ WF_homeVars(Moves("sensor", Tick))
  /\ WF_homeVars(Moves("sensor", PollLoop))

FairHomeSpec == HomeSpec /\ AlertFairness /\ ScreenFairness /\ SensorFairness

=============================================================================
