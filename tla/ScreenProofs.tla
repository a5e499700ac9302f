---------------------------- MODULE ScreenProofs ----------------------------
(***************************************************************************)
(* Theorems about the two screens that keep a copy of the Pi's state,       *)
(* LockScreen and SettingsSync, for any number of requests in flight.       *)
(***************************************************************************)
EXTENDS LockScreen, SettingsSync, TLAPS

-----------------------------------------------------------------------------
(* The lock screen.                                                         *)

\* A command was pressed for the opposite of what the screen still shows, as
\* long as nothing else was handled; and once the Pi has done it the door is
\* as asked, until somebody else moves it.
CommandInv ==
  /\ command.at # "none" /\ ~landed => shown = ~command.to
  /\ command.at = "done" /\ ~moved => locked = command.to

ScreenInv == ScreenTypeOK /\ CommandInv

LEMMA ScreenInvInit == ScreenInit => ScreenInv
<1> SUFFICES ASSUME ScreenInit PROVE ScreenInv
  OBVIOUS
<1> USE DEF ScreenInit, NoCommand
<1>1. shown \in BOOLEAN /\ landed \in BOOLEAN /\ moved \in BOOLEAN
  OBVIOUS
<1>2. command \in Command /\ command.at = "none"
  BY DEF Command
<1>3. status \in [StatusPoll -> BOOLEAN \union {NoAnswer}]
  OBVIOUS
<1> QED
  BY <1>1, <1>2, <1>3 DEF ScreenInv, ScreenTypeOK, CommandInv

LEMMA ScreenInvNext == ScreenInv /\ [ScreenNext]_lockVars => ScreenInv'
<1> SUFFICES ASSUME ScreenInv, [ScreenNext]_lockVars
             PROVE  ScreenInv'
  OBVIOUS
<1> USE DEF ScreenInv, ScreenTypeOK, CommandInv, Command, NoCommand
<1>1. CASE DoorMoves
  BY <1>1 DEF DoorMoves
<1>2. ASSUME NEW k \in StatusPoll, AnswerStatus(k)
      PROVE  ScreenInv'
  BY <1>2 DEF AnswerStatus
<1>3. ASSUME NEW k \in StatusPoll, EndStatus(k)
      PROVE  ScreenInv'
  <2>1. CASE DeliverStatus(k)
    <3>1. status[k] \in BOOLEAN
      BY <2>1 DEF DeliverStatus
    <3> QED
      BY <2>1, <3>1 DEF DeliverStatus
  <2>2. CASE LoseStatus(k)
    BY <2>2 DEF LoseStatus
  <2> QED
    BY <1>3, <2>1, <2>2 DEF EndStatus
<1>4. CASE PressToggle
  BY <1>4 DEF PressToggle, Opposite
<1>5. CASE DoCommand
  BY <1>5 DEF DoCommand
<1>6. CASE EndCommand
  <2>1. command' = NoCommand /\ shown' \in BOOLEAN
    BY <1>6 DEF EndCommand, FlipShown, LoseCommand
  <2>2. UNCHANGED <<locked, status, ring, landed, moved>>
    BY <1>6 DEF EndCommand, FlipShown, LoseCommand
  <2>3. ScreenTypeOK'
    BY <2>1, <2>2
  <2>4. command'.at = "none"
    BY <2>1
  <2> QED
    BY <2>3, <2>4
<1>7. CASE Ring
  BY <1>7 DEF Ring, PressDoorbell, AnswerDoorbell, EndDoorbell, DeliverDoorbell, LoseDoorbell
<1>8. CASE UNCHANGED lockVars
  BY <1>8 DEF lockVars
<1> QED
  BY <1>1, <1>2, <1>3, <1>4, <1>5, <1>6, <1>7, <1>8 DEF ScreenNext, Toggle

LEMMA ScreenInvAlways == ScreenSpec => []ScreenInv
BY ScreenInvInit, ScreenInvNext, PTL DEF ScreenSpec

\* Type correctness of the lock screen: no failed load is ever shown as a
\* state of the door.
THEOREM ScreenTypeCorrect == ScreenSpec => []ScreenTypeOK
<1>1. ScreenInv => ScreenTypeOK
  BY DEF ScreenInv
<1> QED
  BY <1>1, ScreenInvAlways, PTL

\* The flip of toggleDoor agrees with the door, unless the answer of a poll or
\* of the doorbell was handled meanwhile or somebody else moved the door,
\* however many polls are in flight.
THEOREM FlipAgreesAlways == ScreenSpec => FlipAgrees
<1>1. ScreenInv /\ [ScreenNext]_lockVars
        => [FlipShown /\ ~landed /\ ~moved => shown' = locked]_lockVars
  BY DEF ScreenInv, ScreenTypeOK, CommandInv, FlipShown, Command
<1> QED
  BY <1>1, ScreenInvAlways, PTL DEF ScreenSpec, FlipAgrees

-----------------------------------------------------------------------------
(* The settings screen.                                                     *)

\* The push sent last is in flight, with the value the ready screen shows.
NewestInv ==
  newest # Null =>
    /\ push[newest] # Null
    /\ stage = "ready" => push[newest] = onScreen

SettingsInv == SettingsTypeOK /\ NewestInv /\ InStep

LEMMA SettingsInvInit == SettingsInit => SettingsInv
BY DEF SettingsInit, SettingsInv, SettingsTypeOK, Stage, NewestInv, InStep

\* What the effect does to the invariant, for a value that is then shown.
LEMMA EffectKeeps ==
  ASSUME SettingsInv, NEW value \in BOOLEAN, Effect(value),
         onScreen' = value, stage' \in Stage, stage # "ready" \/ stage' = "ready"
  PROVE  SettingsInv'
<1> USE SettingsAssumption DEF SettingsInv, SettingsTypeOK, NewestInv, InStep
<1>1. CASE stage' # "ready"
  BY <1>1 DEF Effect
<1>2. CASE stage' = "ready"
  <2>1. PICK k \in Push : /\ push' = [push EXCEPT ![k] = value]
                          /\ newest' = k
                          /\ stored' = value
                          /\ UNCHANGED <<onPi, astray>>
    BY <1>2 DEF Effect
  <2> QED
    BY <1>2, <2>1
<1> QED
  BY <1>1, <1>2

LEMMA SettingsInvNext == SettingsInv /\ [SettingsNext]_settingsVars => SettingsInv'
<1> SUFFICES ASSUME SettingsInv, [SettingsNext]_settingsVars
             PROVE  SettingsInv'
  OBVIOUS
<1>t. SettingsTypeOK
  BY DEF SettingsInv
<1>1. CASE OpenSettings
  BY <1>1, <1>t, EffectKeeps DEF OpenSettings, SettingsTypeOK, Stage
<1>2. CASE AskPi
  BY <1>2 DEF AskPi, SettingsInv, SettingsTypeOK, NewestInv, InStep, Stage
<1>3. CASE Restore
  <2>1. Restored \in BOOLEAN
    BY <1>t DEF Restored, SettingsTypeOK
  <2> QED
    BY <1>3, <2>1, EffectKeeps DEF Restore, Stage
<1>4. CASE FlipSwitch
  <2>1. (~onScreen) \in BOOLEAN
    OBVIOUS
  <2>2. stage' \in Stage
    BY <1>4, <1>t DEF FlipSwitch, SettingsTypeOK
  <2> QED
    BY <1>4, <2>1, <2>2, EffectKeeps DEF FlipSwitch
<1>5. CASE AppRestart
  BY <1>5 DEF AppRestart, SettingsInv, SettingsTypeOK, NewestInv, InStep, Stage
<1>6. CASE PiRestart
  BY <1>6 DEF PiRestart, SettingsInv, SettingsTypeOK, NewestInv, InStep
<1>7. CASE PushFromElsewhere
  BY <1>7 DEF PushFromElsewhere, SettingsInv, SettingsTypeOK, NewestInv, InStep
<1>8. ASSUME NEW k \in Push, PushLands(k)
      PROVE  SettingsInv'
  <2>1. push[k] \in BOOLEAN
    BY <1>8, <1>t DEF PushLands, SettingsTypeOK
  <2>2. SettingsTypeOK'
    <3>1. onPi' \in BOOLEAN
      BY <1>8, <2>1 DEF PushLands, SetOnPi
    <3>2. astray' \in BOOLEAN
      BY <1>8 DEF PushLands
    <3> QED
      BY <1>8, <1>t, <3>1, <3>2 DEF PushLands, SettingsTypeOK, Stage
  <2>3. NewestInv'
    BY <1>8, SettingsAssumption DEF PushLands, SettingsInv, SettingsTypeOK, NewestInv
  <2>4. InStep'
    <3> SUFFICES ASSUME stage' = "ready", ~astray'
                 PROVE  onPi' = onScreen'
      BY DEF InStep
    <3>1. newest = k
      BY <1>8 DEF PushLands
    <3>2. stage = "ready" /\ onScreen' = onScreen
      BY <1>8 DEF PushLands
    <3>3. push[k] = onScreen
      BY <3>1, <3>2, SettingsAssumption DEF SettingsInv, NewestInv
    <3> QED
      BY <1>8, <3>2, <3>3 DEF PushLands, SetOnPi
  <2> QED
    BY <2>2, <2>3, <2>4 DEF SettingsInv
<1>9. ASSUME NEW k \in Push, PushLost(k)
      PROVE  SettingsInv'
  BY <1>9, SettingsAssumption DEF PushLost, SettingsInv, SettingsTypeOK, NewestInv, InStep
<1>10. CASE UNCHANGED settingsVars
  BY <1>10 DEF settingsVars, SettingsInv, SettingsTypeOK, NewestInv, InStep
<1> QED
  BY <1>1, <1>2, <1>3, <1>4, <1>5, <1>6, <1>7, <1>8, <1>9, <1>10 DEF SettingsNext

LEMMA SettingsInvAlways == SettingsSpec => []SettingsInv
BY SettingsInvInit, SettingsInvNext, PTL DEF SettingsSpec

\* Type correctness of the settings: an entry that was never stored is never
\* shown or pushed.
THEOREM SettingsTypeCorrect == SettingsSpec => []SettingsTypeOK
<1>1. SettingsInv => SettingsTypeOK
  BY DEF SettingsInv
<1> QED
  BY <1>1, SettingsInvAlways, PTL

\* The Pi does what the switch shows whenever it handled the push sent last
\* last, for any number of pushes in flight, lost or overtaken.
THEOREM InStepAlways == SettingsSpec => []InStep
<1>1. SettingsInv => InStep
  BY DEF SettingsInv
<1> QED
  BY <1>1, SettingsInvAlways, PTL

\* Nobody but the user changes a stored choice.
THEOREM StoredIsUsersAlways == SettingsSpec => StoredIsUsers
<1>1. [SettingsNext]_settingsVars
        => [stored # Null /\ stored' # stored => FlipSwitch]_settingsVars
  <2> SUFFICES ASSUME SettingsNext, stored # Null, stored' # stored
               PROVE  FlipSwitch
    OBVIOUS
  <2>1. ~OpenSettings
    BY DEF OpenSettings, Effect
  <2>2. ~Restore
    BY DEF Restore, Restored, Effect
  <2> QED
    BY <2>1, <2>2 DEF SettingsNext, AskPi, AppRestart, PiRestart, PushFromElsewhere, PushLands, PushLost
<1> QED
  BY <1>1, PTL DEF SettingsSpec, StoredIsUsers

-----------------------------------------------------------------------------
(* ScreenSettles, as far as it is safety.                                   *)

\* Nobody presses anything, and the door is left alone.
Quiet == ~PressToggle /\ ~PressDoorbell /\ ~DoorMoves

\* Steps until the button's command and the doorbell are answered.
CommandLeft == CASE command.at = "sent" -> 2 [] command.at = "done" -> 1 [] OTHER -> 0

RingLeft == CASE ring = "rung" -> 2 [] ring \in {"authorized", "other"} -> 1 [] OTHER -> 0

\* Answers in flight that are older than the door.
StaleAnswers == {k \in StatusPoll : status[k] \notin {NoAnswer, locked}}

\* Nothing is left that would write the door, or show a state it is not in.
Calm == CommandLeft = 0 /\ RingLeft = 0 /\ StaleAnswers = {}

Settled == Calm /\ shown = locked

\* While it is quiet, requests only come to their ends; the stale answers grow
\* fewer from the moment no command and no doorbell is under way, each poll
\* that ends leaves them, and the next answer shown is the door's state.
ScreenAdvances ==
  Quiet =>
    /\ CommandLeft' <= CommandLeft /\ RingLeft' <= RingLeft
    /\ DoCommand \/ EndCommand => CommandLeft' < CommandLeft
    /\ AnswerDoorbell \/ EndDoorbell => RingLeft' < RingLeft
    /\ CommandLeft = 0 /\ RingLeft = 0 =>
         /\ StaleAnswers' \subseteq StaleAnswers
         /\ \A k \in StatusPoll : EndStatus(k) => k \notin StaleAnswers'
    /\ Calm => Calm' /\ \A k \in StatusPoll : DeliverStatus(k) => Settled'
    /\ Settled => Settled'

LEMMA ScreenAdvancesStep ==
  ASSUME ScreenInv, ScreenNext, Quiet
  PROVE  /\ CommandLeft' <= CommandLeft /\ RingLeft' <= RingLeft
         /\ DoCommand \/ EndCommand => CommandLeft' < CommandLeft
         /\ AnswerDoorbell \/ EndDoorbell => RingLeft' < RingLeft
<1> USE DEF ScreenInv, ScreenTypeOK, Command, NoCommand
<1>0. CommandLeft \in Nat /\ RingLeft \in Nat
  BY DEF CommandLeft, RingLeft
<1>1. CASE DoCommand
  <2>1. command.at = "sent" /\ command'.at = "done" /\ ring' = ring
    BY <1>1 DEF DoCommand
  <2>2. ~AnswerDoorbell /\ ~EndDoorbell
    BY <2>1 DEF AnswerDoorbell, EndDoorbell, DeliverDoorbell, LoseDoorbell
  <2> QED
    BY <2>1, <2>2 DEF CommandLeft, RingLeft
<1>2. CASE EndCommand
  <2>1. command.at \in {"sent", "done"} /\ command'.at = "none" /\ ring' = ring
    BY <1>2 DEF EndCommand, FlipShown, LoseCommand
  <2>3. RingLeft' = RingLeft
    BY <2>1 DEF RingLeft
  <2>4. CommandLeft' \in Nat /\ CommandLeft' < CommandLeft
    BY <2>1 DEF CommandLeft
  <2>2. ~AnswerDoorbell /\ ~EndDoorbell
    BY <2>1 DEF AnswerDoorbell, EndDoorbell, DeliverDoorbell, LoseDoorbell
  <2> QED
    BY <1>0, <2>2, <2>3, <2>4
<1>3. CASE AnswerDoorbell \/ EndDoorbell
  <2>1. command' = command
    BY <1>3 DEF AnswerDoorbell, EndDoorbell, DeliverDoorbell, LoseDoorbell
  <2>4. \/ ring = "rung" /\ ring' \in {"authorized", "other", "none"}
        \/ ring \in {"authorized", "other"} /\ ring' = "none"
    BY <1>3 DEF AnswerDoorbell, EndDoorbell, DeliverDoorbell, LoseDoorbell
  <2>5. RingLeft' \in Nat /\ RingLeft' < RingLeft
    BY <2>4 DEF RingLeft
  <2>2. ~DoCommand /\ ~EndCommand
    BY <2>1 DEF DoCommand, EndCommand, FlipShown, LoseCommand
  <2>3. CommandLeft' = CommandLeft /\ RingLeft' \in Nat
    BY <2>1 DEF CommandLeft, RingLeft
  <2> QED
    BY <1>0, <2>2, <2>3, <2>5
<1>4. CASE \E k \in StatusPoll : AnswerStatus(k) \/ EndStatus(k)
  <2>1. command' = command /\ ring' = ring
    BY <1>4 DEF AnswerStatus, EndStatus, DeliverStatus, LoseStatus
  <2>2. ~DoCommand /\ ~EndCommand
    BY <2>1 DEF DoCommand, EndCommand, FlipShown, LoseCommand
  <2>3. ~AnswerDoorbell /\ ~EndDoorbell
    BY <2>1 DEF AnswerDoorbell, EndDoorbell, DeliverDoorbell, LoseDoorbell
  <2> QED
    BY <2>1, <2>2, <2>3 DEF CommandLeft, RingLeft
<1> QED
  BY <1>1, <1>2, <1>3, <1>4 DEF ScreenNext, Toggle, Ring, Quiet

\* With no command and no doorbell under way only polls move.
LEMMA OnlyPolls ==
  ASSUME ScreenInv, ScreenNext, Quiet, CommandLeft = 0, RingLeft = 0
  PROVE  \E k \in StatusPoll : AnswerStatus(k) \/ EndStatus(k)
<1>1. command.at = "none" /\ ring = "none"
  BY DEF ScreenInv, ScreenTypeOK, Command, CommandLeft, RingLeft
<1>2. ~DoCommand /\ ~EndCommand /\ ~AnswerDoorbell /\ ~EndDoorbell
  BY <1>1 DEF DoCommand, EndCommand, FlipShown, LoseCommand, AnswerDoorbell, EndDoorbell,
     DeliverDoorbell, LoseDoorbell
<1> QED
  BY <1>2 DEF ScreenNext, Toggle, Ring, Quiet

\* A poll that is answered is not stale, one that has ended neither.
LEMMA PollStep ==
  ASSUME ScreenInv, NEW k \in StatusPoll, AnswerStatus(k) \/ EndStatus(k)
  PROVE  /\ StaleAnswers' \subseteq StaleAnswers \ {k}
         /\ CommandLeft' = CommandLeft /\ RingLeft' = RingLeft /\ locked' = locked
         /\ shown' = shown \/ (DeliverStatus(k) /\ shown' = status[k])
<1>1. UNCHANGED <<locked, command, ring>> /\ status'[k] \in {NoAnswer, locked}
  BY DEF AnswerStatus, EndStatus, DeliverStatus, LoseStatus, ScreenInv, ScreenTypeOK
<1>2. \A j \in StatusPoll \ {k} : status'[j] = status[j]
  BY DEF AnswerStatus, EndStatus, DeliverStatus, LoseStatus, ScreenInv, ScreenTypeOK
<1>3. shown' = shown \/ (DeliverStatus(k) /\ shown' = status[k])
  BY DEF AnswerStatus, EndStatus, DeliverStatus, LoseStatus
<1>4. StaleAnswers' \subseteq StaleAnswers \ {k}
  BY <1>1, <1>2 DEF StaleAnswers
<1> QED
  BY <1>1, <1>3, <1>4 DEF CommandLeft, RingLeft

\* ScreenSettles up to fairness, for any number of polls in flight: once it is
\* quiet the requests under way come to their ends, the stale answers dwindle,
\* the next answer shows the door's state, and the screen keeps to it.
THEOREM ScreenSettlesByAdvancing == ScreenSpec => [][ScreenAdvances]_lockVars
<1>1. ScreenInv /\ ScreenNext => ScreenAdvances
  <2> SUFFICES ASSUME ScreenInv, ScreenNext, Quiet
               PROVE  /\ CommandLeft = 0 /\ RingLeft = 0 =>
                           /\ StaleAnswers' \subseteq StaleAnswers
                           /\ \A k \in StatusPoll : EndStatus(k) => k \notin StaleAnswers'
                      /\ Calm => Calm' /\ \A k \in StatusPoll : DeliverStatus(k) => Settled'
                      /\ Settled => Settled'
    BY ScreenAdvancesStep DEF ScreenAdvances
  <2>1. CASE ~(CommandLeft = 0 /\ RingLeft = 0)
    BY <2>1 DEF Calm, Settled
  <2>2. CASE CommandLeft = 0 /\ RingLeft = 0
    <3>1. PICK k \in StatusPoll : AnswerStatus(k) \/ EndStatus(k)
      BY <2>2, OnlyPolls
    <3>2. /\ StaleAnswers' \subseteq StaleAnswers
          /\ \A j \in StatusPoll : EndStatus(j) => j \notin StaleAnswers'
      BY <3>1, PollStep
    <3>3. Calm => Calm'
      BY <3>1, PollStep DEF Calm
    <3>4. ASSUME Calm, NEW j \in StatusPoll, DeliverStatus(j) PROVE Settled'
      <4>1. shown' = status[j] /\ status[j] # NoAnswer /\ locked' = locked
        BY <3>4 DEF DeliverStatus
      <4>2. status[j] = locked
        BY <3>4, <4>1 DEF Calm, StaleAnswers
      <4> QED
        BY <3>3, <3>4, <4>1, <4>2 DEF Settled
    <3>5. Settled => Settled'
      BY <3>1, <3>3, <3>4, PollStep DEF Settled
    <3> QED
      BY <3>2, <3>3, <3>4, <3>5
  <2> QED
    BY <2>1, <2>2
<1> QED
  BY <1>1, ScreenInvAlways, PTL DEF ScreenSpec

-----------------------------------------------------------------------------
(* ScreenSettles itself.                                                    *)

\* Every request of the app ends within its timeout.
FairCommand == []<>(CommandLeft = 0) \/ []<><<EndCommand>>_lockVars

FairRing == []<>(RingLeft = 0) \/ []<><<EndDoorbell>>_lockVars

FairStatus(k) == []<>(status[k] = NoAnswer) \/ []<><<EndStatus(k)>>_lockVars

\* The network lets the answer of some poll through again and again.
FairStatusDelivery == []<><<\E k \in StatusPoll : DeliverStatus(k)>>_lockVars

FairScreen == FairCommand /\ FairRing /\ (\A k \in StatusPoll : FairStatus(k)) /\ FairStatusDelivery

\* The app polls every 5 s with a timeout of 5 s, so two of these polls are in
\* flight at most, and the load that follows a doorbell.
ThreeStatusPolls == \E a, b, c : StatusPoll = {a, b, c}

\* The screen at rest but for its polls.
NothingAsked == CommandLeft = 0 /\ RingLeft = 0

LEMMA QuietSteps == ScreenSpec /\ <>[][Quiet]_lockVars => <>[][Quiet /\ ScreenAdvances]_lockVars
  BY ScreenSettlesByAdvancing, PTL

\* The end of a command or of a doorbell is its last step.
LEMMA EndsAreLast ==
  /\ EndCommand => CommandLeft' = 0
  /\ EndDoorbell => RingLeft' = 0
<1>1. EndCommand => command'.at = "none"
  BY DEF EndCommand, FlipShown, LoseCommand, NoCommand
<1>2. EndDoorbell => ring' = "none"
  BY DEF EndDoorbell, DeliverDoorbell, LoseDoorbell
<1> QED
  BY <1>1, <1>2 DEF CommandLeft, RingLeft

\* In the end nothing is asked any more.
LEMMA AskingEnds ==
  [][Quiet /\ ScreenAdvances]_lockVars /\ FairCommand /\ FairRing => <>[]NothingAsked
<1> DEFINE NoCommandLeft == CommandLeft = 0
<1> DEFINE NoRingLeft == RingLeft = 0
<1>1. [Quiet /\ ScreenAdvances]_lockVars
      => (NoCommandLeft => NoCommandLeft') /\ (NoRingLeft => NoRingLeft')
  <2>1. CASE UNCHANGED lockVars
    BY <2>1 DEF lockVars, CommandLeft, RingLeft
  <2>2. CASE Quiet /\ ScreenAdvances
    <3>1. CommandLeft' <= CommandLeft /\ RingLeft' <= RingLeft
      BY <2>2 DEF ScreenAdvances
    <3>2. CommandLeft' \in 0..2 /\ RingLeft' \in 0..2
      BY DEF CommandLeft, RingLeft
    <3> QED
      BY <3>1, <3>2
  <2> QED
    BY <2>1, <2>2
<1>2. (EndCommand => NoCommandLeft') /\ (EndDoorbell => NoRingLeft')
  BY EndsAreLast
<1>3. FairCommand => []<>NoCommandLeft \/ []<><<EndCommand>>_lockVars
  BY DEF FairCommand
<1>4. FairRing => []<>NoRingLeft \/ []<><<EndDoorbell>>_lockVars
  BY DEF FairRing
<1>5. NothingAsked <=> NoCommandLeft /\ NoRingLeft
  BY DEF NothingAsked
<1> HIDE DEF NoCommandLeft, NoRingLeft
<1> QED
  BY <1>1, <1>2, <1>3, <1>4, <1>5, PTL

\* From then on no answer goes stale, and each that is ends.
LEMMA StaleEnds ==
  ASSUME NEW k \in StatusPoll
  PROVE  [][Quiet /\ ScreenAdvances]_lockVars /\ []NothingAsked
            /\ ([]<>(status[k] = NoAnswer) \/ []<><<EndStatus(k)>>_lockVars)
         => <>[](k \notin StaleAnswers)
<1> DEFINE Fresh == k \notin StaleAnswers
<1> DEFINE None == status[k] = NoAnswer
<1> DEFINE Ends == EndStatus(k)
<1>1. [Quiet /\ ScreenAdvances]_lockVars /\ NothingAsked /\ Fresh => Fresh'
  <2>1. CASE UNCHANGED lockVars
    BY <2>1 DEF lockVars, StaleAnswers
  <2>2. CASE Quiet /\ ScreenAdvances /\ NothingAsked /\ Fresh
    BY <2>2 DEF ScreenAdvances, NothingAsked
  <2> QED
    BY <2>1, <2>2
<1>2. [Quiet /\ ScreenAdvances]_lockVars /\ NothingAsked /\ <<Ends>>_lockVars => Fresh'
  BY DEF ScreenAdvances, NothingAsked
<1>3. None => Fresh
  BY DEF StaleAnswers
<1>4. [][Quiet /\ ScreenAdvances]_lockVars /\ []NothingAsked /\ ([]<>None \/ []<><<Ends>>_lockVars)
      => <>[]Fresh
  <2> HIDE DEF Fresh, None, Ends
  <2> QED
    BY <1>1, <1>2, <1>3, PTL
<1> QED
  BY <1>4

LEMMA CalmInTheEnd ==
  ASSUME ThreeStatusPolls
  PROVE  [][Quiet /\ ScreenAdvances]_lockVars /\ []NothingAsked /\ (\A k \in StatusPoll : FairStatus(k))
         => <>[]Calm
<1>1. PICK a, b, c : StatusPoll = {a, b, c}
  BY DEF ThreeStatusPolls
<1> DEFINE Asks == [][Quiet /\ ScreenAdvances]_lockVars /\ []NothingAsked
<1> DEFINE Polls == \A k \in StatusPoll : FairStatus(k)
<1>2. ASSUME NEW k \in StatusPoll PROVE Asks /\ Polls => <>[](k \notin StaleAnswers)
  <2>1. Polls => []<>(status[k] = NoAnswer) \/ []<><<EndStatus(k)>>_lockVars
    BY DEF FairStatus
  <2>2. Asks /\ ([]<>(status[k] = NoAnswer) \/ []<><<EndStatus(k)>>_lockVars)
        => <>[](k \notin StaleAnswers)
    BY StaleEnds
  <2> QED
    BY <2>1, <2>2
<1>3. Asks /\ Polls => <>[](a \notin StaleAnswers)
  <2>1. PICK k \in StatusPoll : k = a
    BY <1>1
  <2>2. Asks /\ Polls => <>[](k \notin StaleAnswers)
    BY <1>2
  <2>3. k \notin StaleAnswers => a \notin StaleAnswers
    BY <2>1
  <2> HIDE DEF Asks, Polls
  <2> QED
    BY <2>2, <2>3, PTL
<1>4. Asks /\ Polls => <>[](b \notin StaleAnswers)
  <2>1. PICK k \in StatusPoll : k = b
    BY <1>1
  <2>2. Asks /\ Polls => <>[](k \notin StaleAnswers)
    BY <1>2
  <2>3. k \notin StaleAnswers => b \notin StaleAnswers
    BY <2>1
  <2> HIDE DEF Asks, Polls
  <2> QED
    BY <2>2, <2>3, PTL
<1>5. Asks /\ Polls => <>[](c \notin StaleAnswers)
  <2>1. PICK k \in StatusPoll : k = c
    BY <1>1
  <2>2. Asks /\ Polls => <>[](k \notin StaleAnswers)
    BY <1>2
  <2>3. k \notin StaleAnswers => c \notin StaleAnswers
    BY <2>1
  <2> HIDE DEF Asks, Polls
  <2> QED
    BY <2>2, <2>3, PTL
<1>6. /\ a \notin StaleAnswers /\ b \notin StaleAnswers /\ c \notin StaleAnswers /\ NothingAsked
      => Calm
  BY <1>1 DEF StaleAnswers, Calm, NothingAsked
<1>7. Asks => []NothingAsked
  OBVIOUS
<1> HIDE DEF Asks, Polls
<1>8. Asks /\ Polls => <>[]Calm
  BY <1>3, <1>4, <1>5, <1>6, <1>7, PTL
<1> QED
  BY <1>8 DEF Asks, Polls

\* ScreenSettles, if the requests of the app end and some polls get through.
THEOREM ScreenSettlesIfFair ==
  ASSUME ThreeStatusPolls
  PROVE  ScreenSpec /\ FairScreen => ScreenSettles
<1> DEFINE Delivers == \E k \in StatusPoll : DeliverStatus(k)
<1> DEFINE Right == shown = locked
<1>1. [Quiet /\ ScreenAdvances]_lockVars => (Calm /\ <<Delivers>>_lockVars => Settled')
  BY DEF ScreenAdvances
<1>2. [Quiet /\ ScreenAdvances]_lockVars /\ Settled => Settled'
  <2>1. CASE UNCHANGED lockVars
    BY <2>1 DEF lockVars, Settled, Calm, CommandLeft, RingLeft, StaleAnswers
  <2> QED
    BY <2>1 DEF ScreenAdvances
<1>3. Settled => Right
  BY DEF Settled
<1>4. FairScreen => FairCommand /\ FairRing /\ (\A k \in StatusPoll : FairStatus(k))
                    /\ []<><<Delivers>>_lockVars
  BY DEF FairScreen, FairStatusDelivery
<1> DEFINE Polls == \A k \in StatusPoll : FairStatus(k)
<1>5. FairCommand => []FairCommand
  BY PTL DEF FairCommand
<1>6. FairRing => []FairRing
  BY PTL DEF FairRing
<1>7. Polls => []Polls
  <2>1. ASSUME NEW k \in StatusPoll PROVE FairStatus(k) => []FairStatus(k)
    BY PTL DEF FairStatus
  <2>2. (\A k \in StatusPoll : []FairStatus(k)) => [](\A k \in StatusPoll : FairStatus(k))
    OBVIOUS
  <2> QED
    BY <2>1, <2>2
<1>8. [][Quiet /\ ScreenAdvances]_lockVars /\ []NothingAsked /\ Polls => <>[]Calm
  BY CalmInTheEnd
<1>9. FairScreen => FairCommand /\ FairRing /\ Polls /\ []<><<Delivers>>_lockVars
  BY <1>4
<1>10. ScreenSpec /\ FairScreen /\ <>[][Quiet]_lockVars => <>[]Right
  <2> HIDE DEF Delivers, Right, Polls
  <2> QED
    BY <1>1, <1>2, <1>3, <1>5, <1>6, <1>7, <1>8, <1>9, QuietSteps, AskingEnds, PTL
<1> QED
  BY <1>10 DEF ScreenSettles, Quiet

=============================================================================
