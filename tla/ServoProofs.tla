---------------------------- MODULE ServoProofs -----------------------------
(***************************************************************************)
(* Theorems about Servo, for every number of spin threads and every length  *)
(* of a spin.                                                               *)
(***************************************************************************)
EXTENDS Servo, TLAPS

-----------------------------------------------------------------------------
(* Types, and who drives the motor.                                         *)

\* _busy is held exactly from acquire() to release().
BusyInv == \A s \in Spin : spin[s] \in {"clear", "check", "wait"} <=> busy = s

\* A thread that waits out half a second has switched the motor on.
DutyInv ==
  \A s \in Spin :
    spin[s] = "wait" /\ powered => duty = IF dir[s] THEN "lock" ELSE "unlock"

\* ... and the time it waits belongs to its spin.
WaitInv == \A s \in Spin : spin[s] = "wait" => elapsed < SpinTicks

IInv == TypeOK /\ BusyInv /\ DutyInv /\ WaitInv /\ DrivenByOwner

LEMMA InitIInv == Init => IInv
<1> SUFFICES ASSUME Init PROVE IInv
  OBVIOUS
<1> USE ServoAssumption DEF Init
<1>1. TypeOK
  <2>1. 0 \in 0..SpinTicks /\ SpinTicks \in 0..SpinTicks
    OBVIOUS
  <2> QED
    BY <2>1 DEF TypeOK, SpinState, Duty
<1>2. BusyInv /\ DutyInv /\ WaitInv
  BY DEF BusyInv, DutyInv, WaitInv
<1>3. DrivenByOwner
  BY DEF DrivenByOwner
<1> QED
  BY <1>1, <1>2, <1>3 DEF IInv

LEMMA MovedType == TypeOK => Moved \in 0..SpinTicks
  BY ServoAssumption DEF TypeOK, Moved, Duty

LEMMA SpinStepIInv == ASSUME IInv, NEW s \in Spin, SpinStep(s) PROVE IInv'
<1> USE ServoAssumption DEF IInv
<1>1. TypeOK'
  <2>1. CASE SetCancel(s) \/ StartThread(s) \/ Acquire(s) \/ Drive(s) \/ Stop(s)
    BY <2>1 DEF SetCancel, StartThread, Acquire, Drive, Stop, TypeOK, SpinState, Duty
  <2>2. CASE Clear(s)
    <3>1. 0 \in 0..SpinTicks
      OBVIOUS
    <3> QED
      BY <2>2, <3>1 DEF Clear, TypeOK, SpinState
  <2>3. CASE Wait(s)
    <3>1. elapsed + 1 \in 0..SpinTicks
      BY <2>3 DEF Wait, WaitInv, TypeOK
    <3>2. bolt' \in 0..SpinTicks
      BY <2>3, MovedType DEF Wait, TypeOK
    <3> QED
      BY <2>3, <3>1, <3>2 DEF Wait, TypeOK, SpinState
  <2> QED
    BY <2>1, <2>2, <2>3 DEF SpinStep
<1>2. BusyInv'
  BY DEF SpinStep, SetCancel, StartThread, Acquire, Clear, Drive, Wait, Stop, BusyInv, TypeOK
\* Only the owner of _busy is past acquire(), so nobody else's half second or
\* duty cycle is touched.
<1>3. WaitInv'
  BY DEF SpinStep, SetCancel, StartThread, Acquire, Clear, Drive, Wait, Stop, Goes, WaitInv, BusyInv, TypeOK
<1>4. DutyInv'
  BY DEF SpinStep, SetCancel, StartThread, Acquire, Clear, Drive, Wait, Stop, DutyInv, BusyInv, TypeOK
<1>5. DrivenByOwner'
  BY DEF SpinStep, SetCancel, StartThread, Acquire, Clear, Drive, Wait, Stop, DrivenByOwner, BusyInv, TypeOK
<1> QED
  BY <1>1, <1>2, <1>3, <1>4, <1>5

LEMMA CommandIInv == ASSUME IInv, NEW d \in BOOLEAN, Command(d) PROVE IInv'
<1>1. PICK s \in Spin : /\ spin[s] = "done"
                       /\ spin' = [spin EXCEPT ![s] = "set"]
                       /\ dir' = [dir EXCEPT ![s] = d]
  BY DEF Command
<1> USE <1>1 DEF IInv, Command
<1>2. TypeOK'
  BY DEF TypeOK, SpinState
<1>3. BusyInv' /\ WaitInv'
  BY DEF BusyInv, WaitInv, TypeOK
<1>4. DutyInv' /\ DrivenByOwner'
  BY DEF DutyInv, DrivenByOwner, TypeOK
<1> QED
  BY <1>2, <1>3, <1>4

LEMMA StepIInv == IInv /\ [Next]_vars => IInv'
<1>1. IInv /\ Cleanup => IInv'
  BY DEF Cleanup, IInv, TypeOK, BusyInv, WaitInv, DutyInv, DrivenByOwner, Duty
<1>2. IInv /\ UNCHANGED vars => IInv'
  BY DEF vars, IInv, TypeOK, BusyInv, WaitInv, DutyInv, DrivenByOwner
<1> QED
  BY <1>1, <1>2, SpinStepIInv, CommandIInv DEF Next

LEMMA IInvAlways == Spec => []IInv
  BY InitIInv, StepIInv, PTL DEF Spec

\* Positions, times and threads stay within their bounds.
THEOREM ServoTypeCorrect == Spec => []TypeOK
<1>1. IInv => TypeOK
  BY DEF IInv
<1> QED
  BY <1>1, IInvAlways, PTL

\* The motor is driven only by the thread that holds _busy, in that thread's
\* direction, and not after cleanup().
THEOREM DrivenByOwnerAlways == Spec => []DrivenByOwner
<1>1. IInv => DrivenByOwner
  BY DEF IInv
<1> QED
  BY <1>1, IInvAlways, PTL

-----------------------------------------------------------------------------
(* Commands that are spaced win.                                            *)

Spinning(s) == spin[s] \in {"check", "wait"}

\* A command that waits its turn is the latest.
WaitingLatest == \A s \in Waiting : dir[s] = locked

\* A spin is interrupted exactly when a later command waits for its turn, and
\* has set the event.
Interrupted ==
  \A s \in Spin : Spinning(s) => (cancel <=> \E r \in Waiting : spin[r] # "set")

\* An uninterrupted spin has pushed the bolt towards its end for as long as it
\* has lasted, and is the latest command's unless one waits.
Progress ==
  \A s \in Spin : Spinning(s) /\ ~cancel =>
    /\ Waiting = {} => dir[s] = locked
    /\ dir[s] => bolt >= elapsed
    /\ ~dir[s] => bolt <= SpinTicks - elapsed

SpacedInv == powered => WaitingLatest /\ Interrupted /\ Progress /\ LatestWins

LEMMA SpacedCommand ==
  ASSUME IInv, SpacedInv, OneWaiting, OneWaiting', NEW d \in BOOLEAN, Command(d)
  PROVE  SpacedInv'
<1>1. PICK s \in Spin : /\ spin[s] = "done"
                       /\ spin' = [spin EXCEPT ![s] = "set"]
                       /\ dir' = [dir EXCEPT ![s] = d]
  BY DEF Command
<1>2. s \in Waiting' /\ spin'[s] = "set" /\ dir'[s] = d /\ \A r \in Spin \ {s} : spin'[r] = spin[r]
  BY <1>1 DEF Waiting, IInv, TypeOK
<1>3. \A r \in Waiting' : r = s
  BY <1>2 DEF OneWaiting
<1>4. WaitingLatest'
  BY <1>2, <1>3 DEF WaitingLatest, Command
\* Nobody waited before, and the event is not set yet.
<1>5. Waiting = {}
  BY <1>1, <1>2, <1>3 DEF Waiting
<1>6. \A r \in Spin : Spinning(r)' <=> Spinning(r)
  BY <1>1, <1>2 DEF Spinning
<1>7. CASE powered
  <2>1. Interrupted'
    BY <1>2, <1>3, <1>5, <1>6, <1>7 DEF SpacedInv, Interrupted, Command
  <2>2. Progress'
    <3>1. \A r \in Spin : Spinning(r) => dir'[r] = dir[r]
      BY <1>1 DEF Spinning, IInv, TypeOK
    <3>2. UNCHANGED <<cancel, bolt, elapsed>> /\ Waiting' # {}
      BY <1>2 DEF Command
    <3> QED
      BY <1>6, <1>7, <3>1, <3>2 DEF SpacedInv, Progress
  <2>3. ~Quiet'
    BY <1>2 DEF Quiet
  <2> QED
    BY <1>4, <2>1, <2>2, <2>3 DEF SpacedInv, LatestWins
<1> QED
  BY <1>7 DEF SpacedInv, Command

LEMMA SpacedSpin ==
  ASSUME IInv, SpacedInv, OneWaiting, OneWaiting', NEW s \in Spin, SpinStep(s), powered
  PROVE  SpacedInv'
<1> USE ServoAssumption DEF IInv, SpacedInv, Waiting, Spinning
\* s takes its turn: the latest command, still waiting, owns _busy.
<1>1. CASE Acquire(s)
  <2>1. Waiting' = Waiting
    BY <1>1 DEF Acquire, TypeOK
  <2>2. \A r \in Spin : ~Spinning(r)'
    BY <1>1 DEF Acquire, TypeOK, BusyInv
  <2>3. ~Quiet'
    BY <1>1 DEF Acquire, TypeOK, Quiet
  <2> QED
    BY <1>1, <2>1, <2>2, <2>3 DEF Acquire, WaitingLatest, Interrupted, Progress, LatestWins
\* s was the only one that waited: the event it clears is its own.
<1>2. CASE Clear(s)
  <2>1. s \in Waiting /\ \A r \in Waiting : r = s
    BY <1>2 DEF Clear, OneWaiting
  <2>2. Waiting' = {}
    BY <1>2, <2>1 DEF Clear, TypeOK
  <2>3. \A r \in Spin : Spinning(r)' => r = s
    BY <1>2 DEF Clear, TypeOK, BusyInv
  <2>4. dir[s] = locked
    BY <2>1 DEF WaitingLatest
  <2>5. bolt >= 0 /\ bolt <= SpinTicks - 0
    BY DEF TypeOK
  <2>6. ~Quiet'
    BY <1>2 DEF Clear, TypeOK, Quiet
  <2>7. Progress'
    BY <1>2, <2>3, <2>4, <2>5 DEF Clear, Progress
  <2>8. Interrupted'
    BY <1>2, <2>2 DEF Clear, Interrupted
  <2> QED
    BY <2>2, <2>6, <2>7, <2>8 DEF WaitingLatest, LatestWins
<1>3. CASE Drive(s)
  <2>1. Waiting' = Waiting /\ ~Quiet'
    BY <1>3 DEF Drive, TypeOK, Quiet
  <2>2. \A r \in Spin : Spinning(r)' <=> Spinning(r)
    BY <1>3 DEF Drive, TypeOK
  <2> QED
    BY <1>3, <2>1, <2>2 DEF Drive, WaitingLatest, Interrupted, Progress, LatestWins
\* Half a second of an uninterrupted spin moves the bolt, or it is at its end.
<1>4. CASE Wait(s)
  <2>1. Waiting' = Waiting /\ ~Quiet'
    BY <1>4 DEF Wait, TypeOK, Quiet
  <2>2. \A r \in Spin : Spinning(r)' => r = s
    BY <1>4 DEF Wait, TypeOK, BusyInv
  <2>3. Interrupted'
    BY <1>4, <2>1, <2>2 DEF Wait, Interrupted, TypeOK
  <2>4. ASSUME ~cancel
        PROVE  (dir[s] => bolt' >= elapsed') /\ (~dir[s] => bolt' <= SpinTicks - elapsed')
    <3>1. bolt' = Moved /\ elapsed' = elapsed + 1 /\ elapsed < SpinTicks
      BY <1>4, <2>4 DEF Wait, WaitInv
    <3>2. duty = IF dir[s] THEN "lock" ELSE "unlock"
      BY <1>4 DEF Wait, DutyInv
    <3>3. (dir[s] => bolt >= elapsed) /\ (~dir[s] => bolt <= SpinTicks - elapsed)
      BY <1>4, <2>4 DEF Wait, Progress
    <3>4. bolt \in 0..SpinTicks /\ elapsed \in 0..SpinTicks /\ SpinTicks \in Nat
      BY DEF TypeOK
    <3>5. CASE dir[s]
      BY <3>1, <3>2, <3>3, <3>4, <3>5 DEF Moved
    <3>6. CASE ~dir[s]
      BY <3>1, <3>2, <3>3, <3>4, <3>6 DEF Moved
    <3> QED
      BY <3>5, <3>6
  <2>5. Progress'
    BY <1>4, <2>2, <2>4 DEF Wait, Progress, TypeOK
  <2> QED
    BY <1>4, <2>1, <2>3, <2>5 DEF Wait, WaitingLatest, LatestWins
\* A spin ends at its end stop, or leaves the next one waiting.
<1>5. CASE Stop(s)
  <2>1. Waiting' = Waiting
    BY <1>5 DEF Stop, TypeOK
  <2>2. \A r \in Spin : ~Spinning(r)'
    BY <1>5 DEF Stop, TypeOK, BusyInv
  <2>3. Quiet' => bolt = End(locked)
    <3>1. CASE cancel
      BY <1>5, <2>1, <3>1 DEF Stop, Interrupted, Quiet
    <3>2. CASE ~cancel
      <4>1. elapsed = SpinTicks
        BY <1>5, <3>2 DEF Stop, Goes, TypeOK
      <4>2. Quiet' => Waiting = {}
        BY <2>1 DEF Quiet
      <4>3. Waiting = {} => dir[s] = locked
        BY <1>5, <3>2 DEF Stop, Progress
      <4>4. (dir[s] => bolt >= SpinTicks) /\ (~dir[s] => bolt <= 0)
        BY <1>5, <3>2, <4>1 DEF Stop, Progress
      <4> QED
        BY <4>2, <4>3, <4>4 DEF TypeOK, End
    <3> QED
      BY <3>1, <3>2
  <2> QED
    BY <1>5, <2>1, <2>2, <2>3 DEF Stop, WaitingLatest, Interrupted, Progress, LatestWins, End
\* The caller sets the event, and starts the thread.
<1>6. CASE SetCancel(s)
  <2>1. Waiting' = Waiting /\ s \in Waiting' /\ spin'[s] # "set" /\ ~Quiet'
    BY <1>6 DEF SetCancel, TypeOK, Quiet
  <2> QED
    BY <1>6, <2>1 DEF SetCancel, WaitingLatest, Interrupted, Progress, LatestWins
<1>7. CASE StartThread(s)
  <2>1. Waiting' = Waiting /\ ~Quiet'
    BY <1>7 DEF StartThread, TypeOK, Quiet
  <2>2. \A r \in Waiting : spin'[r] # "set" <=> spin[r] # "set"
    BY <1>7 DEF StartThread, TypeOK
  <2>3. \A r \in Spin : Spinning(r)' <=> Spinning(r)
    BY <1>7 DEF StartThread, TypeOK
  <2> QED
    BY <1>7, <2>1, <2>2, <2>3 DEF StartThread, WaitingLatest, Interrupted, Progress, LatestWins
<1> QED
  BY <1>1, <1>2, <1>3, <1>4, <1>5, <1>6, <1>7 DEF SpinStep

\* If no command comes while an earlier one's thread waits for its turn, the
\* bolt comes to rest where the latest command wanted it.
THEOREM SpacedLatestWinsAlways == Spec => SpacedLatestWins
<1>1. Init => SpacedInv
  BY DEF Init, SpacedInv, WaitingLatest, Interrupted, Progress, LatestWins, Waiting, Spinning, End
<1>2. IInv /\ SpacedInv /\ OneWaiting /\ OneWaiting' /\ [Next]_vars => SpacedInv'
  <2>1. ASSUME NEW s \in Spin, SpinStep(s), ~powered PROVE ~powered'
    BY <2>1 DEF SpinStep, SetCancel, StartThread, Acquire, Clear, Drive, Wait, Stop
  <2>2. Cleanup => SpacedInv'
    BY DEF Cleanup, SpacedInv
  <2>3. SpacedInv /\ UNCHANGED vars => SpacedInv'
    BY DEF vars, SpacedInv, WaitingLatest, Interrupted, Progress, LatestWins, Waiting, Spinning,
       Quiet, End
  <2> QED
    BY <2>1, <2>2, <2>3, SpacedCommand, SpacedSpin DEF Next, SpacedInv
<1>3. SpacedInv => LatestWins
  BY DEF SpacedInv, LatestWins
<1> QED
  BY <1>1, <1>2, <1>3, IInvAlways, PTL DEF Spec, SpacedLatestWins

-----------------------------------------------------------------------------
(* AllSpinsEnd, as far as it is safety.                                     *)

\* How far a spin thread has come: it counts the statements still before it,
\* with the half seconds of its own spin, and never exceeds SpinEnd.
SpinEnd == 2 * SpinTicks + 6

SpinRank(s) ==
  CASE spin[s] = "set"     -> 0
    [] spin[s] = "start"   -> 1
    [] spin[s] = "acquire" -> 2
    [] spin[s] = "clear"   -> 3
    [] spin[s] = "check"   -> 4 + 2 * elapsed
    [] spin[s] = "wait"    -> 5 + 2 * elapsed
    [] OTHER               -> SpinEnd

\* Unless all have ended, some thread has a statement that nothing blocks.
SomeSpinCanMove ==
  Quiet \/ \E s \in Spin :
    \/ spin[s] \in {"set", "start", "clear", "check", "wait"}
    \/ spin[s] = "acquire" /\ busy = NoSpin

\* A statement of a thread brings that one on, and takes no other one back: not
\* even by resetting the half seconds, which all of them share.
SpinsAdvance ==
  /\ \A s \in Spin : SpinStep(s) =>
       /\ SpinRank(s)' > SpinRank(s)
       /\ \A r \in Spin \ {s} : SpinRank(r)' = SpinRank(r)
  /\ Cleanup => \A r \in Spin : SpinRank(r)' = SpinRank(r)

LEMMA RankBound == ASSUME IInv, NEW s \in Spin PROVE SpinRank(s) \in 0..SpinEnd
  BY ServoAssumption DEF SpinRank, SpinEnd, IInv, TypeOK, SpinState

LEMMA OtherRank ==
  ASSUME IInv, NEW s \in Spin, SpinStep(s), NEW r \in Spin \ {s}
  PROVE  SpinRank(r)' = SpinRank(r)
<1>1. spin'[r] = spin[r]
  BY DEF IInv, TypeOK, SpinStep, SetCancel, StartThread, Acquire, Clear, Drive, Wait, Stop
<1>2. CASE elapsed' = elapsed
  BY <1>1, <1>2 DEF SpinRank, SpinEnd
\* The half seconds are the owner's, and only the owner is past acquire().
<1>3. CASE elapsed' # elapsed
  <2>1. busy = s
    BY <1>3 DEF IInv, BusyInv, SpinStep, SetCancel, StartThread, Acquire, Clear, Drive, Wait, Stop
  <2>2. spin[r] \notin {"check", "wait"}
    BY <2>1 DEF IInv, BusyInv
  <2> QED
    BY <1>1, <2>2 DEF SpinRank, SpinEnd
<1> QED
  BY <1>2, <1>3

LEMMA OwnRank ==
  ASSUME IInv, NEW s \in Spin, SpinStep(s)
  PROVE  SpinRank(s)' > SpinRank(s)
<1> USE ServoAssumption DEF IInv, TypeOK, SpinState, SpinRank, SpinEnd
<1>1. CASE Acquire(s)
  BY <1>1 DEF Acquire
<1>2. CASE Clear(s)
  BY <1>2 DEF Clear
<1>3. CASE Drive(s)
  BY <1>3 DEF Drive
<1>4. CASE Wait(s)
  BY <1>4 DEF Wait
<1>5. CASE Stop(s)
  BY <1>5 DEF Stop
<1>6. CASE SetCancel(s) \/ StartThread(s)
  BY <1>6 DEF SetCancel, StartThread
<1> QED
  BY <1>1, <1>2, <1>3, <1>4, <1>5, <1>6 DEF SpinStep

\* AllSpinsEnd up to fairness: some spin can always go on, every statement of a
\* spin brings it nearer to its end, which is a bounded number of statements
\* away, and takes none of the others back.  Only a new command starts one.
THEOREM SpinsEndByAdvancing ==
  Spec => []SomeSpinCanMove /\ [](\A s \in Spin : SpinRank(s) \in 0..SpinEnd) /\ [][SpinsAdvance]_vars
<1>1. IInv => SomeSpinCanMove
  BY DEF IInv, TypeOK, SpinState, BusyInv, SomeSpinCanMove, Quiet
<1>2. IInv => \A s \in Spin : SpinRank(s) \in 0..SpinEnd
  BY RankBound
<1>3. IInv /\ Cleanup => \A r \in Spin : SpinRank(r)' = SpinRank(r)
  BY DEF Cleanup, SpinRank, SpinEnd
<1>4. IInv /\ [Next]_vars => [SpinsAdvance]_vars
  BY <1>3, OwnRank, OtherRank DEF SpinsAdvance
<1> QED
  BY <1>1, <1>2, <1>4, IInvAlways, PTL DEF Spec

=============================================================================
