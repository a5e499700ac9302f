------------------------------- MODULE Servo --------------------------------
(***************************************************************************)
(* ServoController of pi-backend/hardware.py on a Raspberry Pi (elsewhere   *)
(* its threads return at once).  Every lock() and unlock() notes the        *)
(* direction, sets the cancel event and starts a thread that waits for the  *)
(* mutex _busy, clears the event and turns the motor for SpinTicks half     *)
(* seconds, unless the event is set again.  Nothing orders the threads that *)
(* wait for _busy, nor the statements of threads that call at once: the     *)
(* event loop, the motion thread and the relock timers.                     *)
(*                                                                          *)
(* External: the bolt moves one unit in each half second, between two end   *)
(* stops that are SpinTicks apart, so a complete spin reaches its end.      *)
(***************************************************************************)
EXTENDS Integers

CONSTANTS Spin,      \* calls with the spin thread they start: bounds those alive at once
          NoSpin,    \* _busy is free
          SpinTicks  \* SERVO_SPIN_SECS in units of the 0.5 s wait

ASSUME ServoAssumption == NoSpin \notin Spin /\ SpinTicks \in Nat \ {0}

VARIABLES
  locked,   \* _locked: the direction commanded last
  cancel,   \* _cancel
  busy,     \* owner of _busy
  spin,     \* where each call, and then its spin thread, is
  dir,      \* the direction it is for: towards locked?
  elapsed,  \* half seconds the owner of _busy has spun
  duty,     \* what the PWM drives the motor to
  powered,  \* cleanup() has not been called
  bolt      \* position of the bolt: 0 unlocked, SpinTicks locked

vars == <<locked, cancel, busy, spin, dir, elapsed, duty, powered, bolt>>

\* The next step of the caller: set the event, start the thread; then of the
\* thread: acquire _busy, clear the event, test it, wait half a second.
SpinState == {"done", "set", "start", "acquire", "clear", "check", "wait"}

Duty == {"off", "lock", "unlock"}

TypeOK ==
  /\ locked \in BOOLEAN
  /\ cancel \in BOOLEAN
  /\ busy \in Spin \union {NoSpin}
  /\ spin \in [Spin -> SpinState]
  /\ dir \in [Spin -> BOOLEAN]
  /\ elapsed \in 0..SpinTicks
  /\ duty \in Duty
  /\ powered \in BOOLEAN
  /\ bolt \in 0..SpinTicks

Init ==
  /\ locked = TRUE
  /\ cancel = FALSE
  /\ busy = NoSpin
  /\ spin = [s \in Spin |-> "done"]
  /\ dir = [s \in Spin |-> TRUE]
  /\ elapsed = 0
  /\ duty = "off"
  /\ powered = TRUE
  /\ bolt = SpinTicks

-----------------------------------------------------------------------------

\* lock() for d = TRUE, unlock() for d = FALSE; also after cleanup().
Command(d) ==
  /\ locked' = d
  /\ \E s \in Spin :
       /\ spin[s] = "done"
       /\ spin' = [spin EXCEPT ![s] = "set"]
       /\ dir' = [dir EXCEPT ![s] = d]
  /\ UNCHANGED <<cancel, busy, elapsed, duty, powered, bolt>>

SetCancel(s) ==
  /\ spin[s] = "set"
  /\ spin' = [spin EXCEPT ![s] = "start"]
  /\ cancel' = TRUE
  /\ UNCHANGED <<locked, busy, dir, elapsed, duty, powered, bolt>>

StartThread(s) ==
  /\ spin[s] = "start"
  /\ spin' = [spin EXCEPT ![s] = "acquire"]
  /\ UNCHANGED <<locked, cancel, busy, dir, elapsed, duty, powered, bolt>>

\* Mutant: the spin does not take _busy.
AcquireAnyway(s) ==
  /\ spin[s] = "acquire"
  /\ spin' = [spin EXCEPT ![s] = "clear"]
  /\ busy' = s
  /\ UNCHANGED <<locked, cancel, dir, elapsed, duty, powered, bolt>>

Acquire(s) ==
  /\ spin[s] = "acquire"
  /\ busy = NoSpin
  /\ busy' = s
  /\ spin' = [spin EXCEPT ![s] = "clear"]
  /\ UNCHANGED <<locked, cancel, dir, elapsed, duty, powered, bolt>>

\* Mutant: the event is not cleared, so every spin stops at once.
ClearNot(s) ==
  /\ spin[s] = "clear"
  /\ spin' = [spin EXCEPT ![s] = "check"]
  /\ elapsed' = 0
  /\ UNCHANGED <<locked, cancel, busy, dir, duty, powered, bolt>>

\* Whoever set the event: a command that came after this thread's included.
Clear(s) ==
  /\ spin[s] = "clear"
  /\ spin' = [spin EXCEPT ![s] = "check"]
  /\ cancel' = FALSE
  /\ elapsed' = 0
  /\ UNCHANGED <<locked, busy, dir, duty, powered, bolt>>

\* Mutant: one half second too many.
GoesOnceMore(s) == elapsed <= SpinTicks /\ ~cancel

\* `while elapsed < SERVO_SPIN_SECS: if self._cancel.is_set(): break`
Goes(s) == elapsed < SpinTicks /\ ~cancel

\* A stopped PWM ignores the new duty cycle.
Drive(s) ==
  /\ spin[s] = "check" /\ Goes(s)
  /\ spin' = [spin EXCEPT ![s] = "wait"]
  /\ duty' = IF ~powered THEN "off" ELSE IF dir[s] THEN "lock" ELSE "unlock"
  /\ UNCHANGED <<locked, cancel, busy, dir, elapsed, powered, bolt>>

\* One half second of the motor (external).
Moved == CASE duty = "lock"   -> IF bolt < SpinTicks THEN bolt + 1 ELSE bolt
           [] duty = "unlock" -> IF bolt > 0 THEN bolt - 1 ELSE bolt
           [] OTHER           -> bolt

\* The wait times out, or the event cuts it short.
Wait(s) ==
  /\ spin[s] = "wait"
  /\ spin' = [spin EXCEPT ![s] = "check"]
  /\ elapsed' = elapsed + 1
  /\ \/ bolt' = Moved
     \/ cancel /\ bolt' = bolt
  /\ UNCHANGED <<locked, cancel, busy, dir, duty, powered>>

\* Mutant: no `finally`: a cancelled spin keeps the motor running and _busy.
StopNoFinally(s) ==
  /\ spin[s] = "check" /\ ~Goes(s)
  /\ spin' = [spin EXCEPT ![s] = "done"]
  /\ duty' = IF cancel THEN duty ELSE "off"
  /\ busy' = IF cancel THEN busy ELSE NoSpin
  /\ UNCHANGED <<locked, cancel, dir, elapsed, powered, bolt>>

\* The `finally` block.
Stop(s) ==
  /\ spin[s] = "check" /\ ~Goes(s)
  /\ spin' = [spin EXCEPT ![s] = "done"]
  /\ duty' = "off"
  /\ busy' = NoSpin
  /\ UNCHANGED <<locked, cancel, dir, elapsed, powered, bolt>>

\* cleanup(), once, at shutdown.
Cleanup ==
  /\ powered
  /\ cancel' = TRUE
  /\ duty' = "off"
  /\ powered' = FALSE
  /\ UNCHANGED <<locked, busy, spin, dir, elapsed, bolt>>

SpinStep(s) ==
  \/ SetCancel(s) \/ StartThread(s)
  \/ Acquire(s) \/ Clear(s) \/ Drive(s) \/ Wait(s) \/ Stop(s)

Next ==
  \/ \E d \in BOOLEAN : Command(d)
  \/ \E s \in Spin : SpinStep(s)
  \/ Cleanup

Spec == Init /\ [][Next]_vars

\* Callers and spin threads run; commands may never come.
FairSpec == Spec /\ \A s \in Spin : WF_vars(SpinStep(s))

-----------------------------------------------------------------------------

\* A command whose thread has not yet cleared the event.
Waiting == {s \in Spin : spin[s] \in {"set", "start", "acquire", "clear"}}

Quiet == \A s \in Spin : spin[s] = "done"

End(d) == IF d THEN SpinTicks ELSE 0

\* "If a new command comes in, cancel the current spin and start the new one"
\* (_spin): when the motor has come to rest, the bolt is where the latest
\* command wanted it.
LatestWins == powered /\ Quiet => bolt = End(locked)

\* That holds if no command ever comes while an earlier one's thread is still
\* waiting for its turn; then a command does interrupt the spin in progress,
\* however often.
OneWaiting == \A r, s \in Waiting : r = s

SpacedLatestWins == []OneWaiting => []LatestWins

\* The continuous-rotation motor is driven only by the owner of _busy, in its
\* direction, and never after the thread that drove it is gone or cleanup ran.
DrivenByOwner ==
  duty # "off" =>
    /\ powered
    /\ busy # NoSpin /\ spin[busy] \in {"check", "wait"}
    /\ duty = IF dir[busy] THEN "lock" ELSE "unlock"

\* The motor comes to rest again and again, and no command is left waiting:
\* once commands stop, every spin thread ends.
AllSpinsEnd == []<><<\E d \in BOOLEAN : Command(d)>>_vars \/ []<>Quiet

=============================================================================
