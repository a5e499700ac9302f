----------------------------- MODULE AutoRelock -----------------------------
(***************************************************************************)
(* What the back end promises about the recorded door state (README:        *)
(* "The door auto-relocks after 10 seconds"), as a discipline about jobs:   *)
(* the job of locking the door is held by a thread that is on its way to    *)
(* lock it or to arm a timer, or by a timer that will.  Jobs are added      *)
(* freely, but each one ends in one of four ways only: it has locked the    *)
(* door, it was handed over to a timer, a thread with a job of its own has  *)
(* cancelled it, or it was a timer's and the door was found locked.         *)
(*                                                                          *)
(* `locked` is the row the app reads.                                       *)
(***************************************************************************)

CONSTANTS Thread, Timer

VARIABLES locked, jobs

vars == <<locked, jobs>>

Init == locked = TRUE /\ jobs = {}

\* A thread takes the job on.
Take(p) == jobs' = jobs \union {p} /\ UNCHANGED locked

\* Whoever opens the door takes the job on at once.
Unlock(p) == locked' = FALSE /\ jobs' = jobs \union {p}

\* Only a job locks the door, and that ends it.
Lock(j) == j \in jobs /\ locked' = TRUE /\ jobs' = jobs \ {j}

\* p hands its job over to a timer, for everyone who meant to start that one.
Arm(p, t) ==
  /\ p \in jobs /\ t \notin jobs
  /\ \E others \in SUBSET Thread : jobs' = (jobs \ ({p} \union others)) \union {t}
  /\ UNCHANGED locked

\* p cancels another job, and keeps its own.
Cancel(p) ==
  /\ p \in jobs
  /\ \E j \in jobs \ {p} : jobs' = jobs \ {j}
  /\ UNCHANGED locked

\* A timer finds the door locked.
Drop(t) == t \in jobs /\ locked /\ jobs' = jobs \ {t} /\ UNCHANGED locked

Next ==
  \/ \E p \in Thread : Take(p) \/ Unlock(p) \/ Lock(p) \/ Cancel(p)
  \/ \E t \in Timer : Lock(t) \/ Drop(t)
  \/ \E p \in Thread, t \in Timer : Arm(p, t)

Spec == Init /\ [][Next]_vars

\* What the discipline is for: an unlocked door always has a job.
Kept == ~locked => jobs # {}

=============================================================================
