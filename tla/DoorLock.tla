------------------------------ MODULE DoorLock ------------------------------
(***************************************************************************)
(* The door of pi-backend/main.py.  Three kinds of threads change it: the   *)
(* event loop that serves the app ("loop"), the motion-sensor thread        *)
(* ("motion") and the relock Timer threads.  Nothing serialises them: a     *)
(* servo command, the write of door_state and the handling of the global    *)
(* _relock_timer are separate steps, and the threads interleave between     *)
(* them.  The handlers of the loop are atomic with respect to each other    *)
(* only, so one process stands for all of them.                             *)
(*                                                                          *)
(* Abstracted: the 10 s of the timer (it may fire at any time once it is    *)
(* armed), the recognition result (any outcome), the text of the rows       *)
(* written to logs and alerts, and the 5 s spin of the servo (module        *)
(* Servo): `bolt` is the direction that was commanded last.                 *)
(***************************************************************************)
EXTENDS FiniteSets

CONSTANTS Timer,     \* Timer objects; slots are reused once nobody can reach them
          Switched,  \* bound: the settings the app changes
          NoTimer,   \* _relock_timer before the first schedule
          Nobody     \* _face_lock is free

ASSUME ConstAssumption ==
  /\ NoTimer \notin Timer
  /\ Nobody \notin {"loop", "motion"}
  /\ Timer \cap {"loop", "motion"} = {}
  /\ Switched \subseteq {"detection", "alerts", "autoLock"}

Proc == {"loop", "motion"}

VARIABLES
  pc,           \* where each of the two threads is
  op,           \* the operation it runs, "none" between operations
  rows,         \* the log and alert rows that operation has written
  faceLock,     \* owner of _face_lock
  settings,     \* motion_detection_enabled, motion_alerts_enabled, auto_lock_on_unknown
  relockTimer,  \* _relock_timer
  timer,        \* state of every Timer object
  bolt,         \* the last servo command: is the bolt driven to locked?
  dbLocked      \* door_state.locked

vars == <<pc, op, rows, faceLock, settings, relockTimer, timer, bolt, dbLocked>>

Op == {"none", "lock", "unlock", "doorbell", "motion", "capture"}

Row == {"motion", "doorbell", "noFace", "authorized", "unknown", "unknownAlert",
        "locked", "unlocked"}

\* A handler's steps, named for what the thread is about to do.
PC == {"idle", "stopped",
       "cancelForLock", "servoLock", "saveLocked", "logLocked",
       "servoUnlock", "saveUnlocked", "cancel", "assign", "start", "logUnlocked", "reply",
       "face", "scan", "noFace", "logAuthorized", "logUnknown", "autoLock"}

\* "created": not started; "disarmed": cancelled before it was started;
\* "armed": waiting out its delay; "fired".."saving": inside _do_relock.
TimerState == {"dead", "created", "disarmed", "armed", "fired", "locking", "saving"}

TypeOK ==
  /\ pc \in [Proc -> PC]
  /\ op \in [Proc -> Op]
  /\ rows \in [Proc -> SUBSET Row]
  /\ faceLock \in Proc \union {Nobody}
  /\ settings \in [detection : BOOLEAN, alerts : BOOLEAN, autoLock : BOOLEAN]
  /\ relockTimer \in Timer \union {NoTimer}
  /\ timer \in [Timer -> TimerState]
  /\ bolt \in BOOLEAN
  /\ dbLocked \in BOOLEAN

DefaultSettings == [detection |-> TRUE, alerts |-> TRUE, autoLock |-> TRUE]

Init ==
  /\ pc = [p \in Proc |-> "idle"]
  /\ op = [p \in Proc |-> "none"]
  /\ rows = [p \in Proc |-> {}]
  /\ faceLock = Nobody
  /\ settings = DefaultSettings
  /\ relockTimer = NoTimer
  /\ timer = [t \in Timer |-> "dead"]
  /\ bolt = TRUE
  /\ dbLocked = TRUE

-----------------------------------------------------------------------------
(* Control of the two threads.                                              *)

door == <<relockTimer, timer, bolt, dbLocked>>

\* A step of p's operation that writes the rows R.
Step(p, from, to, R) ==
  /\ pc[p] = from
  /\ pc' = [pc EXCEPT ![p] = to]
  /\ rows' = [rows EXCEPT ![p] = @ \union R]
  /\ UNCHANGED <<op, settings>>

\* The end of p's operation.
Finish(p) ==
  /\ pc' = [pc EXCEPT ![p] = "idle"]
  /\ op' = [op EXCEPT ![p] = "none"]
  /\ rows' = [rows EXCEPT ![p] = {}]
  /\ UNCHANGED settings

Begin(p, o, to, R) ==
  /\ pc[p] = "idle"
  /\ pc' = [pc EXCEPT ![p] = to]
  /\ op' = [op EXCEPT ![p] = o]
  /\ rows' = [rows EXCEPT ![p] = R]
  /\ UNCHANGED <<faceLock, settings, door>>

-----------------------------------------------------------------------------
(* Requests: the app's calls, and the rising edge of the motion sensor.     *)

DoorLockRequest == Begin("loop", "lock", "cancelForLock", {})

DoorUnlockRequest == Begin("loop", "unlock", "servoUnlock", {})

Doorbell == Begin("loop", "doorbell", "face", {"doorbell"})

\* An enrollment capture: it only competes for _face_lock.
EnrollmentCapture == Begin("loop", "capture", "face", {})

\* The rate limit may swallow the edge: then nothing changes.  After a shutdown
\* the sensor is no longer polled.
MotionDetected ==
  /\ settings.detection
  /\ pc["loop"] # "stopped"
  /\ Begin("motion", "motion", "face", {"motion"})

\* POST /settings/motion and /settings/autolock, atomic on the loop.
SetSetting ==
  /\ pc["loop"] = "idle"
  /\ \E s \in Switched, b \in BOOLEAN : settings' = [settings EXCEPT ![s] = b]
  /\ UNCHANGED <<pc, op, rows, faceLock, door>>

Request ==
  \/ DoorLockRequest \/ DoorUnlockRequest \/ Doorbell
  \/ EnrollmentCapture \/ MotionDetected \/ SetSetting

-----------------------------------------------------------------------------
(* _schedule_relock, in the three steps other threads can come between.     *)

\* Mutant: a cancelled timer is left in a state nothing else knows.
CancelRelockUnknownState ==
  timer' = [t \in Timer |-> IF t = relockTimer /\ timer[t] = "armed"
                            THEN "cancelled" ELSE timer[t]]

\* Timer.cancel: without effect on a timer that has fired already.
CancelRelock ==
  timer' = [t \in Timer |->
              IF t # relockTimer THEN timer[t]
              ELSE CASE timer[t] = "created" -> "disarmed"
                     [] timer[t] = "armed"   -> "dead"
                     [] OTHER                -> timer[t]]

\* No thread can reach t: the global does not name it and it does not run.
Unreachable(t) ==
  t # relockTimer /\ timer[t] \in {"dead", "created", "disarmed"}

\* Mutant: the timer of an earlier unlocking is not cancelled.
CancelTimerNot(p) ==
  /\ Step(p, "cancel", "assign", {})
  /\ UNCHANGED <<faceLock, relockTimer, timer, bolt, dbLocked>>

CancelTimer(p) ==
  /\ Step(p, "cancel", "assign", {})
  /\ CancelRelock
  /\ UNCHANGED <<faceLock, relockTimer, bolt, dbLocked>>

AssignTimer(p) ==
  /\ Step(p, "assign", "start", {})
  /\ \E t \in Timer :
       /\ Unreachable(t)
       /\ relockTimer' = t
       /\ timer' = [timer EXCEPT ![t] = "created"]
  /\ UNCHANGED <<faceLock, bolt, dbLocked>>

\* `_relock_timer.daemon = True; _relock_timer.start()` go through the global,
\* which another thread may have replaced since.
StartTimer(p) ==
  /\ pc[p] = "start"
  /\ timer[relockTimer] \in {"created", "disarmed"}
  /\ timer' = [timer EXCEPT ![relockTimer] =
                 IF @ = "created" THEN "armed" ELSE "dead"]
  /\ \/ op[p] = "unlock" /\ Step(p, "start", "logUnlocked", {})
     \/ op[p] # "unlock" /\ Finish(p)
  /\ UNCHANGED <<faceLock, relockTimer, bolt, dbLocked>>

\* RuntimeError, "threads can only be started once": the handler is abandoned.
StartTwice(p) ==
  /\ pc[p] = "start"
  /\ timer[relockTimer] \notin {"created", "disarmed"}
  /\ Finish(p)
  /\ UNCHANGED <<faceLock, door>>

-----------------------------------------------------------------------------
(* Locking and unlocking.                                                   *)

CancelForLock(p) ==
  /\ Step(p, "cancelForLock", "servoLock", {})
  /\ CancelRelock
  /\ UNCHANGED <<faceLock, relockTimer, bolt, dbLocked>>

ServoLock(p) ==
  /\ Step(p, "servoLock", "saveLocked", {})
  /\ bolt' = TRUE
  /\ UNCHANGED <<faceLock, relockTimer, timer, dbLocked>>

SaveLocked(p) ==
  /\ dbLocked' = TRUE
  /\ \/ op[p] = "lock" /\ Step(p, "saveLocked", "logLocked", {})
     \/ op[p] # "lock" /\ pc[p] = "saveLocked" /\ Finish(p)
  /\ UNCHANGED <<faceLock, relockTimer, timer, bolt>>

ServoUnlock(p) ==
  /\ Step(p, "servoUnlock", "saveUnlocked", {})
  /\ bolt' = FALSE
  /\ UNCHANGED <<faceLock, relockTimer, timer, dbLocked>>

\* Mutant: the doorbell's copy of the pipeline forgets _schedule_relock.
SaveUnlockedNoSchedule(p) ==
  /\ pc[p] = "saveUnlocked"
  /\ IF op[p] = "doorbell" THEN Finish(p) ELSE Step(p, "saveUnlocked", "cancel", {})
  /\ dbLocked' = FALSE
  /\ UNCHANGED <<faceLock, relockTimer, timer, bolt>>

SaveUnlocked(p) ==
  /\ Step(p, "saveUnlocked", "cancel", {})
  /\ dbLocked' = FALSE
  /\ UNCHANGED <<faceLock, relockTimer, timer, bolt>>

\* The audit row of a manual command comes last.
LogManual(p) ==
  /\ \/ Step(p, "logLocked", "reply", {"locked"})
     \/ Step(p, "logUnlocked", "reply", {"unlocked"})
  /\ UNCHANGED <<faceLock, door>>

Reply(p) ==
  /\ pc[p] = "reply"
  /\ Finish(p)
  /\ UNCHANGED <<faceLock, door>>

-----------------------------------------------------------------------------
(* The recognition pipeline: on_motion_detected and _run_doorbell_scan.     *)

AcquireFaceLock(p) ==
  /\ faceLock = Nobody
  /\ faceLock' = p
  /\ Step(p, "face", "scan", {})
  /\ UNCHANGED door

\* Alerts about motion can be switched off; those of the doorbell cannot.
AlertRow(p, row) == IF op[p] = "motion" /\ ~settings.alerts THEN {} ELSE {row}

\* No face in three frames: the alert is written while _face_lock is held.
ScanNoFace(p) ==
  /\ op[p] # "capture"
  /\ Step(p, "scan", "noFace", AlertRow(p, "noFace"))
  /\ UNCHANGED <<faceLock, door>>

ScanFace(p) ==
  /\ op[p] # "capture"
  /\ \/ Step(p, "scan", "logAuthorized", {})
     \/ Step(p, "scan", "logUnknown", {})
  /\ faceLock' = Nobody
  /\ UNCHANGED door

\* The with-block ends: after an alert, or after an enrollment capture.
ReleaseFaceLock(p) ==
  /\ \/ pc[p] = "noFace"
     \/ pc[p] = "scan" /\ op[p] = "capture"
  /\ Finish(p)
  /\ faceLock' = Nobody
  /\ UNCHANGED door

\* Mutant: the door is opened before the audit row is written.
LogAuthorizedLater(p) ==
  /\ Step(p, "logAuthorized", "servoUnlock", {})
  /\ UNCHANGED <<faceLock, door>>

LogAuthorized(p) ==
  /\ Step(p, "logAuthorized", "servoUnlock", {"authorized"})
  /\ UNCHANGED <<faceLock, door>>

LogUnknown(p) ==
  /\ Step(p, "logUnknown", "autoLock", {"unknown"} \union AlertRow(p, "unknownAlert"))
  /\ UNCHANGED <<faceLock, door>>

\* `if auto_lock_on_unknown and not db.get_door_locked()`: tested here, acted
\* upon in two later steps.
AutoLock(p) ==
  /\ \/ /\ settings.autoLock /\ ~dbLocked
        /\ Step(p, "autoLock", "servoLock", {})
     \/ /\ ~settings.autoLock \/ dbLocked
        /\ pc[p] = "autoLock"
        /\ Finish(p)
  /\ UNCHANGED <<faceLock, door>>

ThreadStep(p) ==
  \/ CancelForLock(p) \/ ServoLock(p) \/ SaveLocked(p)
  \/ ServoUnlock(p) \/ SaveUnlocked(p) \/ LogManual(p) \/ Reply(p)
  \/ CancelTimer(p) \/ AssignTimer(p) \/ StartTimer(p) \/ StartTwice(p)
  \/ AcquireFaceLock(p) \/ ScanNoFace(p) \/ ScanFace(p) \/ ReleaseFaceLock(p)
  \/ LogAuthorized(p) \/ LogUnknown(p) \/ AutoLock(p)

-----------------------------------------------------------------------------
(* The Timer threads: wait, then _do_relock.                                *)

TimerGoes(t, from, to) ==
  /\ timer[t] = from
  /\ timer' = [timer EXCEPT ![t] = to]
  /\ UNCHANGED <<pc, op, rows, faceLock, settings, relockTimer>>

Fire(t) == TimerGoes(t, "armed", "fired") /\ UNCHANGED <<bolt, dbLocked>>

\* Mutant: a timer that has been replaced leaves the door to its successor.
RelockCheckReplaced(t) ==
  /\ TimerGoes(t, "fired", IF dbLocked \/ t # relockTimer THEN "dead" ELSE "locking")
  /\ UNCHANGED <<bolt, dbLocked>>

\* `if not db.get_door_locked()`
RelockCheck(t) ==
  /\ TimerGoes(t, "fired", IF dbLocked THEN "dead" ELSE "locking")
  /\ UNCHANGED <<bolt, dbLocked>>

\* Mutant: _do_relock does not move the servo.
RelockServoNot(t) == TimerGoes(t, "locking", "saving") /\ UNCHANGED <<bolt, dbLocked>>

RelockServo(t) ==
  /\ TimerGoes(t, "locking", "saving")
  /\ bolt' = TRUE
  /\ UNCHANGED dbLocked

\* Mutant: _do_relock does not write door_state.
RelockSaveNot(t) == TimerGoes(t, "saving", "dead") /\ UNCHANGED <<bolt, dbLocked>>

RelockSave(t) ==
  /\ TimerGoes(t, "saving", "dead")
  /\ dbLocked' = TRUE
  /\ UNCHANGED bolt

TimerStep(t) == Fire(t) \/ RelockCheck(t) \/ RelockServo(t) \/ RelockSave(t)

Next ==
  \/ Request
  \/ \E p \in Proc : ThreadStep(p)
  \/ \E t \in Timer : TimerStep(t)

Spec == Init /\ [][Next]_vars

\* Threads get their turn; requests and motion may never come.
Fairness ==
  /\ \A p \in Proc : WF_vars(ThreadStep(p))
  /\ \A t \in Timer : WF_vars(TimerStep(t))

FairSpec == Spec /\ Fairness

-----------------------------------------------------------------------------
(* Faults: a database write that raises (disk full, database is locked), a  *)
(* restart of the process, an orderly shutdown.                             *)

\* Mutant: _schedule_relock writes a row between the cancel and the new timer.
DbStepsInSchedule ==
  {"saveLocked", "logLocked", "saveUnlocked", "logUnlocked", "scan",
   "noFace", "logAuthorized", "logUnknown", "autoLock", "assign"}

\* Where the next statement is one that uses the database.
DbSteps == {"saveLocked", "logLocked", "saveUnlocked", "logUnlocked", "scan",
            "noFace", "logAuthorized", "logUnknown", "autoLock"}

\* Mutant: acquire() and release() instead of a with-block.
DbErrorKeepsLock(p) ==
  /\ pc[p] \in DbSteps
  /\ Finish(p)
  /\ UNCHANGED <<faceLock, door>>

\* The handler ends with a 500, or _poll_loop catches the exception; leaving
\* the with-block releases _face_lock.
DbError(p) ==
  /\ pc[p] \in DbSteps
  /\ Finish(p)
  /\ faceLock' = IF faceLock = p THEN Nobody ELSE faceLock
  /\ UNCHANGED door

\* The exception ends the Timer thread.
TimerDbError(t) ==
  /\ timer[t] \in {"fired", "saving"}
  /\ TimerGoes(t, timer[t], "dead")
  /\ UNCHANGED <<bolt, dbLocked>>

\* lifespan after the yield: the timer is cancelled, the door is left as it is.
Shutdown ==
  /\ pc["loop"] = "idle"
  /\ pc' = [pc EXCEPT !["loop"] = "stopped"]
  /\ CancelRelock
  /\ UNCHANGED <<op, rows, faceLock, settings, relockTimer, bolt, dbLocked>>

\* The process ends, orderly or not, and starts again: every thread and every
\* global is new, door_state and the bolt are as they were.
Restart ==
  /\ pc' = [p \in Proc |-> "idle"]
  /\ op' = [p \in Proc |-> "none"]
  /\ rows' = [p \in Proc |-> {}]
  /\ faceLock' = Nobody
  /\ settings' = DefaultSettings
  /\ relockTimer' = NoTimer
  /\ timer' = [t \in Timer |-> "dead"]
  /\ UNCHANGED <<bolt, dbLocked>>

FaultNext ==
  \/ Next
  \/ \E p \in Proc : DbError(p)
  \/ \E t \in Timer : TimerDbError(t)
  \/ Shutdown
  \/ Restart

FaultSpec == Init /\ [][FaultNext]_vars

FairFaultSpec == FaultSpec /\ Fairness

\* Restarts as the only fault.
FairRestartSpec == Init /\ [][Next \/ Shutdown \/ Restart]_vars /\ Fairness

-----------------------------------------------------------------------------
(* Properties.                                                              *)

InSchedule(p) == pc[p] \in {"cancel", "assign"}

ToLock(p) == pc[p] \in {"servoLock", "saveLocked", "cancelForLock"}

\* A thread about to start the timer it finds, which is neither started nor cancelled.
WillArm(p) ==
  pc[p] = "start" /\ relockTimer # NoTimer /\ timer[relockTimer] = "created"

Pending(t) == timer[t] \in {"armed", "fired", "locking", "saving"}

\* Those who are going to lock the door, or to arm a timer that will.
HasJob(p) == InSchedule(p) \/ ToLock(p) \/ WillArm(p)

Jobs == {p \in Proc : HasJob(p)} \union {t \in Timer : Pending(t)}

Covered == (\E p \in Proc : HasJob(p)) \/ (\E t \in Timer : Pending(t))

\* However the two threads and the timers interleave in _schedule_relock (a
\* cancel of the other thread's timer, a timer started twice or not at all),
\* the recorded door is never unlocked with nobody left to relock it.
RelockCovered == ~dbLocked => Covered

\* A write of door_state that raises where the door was about to be locked, a
\* Timer thread that ends with an exception, and the end of the process.
RelockAborted ==
  \/ \E p \in Proc : pc[p] = "saveLocked" /\ DbError(p)
  \/ \E t \in Timer : TimerDbError(t)
  \/ Shutdown \/ Restart

\* With every fault: only these leave a door recorded as unlocked with nobody to
\* relock it.  A scan, an alert or an audit row that fails never does, in
\* whatever step of the other thread or of a timer it happens.
OnlyAbortLosesRelock == [][RelockCovered /\ ~RelockCovered' => RelockAborted]_vars

\* Only the owner of _face_lock is inside the recognition code, whichever way
\* the other thread left it (main.py: "Prevents concurrent ... calls").
InFaceCode(p) == pc[p] \in {"scan", "noFace"}

FaceLockExclusion == \A p \in Proc : InFaceCode(p) <=> faceLock = p

\* A thread between its servo command and the write of door_state.
Changing(p) == pc[p] \in {"saveLocked", "saveUnlocked"}

Changers == {p \in Proc : Changing(p)} \union {t \in Timer : timer[t] = "saving"}

\* The bolt and the recorded state agree when nobody is between the two, as
\* long as no two threads ever were there at the same time: overlapping
\* changes are the only way they can come apart.
NoOverlap == \A x, y \in Changers : x = y

Agreement == Changers = {} => bolt = dbLocked

SerialAgreement == []NoOverlap => []Agreement

\* A thread between its cancel and its start in _schedule_relock.
Rescheduling(p) == pc[p] \in {"assign", "start"}

NoDoubleSchedule == \A p, q \in Proc : Rescheduling(p) /\ Rescheduling(q) => p = q

\* A timer that still counts down is the one that was assigned last, so that
\* the next cancel reaches it, and none does between a cancel and the start of
\* its successor.
SoleCountdown ==
  \A t \in Timer : timer[t] = "armed" => t = relockTimer /\ \A p \in Proc : ~Rescheduling(p)

\* As long as no two threads are inside _schedule_relock at once, an unlocking
\* gets its whole delay: the timer of an earlier one can cut it short only by
\* having fired before the new handler came to its cancel.
SerialCountdown == []NoDoubleSchedule => []SoleCountdown

\* A recognised face opens the door only after its "authorized" row is
\* written, also when writes fail: no recognition unlock without audit row.
RecognisedUnlockAudited ==
  \A p \in Proc :
    /\ op[p] \in {"doorbell", "motion"}
    /\ pc[p] \in {"servoUnlock", "saveUnlocked", "cancel", "assign", "start"}
    => "authorized" \in rows[p]

\* A door that is not opened for ever again is eventually recorded as locked.
EventuallyRelocked ==
  []<><<\E p \in Proc : SaveUnlocked(p)>>_vars \/ []<>dbLocked

\* The same of the bolt itself, the door the README speaks of ("The door
\* auto-relocks after 10 seconds").
BoltRelocked ==
  []<><<\E p \in Proc : ServoUnlock(p)>>_vars \/ []<>bolt

\* _face_lock is given back, also after an exception or a restart: the loop
\* thread, which blocks on it, is not stalled for good.
FaceLockFreed == \A p \in Proc : faceLock = p ~> faceLock # p

\* No job of relocking gets lost on the way: in every interleaving it ends as
\* AutoRelock allows, one by one, although other jobs may be left.
Promise == INSTANCE AutoRelock WITH Thread <- Proc, locked <- dbLocked, jobs <- Jobs

KeepsPromise == Promise!Spec

=============================================================================
