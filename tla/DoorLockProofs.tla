--------------------------- MODULE DoorLockProofs ---------------------------
(***************************************************************************)
(* Theorems about DoorLock, for every set of Timer objects.                 *)
(***************************************************************************)
EXTENDS DoorLock, Naturals, TLAPS

-----------------------------------------------------------------------------
(* The type invariant, with every fault.                                    *)

LEMMA TypeInit == Init => TypeOK
  BY DEF Init, TypeOK, PC, Op, Row, TimerState, DefaultSettings, Proc

\* Cancelling and starting keep every Timer object in a known state.
LEMMA CancelType ==
  ASSUME TypeOK, CancelRelock
  PROVE  timer' \in [Timer -> TimerState]
  BY DEF TypeOK, CancelRelock, TimerState

LEMMA RequestType == TypeOK /\ Request => TypeOK'
<1> SUFFICES ASSUME TypeOK, Request PROVE TypeOK'
  OBVIOUS
<1>1. ASSUME NEW p \in Proc, NEW o \in Op, NEW to \in PC, NEW R \in SUBSET Row,
             Begin(p, o, to, R)
      PROVE  TypeOK'
  BY <1>1 DEF Begin, TypeOK, door
<1>2. CASE SetSetting
  <2>1. PICK s \in Switched, b \in BOOLEAN : settings' = [settings EXCEPT ![s] = b]
    BY <1>2 DEF SetSetting
  <2>2. settings' \in [detection : BOOLEAN, alerts : BOOLEAN, autoLock : BOOLEAN]
    BY <2>1, ConstAssumption DEF TypeOK
  <2> QED
    BY <1>2, <2>2 DEF SetSetting, TypeOK, door
<1> QED
  BY <1>1, <1>2 DEF Request, DoorLockRequest, DoorUnlockRequest, Doorbell,
     EnrollmentCapture, MotionDetected, Proc, Op, PC, Row

\* A step of a thread, as far as its own bookkeeping is concerned.
LEMMA ThreadControl ==
  ASSUME TypeOK, NEW p \in Proc, ThreadStep(p) \/ DbError(p)
  PROVE  /\ pc' \in [Proc -> PC]
         /\ op' \in [Proc -> Op]
         /\ rows' \in [Proc -> SUBSET Row]
         /\ UNCHANGED settings
<1> USE DEF TypeOK, Step, Finish
<1>1. pc' \in [Proc -> PC] /\ UNCHANGED settings
  <2> USE DEF PC
  <2>1. CASE CancelForLock(p) \/ ServoLock(p) \/ SaveLocked(p) \/ ServoUnlock(p)
    BY <2>1 DEF CancelForLock, ServoLock, SaveLocked, ServoUnlock
  <2>2. CASE SaveUnlocked(p) \/ LogManual(p) \/ Reply(p) \/ CancelTimer(p)
    BY <2>2 DEF SaveUnlocked, LogManual, Reply, CancelTimer
  <2>3. CASE AssignTimer(p) \/ StartTimer(p) \/ StartTwice(p) \/ AcquireFaceLock(p)
    BY <2>3 DEF AssignTimer, StartTimer, StartTwice, AcquireFaceLock
  <2>4. CASE ScanNoFace(p) \/ ScanFace(p) \/ ReleaseFaceLock(p) \/ LogAuthorized(p)
    BY <2>4 DEF ScanNoFace, ScanFace, ReleaseFaceLock, LogAuthorized
  <2>5. CASE LogUnknown(p) \/ AutoLock(p) \/ DbError(p)
    BY <2>5 DEF LogUnknown, AutoLock, DbError
  <2> QED
    BY <2>1, <2>2, <2>3, <2>4, <2>5 DEF ThreadStep
<1>2. op' \in [Proc -> Op]
  <2>1. op' = op \/ op' = [op EXCEPT ![p] = "none"]
    BY DEF ThreadStep, CancelForLock, ServoLock, SaveLocked, ServoUnlock, SaveUnlocked, LogManual,
       Reply, CancelTimer, AssignTimer, StartTimer, StartTwice, AcquireFaceLock, ScanNoFace,
       ScanFace, ReleaseFaceLock, LogAuthorized, LogUnknown, AutoLock, DbError
  <2> QED
    BY <2>1 DEF Op
<1>3. rows' \in [Proc -> SUBSET Row]
  <2>1. \/ rows' = [rows EXCEPT ![p] = {}]
        \/ \E R \in SUBSET Row : rows' = [rows EXCEPT ![p] = @ \union R]
    BY DEF ThreadStep, CancelForLock, ServoLock, SaveLocked, ServoUnlock, SaveUnlocked, LogManual,
       Reply, CancelTimer, AssignTimer, StartTimer, StartTwice, AcquireFaceLock, ScanNoFace,
       ScanFace, ReleaseFaceLock, LogAuthorized, LogUnknown, AutoLock, DbError, AlertRow, Row
  <2> QED
    BY <2>1
<1> QED
  BY <1>1, <1>2, <1>3

LEMMA ThreadType == ASSUME TypeOK, NEW p \in Proc, ThreadStep(p) PROVE TypeOK'
<1>1. timer' \in [Timer -> TimerState]
  <2>1. CASE CancelForLock(p) \/ CancelTimer(p)
    BY <2>1, CancelType DEF CancelForLock, CancelTimer
  <2>2. CASE AssignTimer(p) \/ StartTimer(p)
    BY <2>2 DEF AssignTimer, StartTimer, TypeOK, TimerState
  <2>3. CASE timer' = timer
    BY <2>3 DEF TypeOK
  <2> QED
    BY <2>1, <2>2, <2>3 DEF ThreadStep, ServoLock, SaveLocked, ServoUnlock, SaveUnlocked, LogManual,
       Reply, StartTwice, AcquireFaceLock, ScanNoFace, ScanFace, ReleaseFaceLock, LogAuthorized,
       LogUnknown, AutoLock, door
<1>2. /\ faceLock' \in Proc \union {Nobody}
      /\ relockTimer' \in Timer \union {NoTimer}
      /\ bolt' \in BOOLEAN /\ dbLocked' \in BOOLEAN
  BY DEF TypeOK, ThreadStep, CancelForLock, ServoLock, SaveLocked, ServoUnlock, SaveUnlocked, LogManual,
     Reply, CancelTimer, AssignTimer, StartTimer, StartTwice, AcquireFaceLock, ScanNoFace,
     ScanFace, ReleaseFaceLock, LogAuthorized, LogUnknown, AutoLock, door
<1> QED
  BY <1>1, <1>2, ThreadControl DEF TypeOK

LEMMA TimerType == ASSUME TypeOK, NEW t \in Timer, TimerStep(t) PROVE TypeOK'
  BY DEF TimerStep, Fire, RelockCheck, RelockServo, RelockSave, TimerGoes, TypeOK, TimerState

LEMMA FaultType ==
  ASSUME TypeOK,
         \/ \E p \in Proc : DbError(p)
         \/ \E t \in Timer : TimerDbError(t)
         \/ Shutdown \/ Restart
  PROVE  TypeOK'
<1>1. ASSUME NEW p \in Proc, DbError(p) PROVE TypeOK'
  BY <1>1, ThreadControl DEF DbError, TypeOK, door
<1>2. ASSUME NEW t \in Timer, TimerDbError(t) PROVE TypeOK'
  BY <1>2 DEF TimerDbError, TimerGoes, TypeOK, TimerState
<1>3. CASE Shutdown
  BY <1>3, CancelType DEF Shutdown, TypeOK, PC
<1>4. CASE Restart
  BY <1>4, TypeInit DEF Restart, TypeOK, DefaultSettings, PC, Op, TimerState
<1> QED
  BY <1>1, <1>2, <1>3, <1>4

LEMMA TypeStep == TypeOK /\ [FaultNext]_vars => TypeOK'
<1>1. TypeOK /\ UNCHANGED vars => TypeOK'
  BY DEF vars, TypeOK
<1> QED
  BY <1>1, RequestType, ThreadType, TimerType, FaultType DEF FaultNext, Next

\* Every thread and every Timer object is in a state the code knows, whatever
\* fails.
THEOREM TypeCorrect == FaultSpec => []TypeOK
  BY TypeInit, TypeStep, PTL DEF FaultSpec

\* Without faults in particular.
THEOREM SpecTypeCorrect == Spec => []TypeOK
<1>1. [Next]_vars => [FaultNext]_vars
  BY DEF FaultNext
<1> QED
  BY <1>1, TypeInit, TypeStep, PTL DEF Spec

-----------------------------------------------------------------------------
(* The recorded door is always going to be relocked.                        *)

LEMMA CoverRequest ==
  ASSUME TypeOK, RelockCovered, Request
  PROVE  RelockCovered'
<1>1. ASSUME NEW p \in Proc, NEW o, NEW to, NEW R, Begin(p, o, to, R)
      PROVE  RelockCovered'
  <2>1. pc[p] = "idle" /\ \A q \in Proc : q # p => pc'[q] = pc[q]
    BY <1>1 DEF Begin, TypeOK
  <2> QED
    BY <1>1, <2>1 DEF Begin, door, RelockCovered, Covered, HasJob, InSchedule, ToLock, WillArm, Pending
<1>2. CASE SetSetting
  BY <1>2 DEF SetSetting, door, RelockCovered, Covered, HasJob, InSchedule, ToLock, WillArm, Pending
<1> QED
  BY <1>1, <1>2 DEF Request, DoorLockRequest, DoorUnlockRequest, Doorbell,
     EnrollmentCapture, MotionDetected, Proc

LEMMA CoverThread ==
  ASSUME TypeOK, RelockCovered, NEW p \in Proc, ThreadStep(p)
  PROVE  RelockCovered'
<1> USE DEF RelockCovered, Covered, HasJob, InSchedule, ToLock, WillArm, Pending
\* A thread that cancels the timer goes on to arm a new one, or to lock.
<1>1. CASE CancelForLock(p)
  <2>1. pc'[p] = "servoLock"
    BY <1>1 DEF CancelForLock, Step, TypeOK
  <2> QED
    BY <2>1
<1>2. CASE CancelTimer(p)
  <2>1. pc'[p] = "assign"
    BY <1>2 DEF CancelTimer, Step, TypeOK
  <2> QED
    BY <2>1
\* The new timer has not been started: p will arm it.
<1>3. CASE AssignTimer(p)
  <2>1. pc'[p] = "start"
    BY <1>3 DEF AssignTimer, Step, TypeOK
  <2>2. relockTimer' \in Timer /\ timer'[relockTimer'] = "created"
    BY <1>3 DEF AssignTimer, TypeOK
  <2> QED
    BY <2>1, <2>2, ConstAssumption
\* p arms the timer it finds.  If that one had been cancelled, or started by
\* the other thread, p was not the one that covered the door.
<1>4. CASE StartTimer(p)
  <2>1. CASE relockTimer \in Timer /\ timer[relockTimer] = "created"
    <3>1. timer'[relockTimer] = "armed"
      BY <1>4, <2>1 DEF StartTimer, TypeOK
    <3> QED
      BY <2>1, <3>1
  <2>2. CASE ~(relockTimer \in Timer /\ timer[relockTimer] = "created")
    <3>1. \A q \in Proc : ~WillArm(q)
      BY <2>2 DEF TypeOK
    <3>2. pc[p] = "start" /\ \A q \in Proc : q # p => pc'[q] = pc[q]
      BY <1>4 DEF StartTimer, Step, Finish, TypeOK
    <3>3. \A t \in Timer : Pending(t) => Pending(t)'
      BY <1>4, <2>2 DEF StartTimer, TypeOK
    <3>4. dbLocked' = dbLocked
      BY <1>4 DEF StartTimer
    <3> QED
      BY <3>1, <3>2, <3>3, <3>4
  <2> QED
    BY <2>1, <2>2
<1>5. CASE StartTwice(p)
  <2>1. pc[p] = "start" /\ \A q \in Proc : q # p => pc'[q] = pc[q]
    BY <1>5 DEF StartTwice, Finish, TypeOK
  <2>2. \A q \in Proc : ~WillArm(q)
    BY <1>5 DEF StartTwice
  <2> QED
    BY <1>5, <2>1, <2>2 DEF StartTwice, door
<1>6. CASE SaveLocked(p)
  BY <1>6 DEF SaveLocked
<1>7. CASE SaveUnlocked(p)
  <2>1. pc'[p] = "cancel"
    BY <1>7 DEF SaveUnlocked, Step, TypeOK
  <2> QED
    BY <2>1
\* All other steps leave the door, the timers and the other thread alone.
<1>8. CASE ServoLock(p)
  <2>1. pc'[p] = "saveLocked"
    BY <1>8 DEF ServoLock, Step, TypeOK
  <2> QED
    BY <2>1
<1>9. ASSUME pc[p] \notin {"cancel", "assign", "servoLock", "saveLocked", "cancelForLock", "start"},
             \A q \in Proc : q # p => pc'[q] = pc[q],
             UNCHANGED <<timer, relockTimer, dbLocked>>
      PROVE  RelockCovered'
  BY <1>9
<1>10. CASE \/ ServoUnlock(p) \/ LogManual(p) \/ Reply(p) \/ AcquireFaceLock(p)
            \/ ScanNoFace(p) \/ ScanFace(p) \/ ReleaseFaceLock(p)
            \/ LogAuthorized(p) \/ LogUnknown(p) \/ AutoLock(p)
  BY <1>10, <1>9 DEF ServoUnlock, LogManual, Reply, AcquireFaceLock, ScanNoFace, ScanFace,
     ReleaseFaceLock, LogAuthorized, LogUnknown, AutoLock, Step, Finish, TypeOK, door
<1> QED
  BY <1>1, <1>2, <1>3, <1>4, <1>5, <1>6, <1>7, <1>8, <1>10 DEF ThreadStep

LEMMA CoverTimer ==
  ASSUME TypeOK, RelockCovered, NEW t \in Timer, TimerStep(t)
  PROVE  RelockCovered'
<1> USE DEF RelockCovered, Covered, HasJob, InSchedule, ToLock, WillArm, Pending
<1>1. CASE RelockSave(t)
  BY <1>1 DEF RelockSave
<1>2. CASE Fire(t) \/ RelockServo(t)
  <2>1. timer'[t] \in {"fired", "saving"}
    BY <1>2 DEF Fire, RelockServo, TimerGoes, TypeOK
  <2> QED
    BY <2>1
\* A timer that has read "locked" drops out, but the door is locked then.
<1>3. CASE RelockCheck(t)
  <2>1. CASE dbLocked
    BY <1>3, <2>1 DEF RelockCheck, TypeOK
  <2>2. CASE ~dbLocked
    <3>1. timer'[t] = "locking"
      BY <1>3, <2>2 DEF RelockCheck, TimerGoes, TypeOK
    <3> QED
      BY <3>1
  <2> QED
    BY <2>1, <2>2
<1> QED
  BY <1>1, <1>2, <1>3 DEF TimerStep

\* Whatever the two threads do to the relock timer in whatever order, a door
\* recorded as unlocked has a timer, or a thread on its way, that relocks it.
THEOREM RelockCoveredAlways == Spec => []RelockCovered
<1>1. Init => RelockCovered
  BY DEF Init, RelockCovered
<1>2. TypeOK /\ RelockCovered /\ [Next]_vars => RelockCovered'
  <2>1. UNCHANGED vars /\ RelockCovered => RelockCovered'
    BY DEF vars, RelockCovered, Covered, HasJob, InSchedule, ToLock, WillArm, Pending
  <2> QED
    BY <2>1, CoverRequest, CoverThread, CoverTimer DEF Next
<1> QED
  BY <1>1, <1>2, SpecTypeCorrect, PTL DEF Spec

-----------------------------------------------------------------------------
(* _face_lock, and the audit row of a recognition, with every fault.        *)

\* The thread that is not stepping stays where it is.
LEMMA OthersStay ==
  ASSUME TypeOK, NEW p \in Proc, NEW q \in Proc, q # p, ThreadStep(p) \/ DbError(p)
  PROVE  pc'[q] = pc[q] /\ op'[q] = op[q] /\ rows'[q] = rows[q]
<1> USE DEF TypeOK, Step, Finish
<1>1. CASE CancelForLock(p) \/ ServoLock(p) \/ SaveLocked(p) \/ ServoUnlock(p)
  BY <1>1 DEF CancelForLock, ServoLock, SaveLocked, ServoUnlock
<1>2. CASE SaveUnlocked(p) \/ LogManual(p) \/ Reply(p) \/ CancelTimer(p)
  BY <1>2 DEF SaveUnlocked, LogManual, Reply, CancelTimer
<1>3. CASE AssignTimer(p) \/ StartTimer(p) \/ StartTwice(p) \/ AcquireFaceLock(p)
  BY <1>3 DEF AssignTimer, StartTimer, StartTwice, AcquireFaceLock
<1>4. CASE ScanNoFace(p) \/ ScanFace(p) \/ ReleaseFaceLock(p) \/ LogAuthorized(p)
  BY <1>4 DEF ScanNoFace, ScanFace, ReleaseFaceLock, LogAuthorized
<1>5. CASE LogUnknown(p) \/ AutoLock(p) \/ DbError(p)
  BY <1>5 DEF LogUnknown, AutoLock, DbError
<1> QED
  BY <1>1, <1>2, <1>3, <1>4, <1>5 DEF ThreadStep

\* A request starts in a thread that is idle, and not inside the locked code.
LEMMA RequestStarts ==
  ASSUME TypeOK, Request, NEW q \in Proc
  PROVE  /\ faceLock' = faceLock
         /\ \/ pc'[q] = pc[q] /\ op'[q] = op[q] /\ rows'[q] = rows[q]
            \/ /\ pc[q] = "idle" /\ pc'[q] \in {"cancelForLock", "servoUnlock", "face"}
               /\ op'[q] \in {"doorbell", "motion"} => pc'[q] = "face"
  BY DEF Request, DoorLockRequest, DoorUnlockRequest, Doorbell, EnrollmentCapture,
     MotionDetected, SetSetting, Begin, TypeOK, Proc, door

LEMMA FaceLockThread ==
  ASSUME TypeOK, FaceLockExclusion, NEW p \in Proc, ThreadStep(p) \/ DbError(p)
  PROVE  FaceLockExclusion'
<1> USE DEF FaceLockExclusion, InFaceCode
<1>1. ASSUME faceLock' = faceLock, pc'[p] \in {"scan", "noFace"} <=> pc[p] \in {"scan", "noFace"}
      PROVE  FaceLockExclusion'
  BY <1>1, OthersStay
<1>2. CASE AcquireFaceLock(p)
  BY <1>2, OthersStay, ConstAssumption DEF AcquireFaceLock, Step, TypeOK, Proc
<1>3. CASE ScanFace(p) \/ ReleaseFaceLock(p) \/ DbError(p)
  <2>1. pc'[p] \notin {"scan", "noFace"}
    BY <1>3 DEF ScanFace, ReleaseFaceLock, DbError, Step, Finish, TypeOK
  <2>2. faceLock' = IF faceLock = p THEN Nobody ELSE faceLock
    BY <1>3 DEF ScanFace, ReleaseFaceLock, DbError, Step
  <2> QED
    BY <2>1, <2>2, OthersStay, ConstAssumption DEF Proc
<1>4. CASE \/ CancelForLock(p) \/ ServoLock(p) \/ SaveLocked(p) \/ ServoUnlock(p)
           \/ SaveUnlocked(p) \/ LogManual(p) \/ Reply(p) \/ CancelTimer(p)
  BY <1>4, <1>1 DEF CancelForLock, ServoLock, SaveLocked, ServoUnlock, SaveUnlocked, LogManual,
     Reply, CancelTimer, Step, Finish, TypeOK, door
<1>5. CASE \/ AssignTimer(p) \/ StartTimer(p) \/ StartTwice(p) \/ ScanNoFace(p)
           \/ LogAuthorized(p) \/ LogUnknown(p) \/ AutoLock(p)
  BY <1>5, <1>1 DEF AssignTimer, StartTimer, StartTwice, ScanNoFace, LogAuthorized, LogUnknown,
     AutoLock, Step, Finish, TypeOK, door
<1> QED
  BY <1>2, <1>3, <1>4, <1>5 DEF ThreadStep

\* Steps that concern no thread of Proc, and the restart.
LEMMA FaceLockRest ==
  ASSUME TypeOK, FaceLockExclusion,
         \/ Request \/ Shutdown \/ Restart \/ UNCHANGED vars
         \/ \E t \in Timer : TimerStep(t) \/ TimerDbError(t)
  PROVE  FaceLockExclusion'
<1> USE DEF FaceLockExclusion, InFaceCode
<1>1. CASE Request
  BY <1>1, RequestStarts
<1>2. CASE Shutdown
  BY <1>2 DEF Shutdown, TypeOK
<1>3. CASE Restart
  BY <1>3, ConstAssumption DEF Restart, Proc
<1>4. CASE UNCHANGED vars
  BY <1>4 DEF vars
<1>5. CASE \E t \in Timer : TimerStep(t) \/ TimerDbError(t)
  BY <1>5 DEF TimerStep, TimerDbError, Fire, RelockCheck, RelockServo, RelockSave, TimerGoes
<1> QED
  BY <1>1, <1>2, <1>3, <1>4, <1>5

\* main.py: "_face_lock ... Prevents concurrent dlib/face_recognition calls",
\* whatever the recognition finds, raises, or is interrupted by.
THEOREM FaceLockAlways == FaultSpec => []FaceLockExclusion
<1>1. Init => FaceLockExclusion
  BY ConstAssumption DEF Init, FaceLockExclusion, InFaceCode, Proc
<1>2. TypeOK /\ FaceLockExclusion /\ [FaultNext]_vars => FaceLockExclusion'
  BY FaceLockThread, FaceLockRest DEF FaultNext, Next
<1> QED
  BY <1>1, <1>2, TypeCorrect, PTL DEF FaultSpec

\* A recognition that opens the door has written its "authorized" row.
THEOREM AuditedAlways == FaultSpec => []RecognisedUnlockAudited
<1> DEFINE Opening == {"servoUnlock", "saveUnlocked", "cancel", "assign", "start"}
<1>1. Init => RecognisedUnlockAudited
  BY DEF Init, RecognisedUnlockAudited
<1>2. ASSUME TypeOK, RecognisedUnlockAudited, NEW p \in Proc, ThreadStep(p) \/ DbError(p)
      PROVE  RecognisedUnlockAudited'
  \* p comes to the opening steps from inside them, or through LogAuthorized.
  <2>1. \/ pc'[p] \notin Opening
        \/ pc[p] \in Opening /\ op'[p] = op[p] /\ rows[p] \subseteq rows'[p]
        \/ "authorized" \in rows'[p]
    <3> USE DEF TypeOK, Step, Finish, Opening
    <3>1. CASE CancelForLock(p) \/ ServoLock(p) \/ SaveLocked(p) \/ ServoUnlock(p)
      BY <1>2, <3>1 DEF CancelForLock, ServoLock, SaveLocked, ServoUnlock
    <3>2. CASE SaveUnlocked(p) \/ LogManual(p) \/ Reply(p) \/ CancelTimer(p)
      BY <1>2, <3>2 DEF SaveUnlocked, LogManual, Reply, CancelTimer
    <3>3. CASE AssignTimer(p) \/ StartTimer(p) \/ StartTwice(p) \/ AcquireFaceLock(p)
      BY <1>2, <3>3 DEF AssignTimer, StartTimer, StartTwice, AcquireFaceLock
    <3>4. CASE ScanNoFace(p) \/ ScanFace(p) \/ ReleaseFaceLock(p) \/ LogAuthorized(p)
      BY <1>2, <3>4 DEF ScanNoFace, ScanFace, ReleaseFaceLock, LogAuthorized
    <3>5. CASE LogUnknown(p) \/ AutoLock(p) \/ DbError(p)
      BY <1>2, <3>5 DEF LogUnknown, AutoLock, DbError
    <3> QED
      BY <1>2, <3>1, <3>2, <3>3, <3>4, <3>5 DEF ThreadStep
  <2> QED
    BY <1>2, <2>1, OthersStay DEF RecognisedUnlockAudited, Opening
<1>3. ASSUME TypeOK, RecognisedUnlockAudited,
             \/ Request \/ Shutdown \/ Restart \/ UNCHANGED vars
             \/ \E t \in Timer : TimerStep(t) \/ TimerDbError(t)
      PROVE  RecognisedUnlockAudited'
  <2> USE <1>3 DEF RecognisedUnlockAudited
  <2>1. CASE Request
    BY <2>1, RequestStarts
  <2>2. CASE Shutdown
    BY <2>2 DEF Shutdown, TypeOK
  <2>3. CASE Restart
    BY <2>3 DEF Restart
  <2>4. CASE UNCHANGED vars
    BY <2>4 DEF vars
  <2>5. CASE \E t \in Timer : TimerStep(t) \/ TimerDbError(t)
    BY <2>5 DEF TimerStep, TimerDbError, Fire, RelockCheck, RelockServo, RelockSave, TimerGoes
  <2> QED
    BY <2>1, <2>2, <2>3, <2>4, <2>5
<1>4. TypeOK /\ RecognisedUnlockAudited /\ [FaultNext]_vars => RecognisedUnlockAudited'
  BY <1>2, <1>3 DEF FaultNext, Next
<1> QED
  BY <1>1, <1>4, TypeCorrect, PTL DEF FaultSpec

-----------------------------------------------------------------------------
(* The bolt and door_state come apart only through overlapping changes.     *)

\* What a thread between the two has done to the bolt.
SerialInv ==
  /\ Agreement
  /\ \A p \in Proc : /\ pc[p] = "saveLocked" => bolt
                     /\ pc[p] = "saveUnlocked" => ~bolt
  /\ \A t \in Timer : timer[t] = "saving" => bolt

LEMMA SerialStep ==
  TypeOK /\ SerialInv /\ NoOverlap /\ NoOverlap' /\ [Next]_vars => SerialInv'
<1> SUFFICES ASSUME TypeOK, SerialInv, NoOverlap, NoOverlap', [Next]_vars PROVE SerialInv'
  OBVIOUS
<1> USE DEF SerialInv, Agreement, Changers, Changing
\* A step that moves neither bolt nor door_state, and no thread into or out of
\* the window between the two.
<1>1. ASSUME bolt' = bolt, dbLocked' = dbLocked,
             \A p \in Proc : pc'[p] = "saveLocked" <=> pc[p] = "saveLocked",
             \A p \in Proc : pc'[p] = "saveUnlocked" <=> pc[p] = "saveUnlocked",
             \A t \in Timer : timer'[t] = "saving" <=> timer[t] = "saving"
      PROVE  SerialInv'
  <2>1. \A p \in Proc : Changing(p)' <=> Changing(p)
    BY <1>1
  <2>2. Changers' = {} => Changers = {}
    BY <1>1, <2>1
  <2> QED
    BY <1>1, <2>2
<1>2. ASSUME NEW p \in Proc, ServoLock(p) \/ ServoUnlock(p)
      PROVE  SerialInv'
  <2>1. p \in Changers'
    BY <1>2 DEF ServoLock, ServoUnlock, Step, TypeOK
  <2>2. \A x \in Changers' : x = p
    BY <2>1 DEF NoOverlap
  <2>3. bolt' = (pc'[p] = "saveLocked") /\ pc'[p] \in {"saveLocked", "saveUnlocked"}
    BY <1>2 DEF ServoLock, ServoUnlock, Step, TypeOK
  <2>4. \A t \in Timer : t # p
    BY ConstAssumption DEF Proc
  <2> QED
    BY <2>1, <2>2, <2>3, <2>4
<1>3. ASSUME NEW p \in Proc, SaveLocked(p) \/ SaveUnlocked(p)
      PROVE  SerialInv'
  <2>1. p \in Changers /\ \A x \in Changers : x = p
    BY <1>3 DEF SaveLocked, SaveUnlocked, Step, NoOverlap
  <2>2. dbLocked' = bolt /\ bolt' = bolt
    BY <1>3 DEF SaveLocked, SaveUnlocked, Step, TypeOK
  <2>3. \A q \in Proc : ~Changing(q)'
    BY <1>3, <2>1 DEF SaveLocked, SaveUnlocked, Step, Finish, TypeOK
  <2>4. \A t \in Timer : timer'[t] # "saving"
    BY <1>3, <2>1, ConstAssumption DEF SaveLocked, SaveUnlocked, Proc
  <2> QED
    BY <2>2, <2>3, <2>4
<1>4. ASSUME NEW t \in Timer, RelockServo(t)
      PROVE  SerialInv'
  <2>1. t \in Changers'
    BY <1>4 DEF RelockServo, TimerGoes, TypeOK
  <2>2. \A x \in Changers' : x = t
    BY <2>1 DEF NoOverlap
  <2>3. bolt' = TRUE
    BY <1>4 DEF RelockServo
  <2>4. \A p \in Proc : ~Changing(p)'
    BY <2>2, ConstAssumption DEF Proc
  <2> QED
    BY <2>1, <2>3, <2>4
<1>5. ASSUME NEW t \in Timer, RelockSave(t)
      PROVE  SerialInv'
  <2>1. t \in Changers /\ \A x \in Changers : x = t
    BY <1>5 DEF RelockSave, TimerGoes, NoOverlap
  <2>2. bolt' = dbLocked'
    BY <1>5 DEF RelockSave, TimerGoes, TypeOK
  <2>3. \A p \in Proc : ~Changing(p)'
    BY <1>5, <2>1, ConstAssumption DEF RelockSave, TimerGoes, Proc
  <2>4. \A u \in Timer : timer'[u] # "saving"
    BY <1>5, <2>1 DEF RelockSave, TimerGoes, TypeOK
  <2> QED
    BY <2>2, <2>3, <2>4
<1>6. ASSUME NEW t \in Timer, Fire(t) \/ RelockCheck(t)
      PROVE  SerialInv'
  BY <1>6, <1>1 DEF Fire, RelockCheck, TimerGoes, TypeOK
<1>7. ASSUME NEW p \in Proc,
             \/ CancelForLock(p) \/ LogManual(p) \/ Reply(p) \/ CancelTimer(p)
             \/ AssignTimer(p) \/ StartTimer(p) \/ StartTwice(p)
      PROVE  SerialInv'
  <2>1. UNCHANGED <<bolt, dbLocked>>
    BY <1>7 DEF CancelForLock, LogManual, Reply, CancelTimer, AssignTimer, StartTimer, StartTwice, door
  <2>2. /\ \A q \in Proc : pc'[q] = "saveLocked" <=> pc[q] = "saveLocked"
        /\ \A q \in Proc : pc'[q] = "saveUnlocked" <=> pc[q] = "saveUnlocked"
    BY <1>7 DEF CancelForLock, LogManual, Reply, CancelTimer, AssignTimer, StartTimer, StartTwice,
       Step, Finish, TypeOK
  <2>3. \A t \in Timer : timer'[t] = "saving" <=> timer[t] = "saving"
    BY <1>7 DEF CancelForLock, LogManual, Reply, CancelTimer, AssignTimer, StartTimer, StartTwice,
       CancelRelock, Unreachable, TypeOK, door
  <2> QED
    BY <1>1, <2>1, <2>2, <2>3
<1>8. ASSUME NEW p \in Proc,
             \/ AcquireFaceLock(p) \/ ScanNoFace(p) \/ ScanFace(p) \/ ReleaseFaceLock(p)
             \/ LogAuthorized(p) \/ LogUnknown(p) \/ AutoLock(p)
      PROVE  SerialInv'
  BY <1>8, <1>1 DEF AcquireFaceLock, ScanNoFace, ScanFace, ReleaseFaceLock, LogAuthorized,
     LogUnknown, AutoLock, Step, Finish, TypeOK, door
<1>9. CASE Request
  <2>1. UNCHANGED door
    BY <1>9 DEF Request, DoorLockRequest, DoorUnlockRequest, Doorbell, EnrollmentCapture,
       MotionDetected, SetSetting, Begin
  <2>2. /\ \A q \in Proc : pc'[q] = "saveLocked" <=> pc[q] = "saveLocked"
        /\ \A q \in Proc : pc'[q] = "saveUnlocked" <=> pc[q] = "saveUnlocked"
    BY <1>9, RequestStarts
  <2> QED
    BY <1>1, <2>1, <2>2 DEF door
<1>10. CASE UNCHANGED vars
  BY <1>10, <1>1 DEF vars
<1> QED
  BY <1>2, <1>3, <1>4, <1>5, <1>6, <1>7, <1>8, <1>9, <1>10 DEF Next, ThreadStep, TimerStep

\* As long as no two threads are between a servo command and its write at the
\* same time, the bolt is where door_state says it is.
THEOREM SerialAgreementAlways == Spec => SerialAgreement
<1>1. Init => SerialInv
  BY DEF Init, SerialInv, Agreement
<1>2. SerialInv => Agreement
  BY DEF SerialInv
<1> QED
  BY <1>1, <1>2, SerialStep, SpecTypeCorrect, PTL DEF Spec, SerialAgreement

-----------------------------------------------------------------------------
(* No job of relocking gets lost: the door implements AutoRelock.           *)

\* What a step that changes nobody's job looks like to AutoRelock.
LEMMA JobsSame ==
  ASSUME \A q \in Proc : HasJob(q)' <=> HasJob(q), \A t \in Timer : Pending(t)' <=> Pending(t)
  PROVE  Jobs' = Jobs
  BY DEF Jobs

\* A step of p that leaves the timers alone changes no other thread's job.
LEMMA OthersJobs ==
  ASSUME TypeOK, NEW p \in Proc, ThreadStep(p), UNCHANGED <<timer, relockTimer>>
  PROVE  /\ \A q \in Proc : q # p => (HasJob(q)' <=> HasJob(q))
         /\ \A t \in Timer : Pending(t)' <=> Pending(t)
         /\ (HasJob(p)' <=> HasJob(p)) => Jobs' = Jobs
         /\ HasJob(p)' => Jobs' = Jobs \union {p}
<1>1. \A q \in Proc : q # p => (HasJob(q)' <=> HasJob(q))
  BY OthersStay DEF HasJob, InSchedule, ToLock, WillArm
<1>2. \A t \in Timer : Pending(t)' <=> Pending(t)
  BY DEF Pending
<1> QED
  BY <1>1, <1>2 DEF Jobs

LEMMA RequestJobs ==
  ASSUME TypeOK, Request
  PROVE  [Promise!Next]_(Promise!vars)
<1>1. UNCHANGED <<timer, relockTimer, dbLocked>>
  BY DEF Request, DoorLockRequest, DoorUnlockRequest, Doorbell, EnrollmentCapture,
     MotionDetected, SetSetting, Begin, door
<1>2. CASE SetSetting
  <2>1. Jobs' = Jobs
    BY <1>1, <1>2 DEF SetSetting, Jobs, HasJob, InSchedule, ToLock, WillArm, Pending
  <2> QED
    BY <1>1, <2>1 DEF Promise!vars
<1>3. ASSUME NEW p \in Proc, NEW o, NEW to, NEW R, Begin(p, o, to, R)
      PROVE  [Promise!Next]_(Promise!vars)
  <2>1. pc[p] = "idle" /\ \A q \in Proc : q # p => pc'[q] = pc[q]
    BY <1>3 DEF Begin, TypeOK
  <2>2. \A q \in Proc : q # p => (HasJob(q)' <=> HasJob(q))
    BY <1>1, <2>1 DEF HasJob, InSchedule, ToLock, WillArm
  <2>3. ~HasJob(p) /\ \A t \in Timer : Pending(t)' <=> Pending(t)
    BY <1>1, <2>1 DEF HasJob, InSchedule, ToLock, WillArm, Pending
  <2>4. Jobs' = Jobs \/ Jobs' = Jobs \union {p}
    BY <2>2, <2>3 DEF Jobs
  <2> QED
    BY <1>1, <2>4 DEF Promise!Next, Promise!Take, Promise!vars
<1> QED
  BY <1>2, <1>3 DEF Request, DoorLockRequest, DoorUnlockRequest, Doorbell,
     EnrollmentCapture, MotionDetected, Proc

\* A thread that cancels the timer has a job itself, and keeps it.  It ends the
\* timer's, or that of the thread that has created the timer and not started it.
LEMMA CancelJobs ==
  ASSUME TypeOK, NEW p \in Proc, CancelForLock(p) \/ CancelTimer(p)
  PROVE  [Promise!Next]_(Promise!vars)
<1>1. HasJob(p) /\ HasJob(p)' /\ pc[p] # "start" /\ pc'[p] # "start"
  BY DEF CancelForLock, CancelTimer, Step, TypeOK, HasJob, InSchedule, ToLock
<1>2. \A q \in Proc : q # p => pc'[q] = pc[q]
  BY OthersStay DEF ThreadStep
<1>3. relockTimer' = relockTimer /\ dbLocked' = dbLocked /\ CancelRelock
  BY DEF CancelForLock, CancelTimer
<1> USE DEF TypeOK, HasJob, InSchedule, ToLock, WillArm, Pending
<1>4. CASE relockTimer \in Timer /\ timer[relockTimer] = "armed"
  <2>1. timer' = [timer EXCEPT ![relockTimer] = "dead"]
    BY <1>3, <1>4 DEF CancelRelock
  <2>2. \A q \in Proc : HasJob(q)' <=> HasJob(q)
    BY <1>1, <1>2, <1>3, <1>4, <2>1
  <2>3. \A t \in Timer : Pending(t)' <=> Pending(t) /\ t # relockTimer
    BY <2>1
  <2>4. Jobs' = Jobs \ {relockTimer} /\ relockTimer \in Jobs \ {p} /\ p \in Jobs
    BY <1>1, <1>4, <2>2, <2>3, ConstAssumption DEF Jobs, Proc
  <2> QED
    BY <1>3, <2>4 DEF Promise!Next, Promise!Cancel
<1>5. CASE relockTimer \in Timer /\ timer[relockTimer] = "created"
  <2>1. timer' = [timer EXCEPT ![relockTimer] = "disarmed"]
    BY <1>3, <1>5 DEF CancelRelock
  <2>2. \A q \in Proc : HasJob(q)' <=> HasJob(q) /\ pc[q] # "start"
    BY <1>1, <1>2, <1>3, <1>5, <2>1
  <2>3. \A t \in Timer : Pending(t)' <=> Pending(t)
    BY <1>5, <2>1
  <2>4. CASE \E q \in Proc : pc[q] = "start"
    <3>1. PICK q \in Proc : pc[q] = "start"
      BY <2>4
    <3>2. q # p /\ \A r \in Proc : r = p \/ r = q
      BY <1>1, <3>1 DEF Proc
    <3>3. HasJob(q)
      BY <1>5, <3>1, ConstAssumption
    <3>4. Jobs' = Jobs \ {q} /\ q \in Jobs \ {p} /\ p \in Jobs
      BY <1>1, <2>2, <2>3, <3>1, <3>2, <3>3, ConstAssumption DEF Jobs, Proc
    <3> QED
      BY <1>3, <3>4 DEF Promise!Next, Promise!Cancel
  <2>5. CASE \A q \in Proc : pc[q] # "start"
    <3>1. Jobs' = Jobs
      BY <2>2, <2>3, <2>5, JobsSame
    <3> QED
      BY <1>3, <3>1 DEF Promise!vars
  <2> QED
    BY <2>4, <2>5
<1>6. CASE ~(relockTimer \in Timer /\ timer[relockTimer] \in {"created", "armed"})
  <2>1. timer' = timer
    BY <1>3, <1>6 DEF CancelRelock
  <2>2. \A q \in Proc : HasJob(q)' <=> HasJob(q)
    BY <1>1, <1>2, <1>3, <2>1
  <2>3. Jobs' = Jobs
    BY <2>1, <2>2, JobsSame
  <2> QED
    BY <1>3, <2>3 DEF Promise!vars
<1> QED
  BY <1>4, <1>5, <1>6

\* The new timer is p's, and that of a thread that had been about to start an
\* older one.
LEMMA AssignJobs ==
  ASSUME TypeOK, NEW p \in Proc, AssignTimer(p)
  PROVE  [Promise!Next]_(Promise!vars)
<1>1. PICK t \in Timer : Unreachable(t) /\ relockTimer' = t /\ timer' = [timer EXCEPT ![t] = "created"]
  BY DEF AssignTimer
<1>2. pc[p] = "assign" /\ pc'[p] = "start" /\ dbLocked' = dbLocked
  BY DEF AssignTimer, Step, TypeOK
<1>3. \A q \in Proc : q # p => pc'[q] = pc[q]
  BY OthersStay DEF ThreadStep
<1> USE DEF TypeOK, HasJob, InSchedule, ToLock, WillArm, Pending
<1>4. \A u \in Timer : Pending(u)' <=> Pending(u)
  BY <1>1 DEF Unreachable
<1>5. timer'[relockTimer'] = "created" /\ relockTimer' # NoTimer
  BY <1>1, ConstAssumption
<1>6. HasJob(p) /\ HasJob(p)'
  BY <1>2, <1>5
<1>7. \A q \in Proc : q # p => (HasJob(q)' <=> HasJob(q) \/ pc[q] = "start")
  BY <1>3, <1>5
<1>8. CASE \E q \in Proc : pc[q] = "start"
  <2>1. PICK q \in Proc : pc[q] = "start"
    BY <1>8
  <2>2. q # p /\ \A r \in Proc : r = p \/ r = q
    BY <1>2, <2>1 DEF Proc
  <2>3. Jobs' = Jobs \union {q}
    BY <1>4, <1>6, <1>7, <2>1, <2>2 DEF Jobs
  <2> QED
    BY <1>2, <2>3 DEF Promise!Next, Promise!Take
<1>9. CASE \A q \in Proc : pc[q] # "start"
  <2>1. Jobs' = Jobs
    BY <1>4, <1>6, <1>7, <1>9, JobsSame
  <2> QED
    BY <1>2, <2>1 DEF Promise!vars
<1> QED
  BY <1>8, <1>9

\* p hands over to the timer it starts, also for the other thread that is about
\* to start it; a timer that was cancelled or started already is no job of p's.
LEMMA StartJobs ==
  ASSUME TypeOK, NEW p \in Proc, StartTimer(p)
  PROVE  [Promise!Next]_(Promise!vars)
<1>1. /\ pc[p] = "start" /\ pc'[p] \in {"idle", "logUnlocked"}
      /\ UNCHANGED <<relockTimer, dbLocked>>
      /\ timer' = [timer EXCEPT ![relockTimer] = IF timer[relockTimer] = "created" THEN "armed" ELSE "dead"]
  BY DEF StartTimer, Step, Finish, TypeOK
<1>2. \A q \in Proc : q # p => pc'[q] = pc[q]
  BY OthersStay DEF ThreadStep
<1> USE DEF TypeOK, HasJob, InSchedule, ToLock, WillArm, Pending
<1>3. CASE relockTimer \in Timer /\ timer[relockTimer] = "created"
  <2>1. \A q \in Proc : HasJob(q)' <=> HasJob(q) /\ pc[q] # "start"
    BY <1>1, <1>2, <1>3
  <2>2. \A t \in Timer : Pending(t)' <=> Pending(t) \/ t = relockTimer
    BY <1>1, <1>3
  <2> DEFINE others == {q \in Proc : pc[q] = "start"}
  <2>3. Jobs' = (Jobs \ ({p} \union others)) \union {relockTimer}
    BY <1>1, <1>3, <2>1, <2>2, ConstAssumption DEF Jobs, Proc
  <2>4. p \in Jobs /\ relockTimer \notin Jobs
    BY <1>1, <1>3, ConstAssumption DEF Jobs, Proc
  <2>5. Promise!Arm(p, relockTimer)
    BY <1>1, <2>3, <2>4 DEF Promise!Arm
  <2> QED
    BY <1>3, <2>5 DEF Promise!Next
<1>4. CASE relockTimer \in Timer /\ timer[relockTimer] = "disarmed"
  <2>1. timer' = [timer EXCEPT ![relockTimer] = "dead"]
    BY <1>1, <1>4
  <2>2. \A q \in Proc : HasJob(q)' <=> HasJob(q)
    BY <1>1, <1>2, <1>4, <2>1
  <2>3. \A t \in Timer : Pending(t)' <=> Pending(t)
    BY <1>4, <2>1
  <2>4. Jobs' = Jobs
    BY <2>2, <2>3, JobsSame
  <2> QED
    BY <1>1, <2>4 DEF Promise!vars
<1>5. CASE relockTimer \notin Timer
  <2>1. relockTimer = NoTimer /\ timer' = timer
    BY <1>1, <1>5
  <2>2. \A q \in Proc : HasJob(q)' <=> HasJob(q)
    BY <1>1, <1>2, <2>1
  <2>3. Jobs' = Jobs
    BY <2>1, <2>2, JobsSame
  <2> QED
    BY <1>1, <2>3 DEF Promise!vars
<1> QED
  BY <1>3, <1>4, <1>5 DEF StartTimer

LEMMA ThreadJobs ==
  ASSUME TypeOK, NEW p \in Proc, ThreadStep(p)
  PROVE  [Promise!Next]_(Promise!vars)
<1> USE DEF HasJob, InSchedule, ToLock, WillArm
\* The door is locked by a thread on its way, whose job that was.
<1>1. CASE SaveLocked(p)
  <2>1. /\ pc[p] = "saveLocked" /\ pc'[p] \in {"logLocked", "idle"}
        /\ UNCHANGED <<timer, relockTimer>> /\ dbLocked' = TRUE
    BY <1>1 DEF SaveLocked, Step, Finish, TypeOK
  <2>2. Jobs' = Jobs \ {p} /\ p \in Jobs
    BY <2>1, OthersJobs, ConstAssumption DEF Jobs, Proc
  <2> QED
    BY <2>1, <2>2 DEF Promise!Next, Promise!Lock
<1>2. CASE SaveUnlocked(p)
  <2>1. pc'[p] = "cancel" /\ UNCHANGED <<timer, relockTimer>> /\ dbLocked' = FALSE
    BY <1>2 DEF SaveUnlocked, Step, TypeOK
  <2>2. Jobs' = Jobs \union {p}
    BY <2>1, OthersJobs
  <2> QED
    BY <2>1, <2>2 DEF Promise!Next, Promise!Unlock
<1>3. CASE AutoLock(p)
  <2>1. pc[p] = "autoLock" /\ pc'[p] \in {"servoLock", "idle"} /\ UNCHANGED <<timer, relockTimer, dbLocked>>
    BY <1>3 DEF AutoLock, Step, Finish, TypeOK, door
  <2>2. Jobs' = Jobs \/ Jobs' = Jobs \union {p}
    BY <2>1, OthersJobs
  <2> QED
    BY <2>1, <2>2 DEF Promise!Next, Promise!Take, Promise!vars
\* A timer that somebody else has started is not p's job.
<1>4. CASE StartTwice(p)
  <2>1. /\ pc[p] = "start" /\ pc'[p] = "idle" /\ timer[relockTimer] # "created"
        /\ UNCHANGED <<timer, relockTimer, dbLocked>>
    BY <1>4 DEF StartTwice, Finish, TypeOK, door
  <2>2. Jobs' = Jobs
    BY <2>1, OthersJobs
  <2> QED
    BY <2>1, <2>2 DEF Promise!vars
<1>5. CASE \/ ServoLock(p) \/ ServoUnlock(p) \/ LogManual(p) \/ Reply(p) \/ AcquireFaceLock(p)
           \/ ScanNoFace(p) \/ ScanFace(p) \/ ReleaseFaceLock(p)
           \/ LogAuthorized(p) \/ LogUnknown(p)
  <2>1. UNCHANGED <<timer, relockTimer, dbLocked>>
    BY <1>5 DEF ServoLock, ServoUnlock, LogManual, Reply, AcquireFaceLock, ScanNoFace, ScanFace,
       ReleaseFaceLock, LogAuthorized, LogUnknown, door
  <2>2. \/ pc[p] = "servoLock" /\ pc'[p] = "saveLocked"
        \/ /\ pc[p] \notin {"cancel", "assign", "start", "servoLock", "saveLocked", "cancelForLock"}
           /\ pc'[p] \notin {"cancel", "assign", "start", "servoLock", "saveLocked", "cancelForLock"}
    BY <1>5 DEF ServoLock, ServoUnlock, LogManual, Reply, AcquireFaceLock, ScanNoFace, ScanFace,
       ReleaseFaceLock, LogAuthorized, LogUnknown, Step, Finish, TypeOK
  <2>3. Jobs' = Jobs
    BY <2>1, <2>2, OthersJobs
  <2> QED
    BY <2>1, <2>3 DEF Promise!vars
<1> QED
  BY <1>1, <1>2, <1>3, <1>4, <1>5, CancelJobs, AssignJobs, StartJobs DEF ThreadStep

LEMMA TimerJobs ==
  ASSUME TypeOK, NEW t \in Timer, TimerStep(t)
  PROVE  [Promise!Next]_(Promise!vars)
<1>1. UNCHANGED <<pc, relockTimer>> /\ \A u \in Timer : u # t => timer'[u] = timer[u]
  BY DEF TimerStep, Fire, RelockCheck, RelockServo, RelockSave, TimerGoes, TypeOK
<1>2. timer[t] \in {"armed", "fired", "locking", "saving"} /\ timer'[t] # "created"
  BY DEF TimerStep, Fire, RelockCheck, RelockServo, RelockSave, TimerGoes, TypeOK
<1> USE DEF HasJob, InSchedule, ToLock, WillArm, Pending
<1>3. \A q \in Proc : HasJob(q)' <=> HasJob(q)
  BY <1>1, <1>2, ConstAssumption DEF TypeOK
<1>4. t \in Jobs /\ (Pending(t)' => Jobs' = Jobs) /\ (~Pending(t)' => Jobs' = Jobs \ {t})
  BY <1>1, <1>2, <1>3, ConstAssumption DEF Jobs, Proc
<1>5. CASE Fire(t) \/ RelockServo(t)
  <2>1. Pending(t)' /\ dbLocked' = dbLocked
    BY <1>5 DEF Fire, RelockServo, TimerGoes, TypeOK
  <2> QED
    BY <1>4, <2>1 DEF Promise!vars
<1>6. CASE RelockCheck(t)
  <2>1. dbLocked' = dbLocked /\ (~dbLocked => Pending(t)') /\ (dbLocked => ~Pending(t)')
    BY <1>6 DEF RelockCheck, TimerGoes, TypeOK
  <2> QED
    BY <1>4, <2>1 DEF TypeOK, Promise!Next, Promise!Drop, Promise!vars
<1>7. CASE RelockSave(t)
  <2>1. dbLocked' = TRUE /\ ~Pending(t)'
    BY <1>7 DEF RelockSave, TimerGoes, TypeOK
  <2> QED
    BY <1>4, <2>1 DEF Promise!Next, Promise!Lock
<1> QED
  BY <1>5, <1>6, <1>7 DEF TimerStep

\* The door implements AutoRelock: every single job of relocking ends by
\* locking, by being handed over or cancelled by a thread that has one itself,
\* or because a timer finds the door locked.
THEOREM Refinement == Spec => KeepsPromise
<1>1. Init => Promise!Init
  BY DEF Init, Jobs, HasJob, InSchedule, ToLock, WillArm, Pending, Promise!Init
<1>2. TypeOK /\ [Next]_vars => [Promise!Next]_(Promise!vars)
  <2>1. UNCHANGED vars => UNCHANGED Promise!vars
    BY DEF vars, Promise!vars, Jobs, HasJob, InSchedule, ToLock, WillArm, Pending
  <2> QED
    BY <2>1, RequestJobs, ThreadJobs, TimerJobs DEF Next
<1> QED
  BY <1>1, <1>2, SpecTypeCorrect, PTL DEF Spec, KeepsPromise, Promise!Spec

\* The discipline is enough: whatever keeps it never leaves an unlocked door
\* without a job.
THEOREM DisciplineKeeps == KeepsPromise => []Promise!Kept
<1>1. Promise!Init => Promise!Kept
  BY DEF Promise!Init, Promise!Kept
<1>2. Promise!Kept /\ [Promise!Next]_(Promise!vars) => Promise!Kept'
  BY DEF Promise!Kept, Promise!Next, Promise!vars, Promise!Take, Promise!Unlock, Promise!Lock,
     Promise!Arm, Promise!Cancel, Promise!Drop
<1> QED
  BY <1>1, <1>2, PTL DEF KeepsPromise, Promise!Spec

-----------------------------------------------------------------------------
(* No timer of an earlier unlocking is left counting down.                  *)

\* What a step that neither arms a timer nor moves _relock_timer must leave.
LEMMA CountdownKept ==
  ASSUME SoleCountdown,
         \A t \in Timer : timer'[t] = "armed" => timer[t] = "armed" /\ relockTimer' = relockTimer,
         \A p \in Proc : Rescheduling(p)' => Rescheduling(p)
  PROVE  SoleCountdown'
  BY DEF SoleCountdown

LEMMA CountdownThread ==
  ASSUME TypeOK, SoleCountdown, NoDoubleSchedule, NEW p \in Proc, ThreadStep(p) \/ DbError(p)
  PROVE  SoleCountdown'
<1>1. \A q \in Proc : q # p => (Rescheduling(q)' <=> Rescheduling(q))
  BY OthersStay DEF Rescheduling
\* The cancel reaches the only timer that counts down.
<1>2. CASE CancelTimer(p) \/ CancelForLock(p)
  <2>1. \A t \in Timer : timer'[t] # "armed"
    BY <1>2 DEF CancelTimer, CancelForLock, CancelRelock, SoleCountdown, TypeOK
  <2> QED
    BY <2>1 DEF SoleCountdown
\* None has been counting down since p's cancel, and nobody else starts one.
<1>3. CASE AssignTimer(p)
  <2>1. \A t \in Timer : timer[t] # "armed"
    BY <1>3 DEF AssignTimer, Step, Rescheduling, SoleCountdown
  <2>2. \A t \in Timer : timer'[t] # "armed"
    BY <1>3, <2>1 DEF AssignTimer, TypeOK
  <2> QED
    BY <2>2 DEF SoleCountdown
<1>4. CASE StartTimer(p)
  <2>1. Rescheduling(p) /\ ~Rescheduling(p)'
    BY <1>4 DEF StartTimer, Step, Finish, Rescheduling, TypeOK
  <2>2. \A q \in Proc : ~Rescheduling(q)'
    BY <1>1, <2>1 DEF NoDoubleSchedule
  <2>3. \A t \in Timer : timer'[t] = "armed" => t = relockTimer'
    BY <1>4, <2>1 DEF StartTimer, SoleCountdown, TypeOK
  <2> QED
    BY <2>2, <2>3 DEF SoleCountdown
<1>5. CASE \/ ServoLock(p) \/ SaveLocked(p) \/ ServoUnlock(p) \/ SaveUnlocked(p) \/ LogManual(p)
           \/ Reply(p) \/ StartTwice(p) \/ AcquireFaceLock(p) \/ ScanNoFace(p) \/ ScanFace(p)
           \/ ReleaseFaceLock(p) \/ LogAuthorized(p) \/ LogUnknown(p) \/ AutoLock(p) \/ DbError(p)
  <2>1. UNCHANGED <<timer, relockTimer>>
    BY <1>5 DEF ServoLock, SaveLocked, ServoUnlock, SaveUnlocked, LogManual, Reply, StartTwice,
       AcquireFaceLock, ScanNoFace, ScanFace, ReleaseFaceLock, LogAuthorized, LogUnknown, AutoLock,
       DbError, door
  <2>2. Rescheduling(p)' => Rescheduling(p)
    BY <1>5 DEF ServoLock, SaveLocked, ServoUnlock, SaveUnlocked, LogManual, Reply, StartTwice,
       AcquireFaceLock, ScanNoFace, ScanFace, ReleaseFaceLock, LogAuthorized, LogUnknown, AutoLock,
       DbError, Step, Finish, Rescheduling, TypeOK
  <2> QED
    BY <1>1, <2>1, <2>2, CountdownKept
<1> QED
  BY <1>2, <1>3, <1>4, <1>5 DEF ThreadStep

LEMMA CountdownOther ==
  ASSUME TypeOK, SoleCountdown,
         \/ Request \/ Shutdown \/ Restart
         \/ \E t \in Timer : TimerStep(t) \/ TimerDbError(t)
  PROVE  SoleCountdown'
<1>1. CASE Request
  <2>1. UNCHANGED <<timer, relockTimer>>
    BY <1>1 DEF Request, DoorLockRequest, DoorUnlockRequest, Doorbell, EnrollmentCapture,
       MotionDetected, SetSetting, Begin, door
  <2>2. \A q \in Proc : Rescheduling(q)' => Rescheduling(q)
    BY <1>1, RequestStarts DEF Rescheduling
  <2> QED
    BY <2>1, <2>2, CountdownKept
<1>2. CASE Shutdown
  <2>1. \A t \in Timer : timer'[t] # "armed"
    BY <1>2 DEF Shutdown, CancelRelock, SoleCountdown, TypeOK
  <2> QED
    BY <2>1 DEF SoleCountdown
<1>3. CASE Restart
  BY <1>3 DEF Restart, SoleCountdown
<1>4. ASSUME NEW t \in Timer, TimerStep(t) \/ TimerDbError(t)
      PROVE  SoleCountdown'
  <2>1. UNCHANGED <<pc, relockTimer>>
    BY <1>4 DEF TimerStep, Fire, RelockCheck, RelockServo, RelockSave, TimerDbError, TimerGoes
  <2>2. \A u \in Timer : timer'[u] = "armed" => timer[u] = "armed"
    BY <1>4 DEF TimerStep, Fire, RelockCheck, RelockServo, RelockSave, TimerDbError, TimerGoes, TypeOK
  <2> QED
    BY <2>1, <2>2, CountdownKept DEF Rescheduling
<1> QED
  BY <1>1, <1>2, <1>3, <1>4

\* Unless two threads are inside _schedule_relock at once, every timer that
\* still counts down is within reach of the next cancel, whatever fails: an
\* earlier unlocking never cuts a later one short by a timer that had not fired.
THEOREM SerialCountdownAlways == FaultSpec => SerialCountdown
<1>1. Init => SoleCountdown
  BY DEF Init, SoleCountdown
<1>2. TypeOK /\ SoleCountdown /\ NoDoubleSchedule /\ [FaultNext]_vars => SoleCountdown'
  <2>1. SoleCountdown /\ UNCHANGED vars => SoleCountdown'
    BY DEF vars, SoleCountdown, Rescheduling
  <2> QED
    BY <2>1, CountdownThread, CountdownOther DEF FaultNext, Next
<1> QED
  BY <1>1, <1>2, TypeCorrect, PTL DEF FaultSpec, SerialCountdown

-----------------------------------------------------------------------------
(* Which faults cost the relock.                                            *)

\* A write that raises ends the thread's operation only.
LEMMA CoverDbError ==
  ASSUME TypeOK, RelockCovered, NEW p \in Proc, DbError(p), pc[p] # "saveLocked"
  PROVE  RelockCovered'
<1>1. pc[p] \notin {"cancel", "assign", "servoLock", "cancelForLock", "start"}
  BY DEF DbError, DbSteps
<1>2. \A q \in Proc : q # p => pc'[q] = pc[q]
  BY OthersStay
<1> QED
  BY <1>1, <1>2 DEF DbError, door, RelockCovered, Covered, HasJob, InSchedule, ToLock, WillArm, Pending

LEMMA CoverKept ==
  ASSUME TypeOK, RelockCovered, [FaultNext]_vars
  PROVE  RelockCovered' \/ RelockAborted
<1>1. UNCHANGED vars => RelockCovered'
  BY DEF vars, RelockCovered, Covered, HasJob, InSchedule, ToLock, WillArm, Pending
<1> QED
  BY <1>1, CoverRequest, CoverThread, CoverTimer, CoverDbError DEF FaultNext, Next, RelockAborted

\* A door recorded as unlocked loses its relock only to a write of door_state that
\* raises, a Timer thread that dies, a shutdown or a restart.
THEOREM OnlyAbortLosesRelockAlways == FaultSpec => OnlyAbortLosesRelock
<1>1. TypeOK /\ [FaultNext]_vars => [RelockCovered /\ ~RelockCovered' => RelockAborted]_vars
  BY CoverKept
<1> QED
  BY <1>1, TypeCorrect, PTL DEF FaultSpec, OnlyAbortLosesRelock

\* A fault that falls between a servo command and the write of door_state.
DoorWriteCut ==
  \/ \E p \in Proc : Changing(p) /\ DbError(p)
  \/ \E t \in Timer : timer[t] = "saving" /\ TimerDbError(t)
  \/ Changers # {} /\ Restart

LEMMA SerialFaultStep ==
  TypeOK /\ SerialInv /\ NoOverlap /\ NoOverlap' /\ [FaultNext]_vars /\ [~DoorWriteCut]_vars
    => SerialInv'
<1> SUFFICES ASSUME TypeOK, SerialInv, NoOverlap, NoOverlap', FaultNext, ~DoorWriteCut
             PROVE  SerialInv'
  BY SerialStep
<1> USE DEF SerialInv, Agreement, Changers, Changing
<1>1. ASSUME NEW p \in Proc, DbError(p) PROVE SerialInv'
  <2>1. pc[p] \notin {"saveLocked", "saveUnlocked"}
    BY <1>1 DEF DoorWriteCut
  <2>2. UNCHANGED door /\ pc'[p] = "idle"
    BY <1>1 DEF DbError, Finish, TypeOK
  <2>3. \A q \in Proc : pc'[q] \in {"saveLocked", "saveUnlocked"} \/ pc[q] \in {"saveLocked", "saveUnlocked"}
                          => pc'[q] = pc[q]
    BY <1>1, <2>1, <2>2, OthersStay
  <2>4. Changers' = Changers
    BY <2>2, <2>3 DEF door
  <2> QED
    BY <2>2, <2>3, <2>4 DEF door
<1>2. ASSUME NEW t \in Timer, TimerDbError(t) PROVE SerialInv'
  <2>1. timer[t] = "fired"
    BY <1>2 DEF DoorWriteCut, TimerDbError
  <2>2. /\ UNCHANGED <<pc, bolt, dbLocked>>
        /\ \A u \in Timer : timer'[u] = "saving" <=> timer[u] = "saving"
    BY <1>2, <2>1 DEF TimerDbError, TimerGoes, TypeOK
  <2>3. Changers' = Changers
    BY <2>2
  <2> QED
    BY <2>2, <2>3
<1>3. CASE Shutdown
  <2>1. /\ UNCHANGED <<bolt, dbLocked>>
        /\ \A q \in Proc : pc'[q] \in {"saveLocked", "saveUnlocked"} \/ pc[q] \in {"saveLocked", "saveUnlocked"}
                             => pc'[q] = pc[q]
        /\ \A u \in Timer : timer'[u] = "saving" <=> timer[u] = "saving"
    BY <1>3 DEF Shutdown, CancelRelock, TypeOK
  <2>2. Changers' = Changers
    BY <2>1
  <2> QED
    BY <2>1, <2>2
<1>4. CASE Restart
  <2>1. Changers = {}
    BY <1>4 DEF DoorWriteCut
  <2>2. bolt = dbLocked
    BY <2>1
  <2> QED
    BY <1>4, <2>2 DEF Restart
<1> QED
  BY <1>1, <1>2, <1>3, <1>4, SerialStep DEF FaultNext

\* With every fault: bolt and door_state come apart only when two changes overlap,
\* or a fault falls between the servo command and the write of one of them.
THEOREM AgreementWithFaults ==
  FaultSpec /\ []NoOverlap /\ [][~DoorWriteCut]_vars => []Agreement
<1>1. Init => SerialInv
  BY DEF Init, SerialInv, Agreement
<1>2. SerialInv => Agreement
  BY DEF SerialInv
<1> QED
  BY <1>1, <1>2, SerialFaultStep, TypeCorrect, PTL DEF FaultSpec

\* The bolt itself, not only its record, is going to be driven back: somebody
\* relocks it, or a thread has just opened it and is about to record that.
BoltCovered == ~bolt => Covered \/ \E p \in Proc : pc[p] = "saveUnlocked"

\* README, "The door auto-relocks", of the bolt: it holds as long as changes of the
\* door do not overlap and no fault cuts one or takes its relock away.
THEOREM BoltCoveredUnlessCut ==
  FaultSpec /\ []NoOverlap /\ [][~DoorWriteCut]_vars /\ [][~RelockAborted]_vars => []BoltCovered
<1>1. Init => SerialInv /\ RelockCovered
  BY DEF Init, SerialInv, Agreement, RelockCovered
<1>2. TypeOK /\ RelockCovered /\ [FaultNext]_vars /\ [~RelockAborted]_vars => RelockCovered'
  <2>1. UNCHANGED vars /\ RelockCovered => RelockCovered'
    BY DEF vars, RelockCovered, Covered, HasJob, InSchedule, ToLock, WillArm, Pending
  <2> QED
    BY <2>1, CoverKept
<1>3. SerialInv /\ RelockCovered => BoltCovered
  <2> SUFFICES ASSUME SerialInv, RelockCovered, ~bolt, \A p \in Proc : pc[p] # "saveUnlocked"
               PROVE  Covered
    BY DEF BoltCovered
  <2>1. Changers = {}
    BY DEF SerialInv, Changers, Changing
  <2> QED
    BY <2>1 DEF SerialInv, Agreement, RelockCovered
<1> QED
  BY <1>1, <1>2, <1>3, SerialFaultStep, TypeCorrect, PTL DEF FaultSpec

-----------------------------------------------------------------------------
(* FaceLockFreed, and the end of every operation, as far as they are safety. *)

\* How far an operation has come: statements on the longest way through it.
PcRank(k) ==
  CASE k = "face"                                          -> 0
    [] k = "scan"                                          -> 1
    [] k \in {"noFace", "logAuthorized", "logUnknown"}     -> 2
    [] k \in {"cancelForLock", "servoUnlock", "autoLock"}  -> 3
    [] k \in {"servoLock", "saveUnlocked"}                 -> 4
    [] k \in {"saveLocked", "cancel"}                      -> 5
    [] k \in {"logLocked", "assign"}                       -> 6
    [] k = "start"                                         -> 7
    [] k = "logUnlocked"                                   -> 8
    [] k = "reply"                                         -> 9
    [] OTHER                                               -> 10

\* A statement of a thread brings its operation nearer to its end and leaves the
\* other thread where it is; one of the owner of _face_lock gives the lock back,
\* or leaves that as its next statement.
OperationsAdvance ==
  \A p \in Proc : ThreadStep(p) =>
    /\ PcRank(pc'[p]) > PcRank(pc[p])
    /\ \A q \in Proc \ {p} : pc'[q] = pc[q]
    /\ faceLock = p => faceLock' = Nobody \/ pc'[p] = "noFace"

\* start() goes to a Timer object, whoever has assigned the global since.
StartsTimer == \A p \in Proc : pc[p] = "start" => relockTimer \in Timer

\* Who waits for _face_lock waits for the other thread, which is inside the
\* recognition code: never for itself, for a thread that has left the code by an
\* exception, or for one from before a restart.
WaitsForScan ==
  \A p \in Proc : pc[p] = "face" =>
    faceLock = Nobody \/ (faceLock \in Proc \ {p} /\ InFaceCode(faceLock))

LEMMA OperationStep ==
  ASSUME TypeOK, NEW p \in Proc, ThreadStep(p)
  PROVE  PcRank(pc'[p]) > PcRank(pc[p])
<1> USE DEF PcRank, TypeOK, Step, Finish
<1>1. CASE CancelForLock(p) \/ ServoLock(p) \/ SaveLocked(p) \/ ServoUnlock(p)
  BY <1>1 DEF CancelForLock, ServoLock, SaveLocked, ServoUnlock
<1>2. CASE SaveUnlocked(p) \/ LogManual(p) \/ Reply(p) \/ CancelTimer(p)
  BY <1>2 DEF SaveUnlocked, LogManual, Reply, CancelTimer
<1>3. CASE AssignTimer(p) \/ StartTimer(p) \/ StartTwice(p) \/ AcquireFaceLock(p)
  BY <1>3 DEF AssignTimer, StartTimer, StartTwice, AcquireFaceLock
<1>4. CASE ScanNoFace(p) \/ ScanFace(p) \/ ReleaseFaceLock(p) \/ LogAuthorized(p)
  BY <1>4 DEF ScanNoFace, ScanFace, ReleaseFaceLock, LogAuthorized
<1>5. CASE LogUnknown(p) \/ AutoLock(p)
  BY <1>5 DEF LogUnknown, AutoLock
<1> QED
  BY <1>1, <1>2, <1>3, <1>4, <1>5 DEF ThreadStep

\* Only two statements are inside the locked code, and both lead out of it.
LEMMA OwnerLeaves ==
  ASSUME TypeOK, FaceLockExclusion, NEW p \in Proc, ThreadStep(p), faceLock = p
  PROVE  faceLock' = Nobody \/ pc'[p] = "noFace"
<1>1. pc[p] \in {"scan", "noFace"}
  BY DEF FaceLockExclusion, InFaceCode
<1> QED
  BY <1>1 DEF TypeOK, ThreadStep, Step, CancelForLock, ServoLock, SaveLocked, ServoUnlock,
     SaveUnlocked, LogManual, Reply, CancelTimer, AssignTimer, StartTimer, StartTwice,
     AcquireFaceLock, ScanNoFace, ScanFace, ReleaseFaceLock, LogAuthorized, LogUnknown, AutoLock

LEMMA StartsThread ==
  ASSUME TypeOK, StartsTimer, NEW p \in Proc, ThreadStep(p) \/ DbError(p)
  PROVE  StartsTimer'
<1>1. CASE AssignTimer(p)
  BY <1>1 DEF AssignTimer, StartsTimer
<1>2. CASE ~AssignTimer(p)
  <2>1. relockTimer' = relockTimer
    BY <1>2 DEF ThreadStep, DbError, door, CancelForLock, ServoLock, SaveLocked, ServoUnlock,
       SaveUnlocked, LogManual, Reply, CancelTimer, StartTimer, StartTwice, AcquireFaceLock,
       ScanNoFace, ScanFace, ReleaseFaceLock, LogAuthorized, LogUnknown, AutoLock
  <2>2. pc'[p] # "start"
    <3> USE DEF TypeOK, Step, Finish
    <3>1. CASE CancelForLock(p) \/ ServoLock(p) \/ SaveLocked(p) \/ ServoUnlock(p) \/ DbError(p)
      BY <3>1 DEF CancelForLock, ServoLock, SaveLocked, ServoUnlock, DbError
    <3>2. CASE SaveUnlocked(p) \/ LogManual(p) \/ Reply(p) \/ CancelTimer(p)
      BY <3>2 DEF SaveUnlocked, LogManual, Reply, CancelTimer
    <3>3. CASE StartTimer(p) \/ StartTwice(p) \/ AcquireFaceLock(p)
      BY <3>3 DEF StartTimer, StartTwice, AcquireFaceLock
    <3>4. CASE ScanNoFace(p) \/ ScanFace(p) \/ ReleaseFaceLock(p) \/ LogAuthorized(p)
      BY <3>4 DEF ScanNoFace, ScanFace, ReleaseFaceLock, LogAuthorized
    <3>5. CASE LogUnknown(p) \/ AutoLock(p)
      BY <3>5 DEF LogUnknown, AutoLock
    <3> QED
      BY <1>2, <3>1, <3>2, <3>3, <3>4, <3>5 DEF ThreadStep
  <2> QED
    BY <2>1, <2>2, OthersStay DEF StartsTimer
<1> QED
  BY <1>1, <1>2

LEMMA StartsRest ==
  ASSUME TypeOK, StartsTimer,
         \/ Request \/ Shutdown \/ Restart \/ UNCHANGED vars
         \/ \E t \in Timer : TimerStep(t) \/ TimerDbError(t)
  PROVE  StartsTimer'
<1>1. CASE Request
  <2>1. relockTimer' = relockTimer
    BY <1>1 DEF Request, DoorLockRequest, DoorUnlockRequest, Doorbell, EnrollmentCapture,
       MotionDetected, SetSetting, Begin, door
  <2> QED
    BY <1>1, <2>1, RequestStarts DEF StartsTimer
<1>2. CASE Shutdown \/ Restart \/ UNCHANGED vars
  BY <1>2 DEF Shutdown, Restart, vars, StartsTimer, TypeOK
<1>3. CASE \E t \in Timer : TimerStep(t) \/ TimerDbError(t)
  BY <1>3 DEF StartsTimer, TimerStep, TimerDbError, Fire, RelockCheck, RelockServo, RelockSave,
     TimerGoes
<1> QED
  BY <1>1, <1>2, <1>3

\* FaceLockFreed up to fairness, with every fault: an operation is a bounded
\* number of statements, none of them waits but the one that takes _face_lock,
\* and that one waits for a thread at most two statements from giving it back.
THEOREM OperationsEndByAdvancing ==
  FaultSpec => [][OperationsAdvance]_vars /\ [](StartsTimer /\ WaitsForScan)
<1>1. TypeOK /\ FaceLockExclusion /\ [FaultNext]_vars => [OperationsAdvance]_vars
  BY OperationStep, OthersStay, OwnerLeaves DEF OperationsAdvance
<1>2. TypeOK /\ StartsTimer /\ [FaultNext]_vars => StartsTimer'
  BY StartsThread, StartsRest DEF FaultNext, Next
<1>3. Init => StartsTimer
  BY DEF Init, StartsTimer
<1>4. TypeOK /\ FaceLockExclusion => WaitsForScan
  <2> SUFFICES ASSUME TypeOK, FaceLockExclusion, NEW p \in Proc, pc[p] = "face", faceLock # Nobody
               PROVE  faceLock \in Proc \ {p} /\ InFaceCode(faceLock)
    BY DEF WaitsForScan
  <2>1. faceLock \in Proc /\ (pc[p] \in {"scan", "noFace"} <=> faceLock = p)
    BY DEF TypeOK, FaceLockExclusion, InFaceCode
  <2>2. InFaceCode(faceLock)
    BY <2>1 DEF FaceLockExclusion
  <2> QED
    BY <2>1, <2>2
<1> QED
  BY <1>1, <1>2, <1>3, <1>4, TypeCorrect, FaceLockAlways, PTL DEF FaultSpec

-----------------------------------------------------------------------------
(* EventuallyRelocked, as far as it is safety.                              *)

Actor == Proc \union Timer

\* How near somebody is to locking the door: on the way through
\* _schedule_relock, as a timer, and on a way that locks at once.
Near(a) ==
  CASE a \in Proc /\ pc[a] = "cancel"         -> 1
    [] a \in Proc /\ pc[a] = "assign"         -> 2
    [] a \in Proc /\ WillArm(a)               -> 3
    [] a \in Timer /\ timer[a] = "armed"      -> 4
    [] a \in Proc /\ pc[a] = "cancelForLock"  -> 4
    [] a \in Timer /\ timer[a] = "fired"      -> 5
    [] a \in Timer /\ timer[a] = "locking"    -> 6
    [] a \in Proc /\ pc[a] = "servoLock"      -> 6
    [] a \in Timer /\ timer[a] = "saving"     -> 7
    [] a \in Proc /\ pc[a] = "saveLocked"     -> 7
    [] OTHER                                  -> 0

OwnStep(a) == (a \in Proc /\ ThreadStep(a)) \/ (a \in Timer /\ TimerStep(a))

Nearer(a) == \E b \in Actor : Near(b)' > Near(a)

\* Whoever is on the way to lock the door stands where it was until its own
\* turn comes; its turn locks the door or brings somebody nearer to that.  Its
\* place is lost only when somebody else is nearer, when the door is locked, or
\* to the cancel of a thread that has just opened the door.
RelockAdvances ==
  \A a \in Actor : Near(a) > 0 =>
    \/ dbLocked'
    \/ Nearer(a)
    \/ Near(a)' = Near(a) /\ ~OwnStep(a)
    \/ \E p \in Proc : CancelTimer(p)

\* There are as many such cancels as times the door was opened.
CancelsAfterUnlock ==
  \A p \in Proc : pc'[p] = "cancel" /\ pc[p] # "cancel" => SaveUnlocked(p)

LEMMA NearOfThread ==
  ASSUME NEW p \in Proc
  PROVE  /\ pc[p] = "cancel" => Near(p) = 1
         /\ pc[p] = "assign" => Near(p) = 2
         /\ pc[p] = "start" => Near(p) = IF WillArm(p) THEN 3 ELSE 0
         /\ pc[p] = "cancelForLock" => Near(p) = 4
         /\ pc[p] = "servoLock" => Near(p) = 6
         /\ pc[p] = "saveLocked" => Near(p) = 7
         /\ pc[p] \notin {"cancel", "assign", "start", "cancelForLock", "servoLock", "saveLocked"}
              => Near(p) = 0
<1>1. p \notin Timer
  BY ConstAssumption DEF Proc
<1> QED
  BY <1>1 DEF Near, WillArm

LEMMA NearOfTimer ==
  ASSUME NEW t \in Timer
  PROVE  /\ timer[t] = "armed" => Near(t) = 4
         /\ timer[t] = "fired" => Near(t) = 5
         /\ timer[t] = "locking" => Near(t) = 6
         /\ timer[t] = "saving" => Near(t) = 7
         /\ timer[t] \notin {"armed", "fired", "locking", "saving"} => Near(t) = 0
<1>1. t \notin Proc
  BY ConstAssumption DEF Proc
<1> QED
  BY <1>1 DEF Near

\* After the step.
LEMMA NearOfThreadNext ==
  ASSUME NEW p \in Proc
  PROVE  /\ pc'[p] = "assign" => Near(p)' = 2
         /\ pc'[p] = "start" /\ WillArm(p)' => Near(p)' = 3
         /\ pc'[p] = "servoLock" => Near(p)' = 6
         /\ pc'[p] = "saveLocked" => Near(p)' = 7
<1>1. p \notin Timer
  BY ConstAssumption DEF Proc
<1> QED
  BY <1>1 DEF Near, WillArm

LEMMA NearOfTimerNext ==
  ASSUME NEW t \in Timer
  PROVE  /\ timer'[t] = "armed" => Near(t)' = 4
         /\ timer'[t] = "fired" => Near(t)' = 5
         /\ timer'[t] = "locking" => Near(t)' = 6
         /\ timer'[t] = "saving" => Near(t)' = 7
<1>1. t \notin Proc
  BY ConstAssumption DEF Proc
<1> QED
  BY <1>1 DEF Near

\* Where a thread or a timer stands depends on its own state and, in start, on
\* the timer that the global names.
LEMMA NearKept ==
  ASSUME NEW a \in Actor, a \in Proc => pc'[a] = pc[a] /\ WillArm(a)' = WillArm(a),
         a \in Timer => timer'[a] = timer[a]
  PROVE  Near(a)' = Near(a)
  BY DEF Near

\* The thread that steps.
LEMMA NearOwn ==
  ASSUME TypeOK, NEW p \in Proc, ThreadStep(p), Near(p) > 0
  PROVE  dbLocked' \/ Nearer(p) \/ CancelTimer(p)
<1> USE DEF Actor, Nearer
<1>1. CASE pc[p] = "cancel"
  BY <1>1 DEF ThreadStep, Step, CancelForLock, ServoLock, SaveLocked, ServoUnlock, SaveUnlocked,
     LogManual, Reply, AssignTimer, StartTimer, StartTwice, AcquireFaceLock, ScanNoFace, ScanFace,
     ReleaseFaceLock, LogAuthorized, LogUnknown, AutoLock
<1>2. CASE pc[p] = "assign"
  <2>1. AssignTimer(p)
    BY <1>2 DEF ThreadStep, Step, CancelForLock, ServoLock, SaveLocked, ServoUnlock, SaveUnlocked,
       LogManual, Reply, CancelTimer, StartTimer, StartTwice, AcquireFaceLock, ScanNoFace, ScanFace,
       ReleaseFaceLock, LogAuthorized, LogUnknown, AutoLock
  <2>2. pc'[p] = "start" /\ WillArm(p)'
    <3>1. PICK t \in Timer : relockTimer' = t /\ timer' = [timer EXCEPT ![t] = "created"]
      BY <2>1 DEF AssignTimer
    <3>2. pc'[p] = "start"
      BY <2>1 DEF AssignTimer, Step, TypeOK
    <3>3. relockTimer' # NoTimer /\ timer'[relockTimer'] = "created"
      BY <3>1, ConstAssumption DEF TypeOK
    <3> QED
      BY <3>2, <3>3 DEF WillArm
  <2>3. Near(p) = 2 /\ Near(p)' = 3
    BY <1>2, <2>2, NearOfThread, NearOfThreadNext
  <2> QED
    BY <2>3
<1>3. CASE pc[p] = "start"
  <2>1. WillArm(p) /\ Near(p) = 3
    BY <1>3, NearOfThread
  <2>2. relockTimer \in Timer /\ timer[relockTimer] = "created"
    BY <2>1 DEF WillArm, TypeOK
  <2>3. StartTimer(p)
    BY <1>3, <2>2 DEF ThreadStep, Step, CancelForLock, ServoLock, SaveLocked, ServoUnlock,
       SaveUnlocked, LogManual, Reply, CancelTimer, AssignTimer, StartTwice, AcquireFaceLock,
       ScanNoFace, ScanFace, ReleaseFaceLock, LogAuthorized, LogUnknown, AutoLock
  <2>4. timer'[relockTimer] = "armed"
    BY <2>2, <2>3 DEF StartTimer, TypeOK
  <2>5. PICK u \in Timer : u = relockTimer
    BY <2>2
  <2>6. Near(u)' > Near(p)
    BY <2>1, <2>4, <2>5, NearOfTimerNext
  <2> QED
    BY <2>6
<1>4. CASE pc[p] \in {"cancelForLock", "servoLock"}
  <2>1. CancelForLock(p) \/ ServoLock(p)
    BY <1>4 DEF ThreadStep, Step, SaveLocked, ServoUnlock, SaveUnlocked, LogManual, Reply,
       CancelTimer, AssignTimer, StartTimer, StartTwice, AcquireFaceLock, ScanNoFace, ScanFace,
       ReleaseFaceLock, LogAuthorized, LogUnknown, AutoLock
  <2>2. \/ pc[p] = "cancelForLock" /\ pc'[p] = "servoLock"
        \/ pc[p] = "servoLock" /\ pc'[p] = "saveLocked"
    BY <2>1 DEF CancelForLock, ServoLock, Step, TypeOK
  <2>3. Near(p)' > Near(p)
    BY <2>2, NearOfThread, NearOfThreadNext
  <2> QED
    BY <2>3
<1>5. CASE pc[p] = "saveLocked"
  BY <1>5 DEF ThreadStep, Step, CancelForLock, ServoLock, SaveLocked, ServoUnlock, SaveUnlocked,
     LogManual, Reply, CancelTimer, AssignTimer, StartTimer, StartTwice, AcquireFaceLock, ScanNoFace,
     ScanFace, ReleaseFaceLock, LogAuthorized, LogUnknown, AutoLock
<1> QED
  BY <1>1, <1>2, <1>3, <1>4, <1>5, NearOfThread

\* A step of a thread moves itself only, so it is no other thread's step.
LEMMA NotOwn ==
  ASSUME TypeOK, NEW p \in Proc, NEW q \in Proc \ {p}, ThreadStep(p)
  PROVE  ~ThreadStep(q)
<1>1. pc'[q] = pc[q]
  BY OthersStay
<1>2. ThreadStep(q) => PcRank(pc'[q]) > PcRank(pc[q])
  BY OperationStep
<1>3. PcRank(pc[q]) \in Nat
  BY DEF PcRank
<1> QED
  BY <1>1, <1>2, <1>3

LEMMA ThreadMoves == ASSUME TypeOK, NEW p \in Proc, ThreadStep(p) PROVE pc' # pc
<1>1. PcRank(pc'[p]) > PcRank(pc[p])
  BY OperationStep
<1>2. PcRank(pc[p]) \in Nat
  BY DEF PcRank
<1> QED
  BY <1>1, <1>2

LEMMA TimerMoves ==
  ASSUME TypeOK, NEW t \in Timer, TimerStep(t)
  PROVE  /\ timer'[t] # timer[t]
         /\ \A u \in Timer \ {t} : timer'[u] = timer[u]
         /\ pc' = pc /\ relockTimer' = relockTimer
         /\ timer[t] \in {"armed", "fired", "locking", "saving"} /\ timer'[t] # "created"
<1> USE DEF TypeOK, TimerGoes
<1>1. CASE Fire(t) \/ RelockServo(t) \/ RelockSave(t)
  BY <1>1 DEF Fire, RelockServo, RelockSave
<1>2. CASE RelockCheck(t)
  BY <1>2 DEF RelockCheck
<1> QED
  BY <1>1, <1>2 DEF TimerStep

\* The relock timer changes in four statements only.
LEMMA TimersStay ==
  ASSUME NEW p \in Proc, ThreadStep(p),
         ~CancelForLock(p), ~CancelTimer(p), ~AssignTimer(p), ~StartTimer(p)
  PROVE  timer' = timer /\ relockTimer' = relockTimer
  BY DEF ThreadStep, door, ServoLock, SaveLocked, ServoUnlock, SaveUnlocked, LogManual, Reply,
     StartTwice, AcquireFaceLock, ScanNoFace, ScanFace, ReleaseFaceLock, LogAuthorized, LogUnknown,
     AutoLock

\* The other thread, when p steps.
LEMMA NearOther ==
  ASSUME TypeOK, NEW p \in Proc, ThreadStep(p), NEW q \in Proc \ {p}, Near(q) > 0
  PROVE  \/ Nearer(q)
         \/ Near(q)' = Near(q) /\ ~OwnStep(q)
         \/ CancelTimer(p)
<1>1. pc'[q] = pc[q] /\ ~OwnStep(q)
  <2>1. q \notin Timer
    BY ConstAssumption DEF Proc
  <2> QED
    BY <2>1, OthersStay, NotOwn DEF OwnStep
<1>2. CASE pc[q] # "start"
  <2>1. WillArm(q)' = WillArm(q)
    BY <1>1, <1>2 DEF WillArm
  <2>2. q \in Actor /\ q \notin Timer
    BY ConstAssumption DEF Actor, Proc
  <2> QED
    BY <1>1, <2>1, <2>2, NearKept
<1>3. CASE pc[q] = "start"
  <2>1. WillArm(q) /\ Near(q) = 3
    BY <1>3, NearOfThread
  <2>2. PICK u \in Timer : u = relockTimer /\ timer[u] = "created"
    BY <2>1 DEF WillArm, TypeOK
  <2>3. CASE CancelForLock(p)
    <3>1. pc'[p] = "servoLock"
      BY <2>3 DEF CancelForLock, Step, TypeOK
    <3>2. Near(p)' = 6
      BY <3>1, NearOfThreadNext
    <3> QED
      BY <2>1, <3>2 DEF Nearer, Actor
  <2>4. CASE StartTimer(p)
    <3>1. timer'[u] = "armed"
      BY <2>2, <2>4 DEF StartTimer, TypeOK
    <3>2. Near(u)' = 4
      BY <3>1, NearOfTimerNext
    <3> QED
      BY <2>1, <3>2 DEF Nearer, Actor
  <2>5. CASE AssignTimer(p)
    <3>1. relockTimer' # NoTimer /\ timer'[relockTimer'] = "created"
      BY <2>5, ConstAssumption DEF AssignTimer, TypeOK
    <3>2. WillArm(q)'
      BY <1>1, <1>3, <3>1 DEF WillArm
    <3>3. Near(q)' = 3
      BY <1>1, <1>3, <3>2, NearOfThreadNext
    <3> QED
      BY <1>1, <2>1, <3>3
  <2>6. CASE timer' = timer /\ relockTimer' = relockTimer
    <3>1. WillArm(q)'
      BY <1>1, <2>1, <2>6 DEF WillArm
    <3>2. Near(q)' = 3
      BY <1>1, <1>3, <3>1, NearOfThreadNext
    <3> QED
      BY <1>1, <2>1, <3>2
  <2> QED
    BY <2>3, <2>4, <2>5, <2>6, TimersStay
<1> QED
  BY <1>2, <1>3

\* A timer, when p steps.
LEMMA NearTimer ==
  ASSUME TypeOK, NEW p \in Proc, ThreadStep(p), NEW t \in Timer, Near(t) > 0
  PROVE  \/ Nearer(t)
         \/ Near(t)' = Near(t) /\ ~OwnStep(t)
         \/ CancelTimer(p)
<1>0. timer[t] \in {"armed", "fired", "locking", "saving"}
  BY NearOfTimer
<1>1. t \in Actor /\ t \notin Proc
  BY ConstAssumption DEF Actor, Proc
<1>2. ~OwnStep(t)
  BY <1>1, ThreadMoves, TimerMoves DEF OwnStep
<1>3. CASE timer'[t] = timer[t]
  BY <1>1, <1>2, <1>3, NearKept
<1>4. CASE CancelForLock(p) /\ timer[t] = "armed"
  <2>1. pc'[p] = "servoLock"
    BY <1>4 DEF CancelForLock, Step, TypeOK
  <2>2. Near(p)' = 6 /\ Near(t) = 4
    BY <1>4, <2>1, NearOfThreadNext, NearOfTimer
  <2> QED
    BY <2>2 DEF Nearer, Actor
<1>5. CASE CancelForLock(p) /\ timer[t] # "armed"
  <2>1. timer'[t] = timer[t]
    BY <1>0, <1>5 DEF CancelForLock, CancelRelock
  <2> QED
    BY <2>1, <1>3
<1>6. CASE AssignTimer(p) \/ StartTimer(p)
  <2>1. timer'[t] = timer[t]
    BY <1>0, <1>6 DEF AssignTimer, StartTimer, Unreachable, TypeOK
  <2> QED
    BY <2>1, <1>3
<1> QED
  BY <1>3, <1>4, <1>5, <1>6, TimersStay

\* Everybody, when a timer steps.
LEMMA NearTimerStep ==
  ASSUME TypeOK, NEW t \in Timer, TimerStep(t), NEW a \in Actor, Near(a) > 0
  PROVE  \/ dbLocked' \/ Nearer(a)
         \/ Near(a)' = Near(a) /\ ~OwnStep(a)
<1>1. CASE a = t
  <2>1. \/ dbLocked'
        \/ timer[t] = "armed" /\ timer'[t] = "fired"
        \/ timer[t] = "fired" /\ timer'[t] = "locking"
        \/ timer[t] = "locking" /\ timer'[t] = "saving"
    BY DEF TimerStep, Fire, RelockCheck, RelockServo, RelockSave, TimerGoes, TypeOK
  <2>2. dbLocked' \/ Near(t)' > Near(t)
    BY <2>1, NearOfTimer, NearOfTimerNext
  <2> QED
    BY <1>1, <2>2 DEF Nearer
<1>2. CASE a # t
  <2>1. a \in Timer => timer'[a] = timer[a]
    BY <1>2, TimerMoves
  <2>2. a \in Proc => pc'[a] = pc[a] /\ ~ThreadStep(a)
    BY TimerMoves, ThreadMoves
  <2>3. WillArm(a)' = WillArm(a)
    <3>1. relockTimer # NoTimer => (timer'[relockTimer] = "created" <=> timer[relockTimer] = "created")
      BY TimerMoves DEF TypeOK
    <3> QED
      BY <3>1, TimerMoves DEF WillArm
  <2>4. Near(a)' = Near(a)
    BY <2>1, <2>2, <2>3, NearKept
  <2>5. a \in Timer => ~TimerStep(a)
    BY <2>1, TimerMoves
  <2> QED
    BY <2>2, <2>4, <2>5 DEF OwnStep
<1> QED
  BY <1>1, <1>2

\* Everybody, when a request comes.
LEMMA NearRequest ==
  ASSUME TypeOK, Request, NEW a \in Actor, Near(a) > 0
  PROVE  Near(a)' = Near(a) /\ ~OwnStep(a)
<1>1. timer' = timer /\ relockTimer' = relockTimer
  BY DEF Request, DoorLockRequest, DoorUnlockRequest, Doorbell, EnrollmentCapture, MotionDetected,
     SetSetting, Begin, door
<1>2. a \in Timer => ~TimerStep(a)
  BY <1>1, TimerMoves
<1>3. a \in Proc => pc'[a] = pc[a] /\ pc[a] # "idle"
  <2>1. a \in Proc => pc[a] # "idle"
    BY NearOfThread
  <2>2. \/ pc' = pc
        \/ \E p \in Proc, to \in PC : pc[p] = "idle" /\ pc' = [pc EXCEPT ![p] = to]
    BY DEF Request, DoorLockRequest, DoorUnlockRequest, Doorbell, EnrollmentCapture, MotionDetected,
       SetSetting, Begin, Proc, PC
  <2> QED
    BY <2>1, <2>2 DEF TypeOK
<1>4. a \in Proc => ~ThreadStep(a)
  <2>1. ASSUME a \in Proc, ThreadStep(a) PROVE FALSE
    <3>1. PcRank(pc'[a]) > PcRank(pc[a]) /\ PcRank(pc[a]) \in Nat
      BY <2>1, OperationStep DEF PcRank
    <3> QED
      BY <1>3, <2>1, <3>1
  <2> QED
    BY <2>1
<1>5. a \in Proc => WillArm(a)' = WillArm(a)
  BY <1>1, <1>3 DEF WillArm
<1> QED
  BY <1>1, <1>2, <1>3, <1>4, <1>5, NearKept DEF OwnStep

\* RelockCovered and the distances speak of the same actors.
LEMMA CoveredIsNear == Covered <=> \E a \in Actor : Near(a) > 0
<1>1. \A p \in Proc : HasJob(p) <=> Near(p) > 0
  BY NearOfThread DEF HasJob, InSchedule, ToLock, WillArm
<1>2. \A t \in Timer : Pending(t) <=> Near(t) > 0
  BY NearOfTimer DEF Pending
<1> QED
  BY <1>1, <1>2 DEF Covered, Actor

LEMMA CancelFollows ==
  ASSUME TypeOK, NEW q \in Proc, ThreadStep(q), pc'[q] = "cancel"
  PROVE  SaveUnlocked(q)
<1> USE DEF TypeOK, Step, Finish
<1>1. CASE CancelForLock(q) \/ ServoLock(q) \/ SaveLocked(q) \/ ServoUnlock(q)
  BY <1>1 DEF CancelForLock, ServoLock, SaveLocked, ServoUnlock
<1>2. CASE LogManual(q) \/ Reply(q) \/ CancelTimer(q)
  BY <1>2 DEF LogManual, Reply, CancelTimer
<1>3. CASE AssignTimer(q) \/ StartTimer(q) \/ StartTwice(q) \/ AcquireFaceLock(q)
  BY <1>3 DEF AssignTimer, StartTimer, StartTwice, AcquireFaceLock
<1>4. CASE ScanNoFace(q) \/ ScanFace(q) \/ ReleaseFaceLock(q) \/ LogAuthorized(q)
  BY <1>4 DEF ScanNoFace, ScanFace, ReleaseFaceLock, LogAuthorized
<1>5. CASE LogUnknown(q) \/ AutoLock(q)
  BY <1>5 DEF LogUnknown, AutoLock
<1> QED
  BY <1>1, <1>2, <1>3, <1>4, <1>5 DEF ThreadStep

\* EventuallyRelocked up to fairness.  While the door is recorded as unlocked
\* somebody is on the way to lock it, nobody can be overtaken but by somebody
\* nearer, and every turn of theirs brings that nearer; only the cancels that
\* follow an unlock set it back, one for each time the door was opened.
THEOREM RelocksByAdvancing ==
  Spec => /\ [](~dbLocked => \E a \in Actor : Near(a) > 0)
          /\ [][RelockAdvances /\ CancelsAfterUnlock]_vars
<1>1. TypeOK /\ Next => RelockAdvances
  <2> SUFFICES ASSUME TypeOK, Next, NEW a \in Actor, Near(a) > 0
               PROVE  \/ dbLocked' \/ Nearer(a)
                      \/ Near(a)' = Near(a) /\ ~OwnStep(a)
                      \/ \E p \in Proc : CancelTimer(p)
    BY DEF RelockAdvances
  <2>1. ASSUME NEW p \in Proc, ThreadStep(p)
        PROVE  \/ dbLocked' \/ Nearer(a)
               \/ Near(a)' = Near(a) /\ ~OwnStep(a)
               \/ CancelTimer(p)
    <3>1. CASE a = p
      BY <2>1, <3>1, NearOwn
    <3>2. CASE a \in Proc \ {p}
      BY <2>1, <3>2, NearOther
    <3>3. CASE a \in Timer
      BY <2>1, <3>3, NearTimer
    <3> QED
      BY <3>1, <3>2, <3>3 DEF Actor
  <2> QED
    BY <2>1, NearTimerStep, NearRequest DEF Next
<1>2. TypeOK /\ Next => CancelsAfterUnlock
  <2> SUFFICES ASSUME TypeOK, Next, NEW p \in Proc, pc'[p] = "cancel", pc[p] # "cancel"
               PROVE  SaveUnlocked(p)
    BY DEF CancelsAfterUnlock
  <2>1. ASSUME NEW q \in Proc, ThreadStep(q) PROVE q = p
    BY <2>1, OthersStay
  <2>2. ~Request
    <3>1. Request => pc' = pc \/ \E q \in Proc, to \in PC \ {"cancel"} : pc' = [pc EXCEPT ![q] = to]
      BY DEF Request, DoorLockRequest, DoorUnlockRequest, Doorbell, EnrollmentCapture,
         MotionDetected, SetSetting, Begin, Proc, PC
    <3> QED
      BY <3>1 DEF TypeOK
  <2>3. ThreadStep(p)
    BY <2>1, <2>2, TimerMoves DEF Next
  <2> QED
    BY <2>3, CancelFollows
<1>3. RelockCovered => (~dbLocked => \E a \in Actor : Near(a) > 0)
  BY CoveredIsNear DEF RelockCovered
<1> QED
  BY <1>1, <1>2, <1>3, SpecTypeCorrect, RelockCoveredAlways, PTL DEF Spec

-----------------------------------------------------------------------------
(* EventuallyRelocked itself.  Fairness is stated with CanTurn, which says   *)
(* in the place of ENABLED when the next step is possible.  The bounded      *)
(* rank takes the place of an induction.                                     *)

CanTurn(a) ==
  Near(a) > 0 /\ (a \in Proc /\ pc[a] = "assign" => \E t \in Timer : Unreachable(t))

\* Whoever is on the way to lock the door gets its turn.
FairTurn(a) == []<>~CanTurn(a) \/ []<><<OwnStep(a)>>_vars

FairTurns == \A a \in Actor : FairTurn(a)

\* The slots do not keep a schedule from being made for ever.
TwoSlots == \E t, u \in Timer : t # u

AtLeast(r) == \E a \in Actor : Near(a) >= r

\* Somebody opens the door.
Opens == \E p \in Proc : SaveUnlocked(p)

\* A step that neither opens the door nor cancels after an unlock.
Steady == RelockAdvances /\ ~(\E p \in Proc : CancelTimer(p))

LEMMA NearIsRank == ASSUME NEW a PROVE Near(a) \in 0..7
  BY DEF Near

\* A thread that finds no free slot is not the nearest.
LEMMA NearestCanTurn ==
  ASSUME TwoSlots, TypeOK, NEW a \in Actor, Near(a) > 0, ~AtLeast(Near(a) + 1)
  PROVE  CanTurn(a)
<1> SUFFICES ASSUME a \in Proc, pc[a] = "assign"
             PROVE  \E t \in Timer : Unreachable(t)
  BY DEF CanTurn
<1>1. PICK t \in Timer : t # relockTimer
  BY DEF TwoSlots
<1>2. Near(a) = 2
  BY NearOfThread
<1>3. Near(t) < 3
  BY <1>2, NearIsRank DEF AtLeast, Actor
<1>4. timer[t] \in {"dead", "created", "disarmed"}
  BY <1>3, NearOfTimer DEF TypeOK, TimerState
<1> QED
  BY <1>1, <1>4 DEF Unreachable

\* Nobody stays on the highest rung.
LEMMA Climb ==
  ASSUME TwoSlots, NEW r \in 1..7, NEW s, s = r + 1, NEW a \in Actor
  PROVE  []TypeOK /\ ([]<>~CanTurn(a) \/ []<><<OwnStep(a)>>_vars)
            /\ [][Steady]_vars /\ []~dbLocked /\ []~AtLeast(s) => ~(Near(a) = r)
<1> DEFINE Here == Near(a) = r
<1> DEFINE High == AtLeast(s)
<1> DEFINE Own == OwnStep(a)
<1> DEFINE Can == CanTurn(a)
<1>1. /\ Here /\ [Steady]_vars /\ ~dbLocked' /\ ~High'
      => Here' /\ [~Own]_vars
  <2>1. CASE UNCHANGED vars
    BY <2>1 DEF vars, Near, WillArm
  <2>2. CASE Steady /\ Near(a) = r /\ ~dbLocked' /\ ~AtLeast(s)'
    <3>1. ~Nearer(a)
      <4>1. \A b \in Actor : ~(Near(b)' >= r + 1)
        BY <2>2 DEF AtLeast
      <4>2. \A b \in Actor : Near(b)' \in 0..7
        BY NearIsRank DEF Near
      <4> QED
        BY <2>2, <4>1, <4>2 DEF Nearer
    <3> QED
      BY <2>2, <3>1 DEF Steady, RelockAdvances
  <2> QED
    BY <2>1, <2>2
<1>2. TypeOK /\ Here /\ ~High => Can
  BY NearestCanTurn
<1>3. []TypeOK /\ ([]<>~Can \/ []<><<Own>>_vars) /\ [][Steady]_vars /\ []~dbLocked /\ []~High => ~Here
  <2> HIDE DEF Here, High, Own, Can
  <2> QED
    BY <1>1, <1>2, PTL
<1> QED
  BY <1>3

LEMMA Rise ==
  ASSUME TwoSlots, NEW r \in 1..7, NEW s, s = r + 1
  PROVE  []TypeOK /\ FairTurns /\ [][Steady]_vars /\ []~dbLocked /\ AtLeast(r) => <>AtLeast(s)
<1>1. []TypeOK /\ FairTurns /\ [][Steady]_vars /\ []~dbLocked /\ []~AtLeast(s) => ~AtLeast(r)
  <2> SUFFICES ASSUME []TypeOK, FairTurns, [][Steady]_vars, []~dbLocked, []~AtLeast(s), AtLeast(r)
               PROVE  FALSE
    OBVIOUS
  <2>1. ~AtLeast(s)
    BY PTL
  <2>2. PICK a \in Actor : Near(a) >= r
    BY DEF AtLeast
  <2>3. Near(a) = r
    BY <2>1, <2>2, NearIsRank DEF AtLeast
  <2>4. []<>~CanTurn(a) \/ []<><<OwnStep(a)>>_vars
    BY <2>2 DEF FairTurns, FairTurn
  <2> QED
    BY <2>2, <2>3, <2>4, Climb
<1> DEFINE Low == AtLeast(r)
<1> DEFINE High == AtLeast(s)
<1> HIDE DEF High
<1> QED
  BY <1>1, PTL DEF High

LEMMA Lasting == FairTurns => []FairTurns
<1>1. ASSUME NEW a \in Actor PROVE FairTurn(a) => []FairTurn(a)
  <2>1. ([]<>~CanTurn(a) \/ []<><<OwnStep(a)>>_vars) => []([]<>~CanTurn(a) \/ []<><<OwnStep(a)>>_vars)
    BY PTL
  <2> QED
    BY <2>1 DEF FairTurn
<1>2. (\A a \in Actor : []FairTurn(a)) => [](\A a \in Actor : FairTurn(a))
  OBVIOUS
<1> QED
  BY <1>1, <1>2 DEF FairTurns

\* Every opening is followed by one cancel at most.
LEMMA CancelsEnd ==
  ASSUME NEW p \in Proc
  PROVE  Spec /\ <>[][~Opens]_vars => <>[][~CancelTimer(p)]_vars
<1> DEFINE In == pc[p] = "cancel"
<1> DEFINE Cancels == CancelTimer(p)
<1>1. [CancelsAfterUnlock]_vars /\ [~Opens]_vars /\ ~In => ~In'
  BY DEF CancelsAfterUnlock, Opens, vars
<1>2. TypeOK /\ Cancels => In /\ ~In'
  BY DEF CancelTimer, Step, TypeOK
<1>3. [RelockAdvances /\ CancelsAfterUnlock]_vars => [CancelsAfterUnlock]_vars
  OBVIOUS
<1>4. Spec /\ <>[][~Opens]_vars => <>[][~Cancels]_vars
  <2> HIDE DEF In, Cancels
  <2> QED
    BY <1>1, <1>2, <1>3, SpecTypeCorrect, RelocksByAdvancing, PTL
<1> QED
  BY <1>4

LEMMA SteadyInTheEnd ==
  Spec /\ <>[][~Opens]_vars => <>[][Steady]_vars
<1> DEFINE LoopCancels == CancelTimer("loop")
<1> DEFINE MotionCancels == CancelTimer("motion")
<1>1. Spec /\ <>[][~Opens]_vars => <>[][~LoopCancels]_vars
  <2>1. PICK p \in Proc : p = "loop"
    BY DEF Proc
  <2>2. Spec /\ <>[][~Opens]_vars => <>[][~CancelTimer(p)]_vars
    BY CancelsEnd
  <2>3. [~CancelTimer(p)]_vars => [~LoopCancels]_vars
    BY <2>1
  <2> HIDE DEF LoopCancels
  <2> QED
    BY <2>2, <2>3, PTL
<1>2. Spec /\ <>[][~Opens]_vars => <>[][~MotionCancels]_vars
  <2>1. PICK p \in Proc : p = "motion"
    BY DEF Proc
  <2>2. Spec /\ <>[][~Opens]_vars => <>[][~CancelTimer(p)]_vars
    BY CancelsEnd
  <2>3. [~CancelTimer(p)]_vars => [~MotionCancels]_vars
    BY <2>1
  <2> HIDE DEF MotionCancels
  <2> QED
    BY <2>2, <2>3, PTL
<1>3. /\ [RelockAdvances /\ CancelsAfterUnlock]_vars
      /\ [~LoopCancels]_vars /\ [~MotionCancels]_vars
      => [Steady]_vars
  BY DEF Steady, Proc
<1>4. Spec /\ <>[][~Opens]_vars => <>[][Steady]_vars
  <2> HIDE DEF LoopCancels, MotionCancels
  <2> QED
    BY <1>2, <1>1, <1>3, RelocksByAdvancing, PTL
<1> QED
  BY <1>4

LEMMA Ladder ==
  ASSUME TwoSlots
  PROVE  []TypeOK /\ FairTurns /\ [][Steady]_vars /\ []~dbLocked => ~AtLeast(1)
<1> DEFINE Premise == []TypeOK /\ FairTurns /\ [][Steady]_vars /\ []~dbLocked
<1>1. Premise /\ AtLeast(1) => <>AtLeast(2)
  <2>1. PICK r \in 1..7, s \in Nat : r = 1 /\ s = 2
    OBVIOUS
  <2>2. Premise /\ AtLeast(r) => <>AtLeast(s)
    BY <2>1, Rise
  <2>3. (AtLeast(1) => AtLeast(r)) /\ (AtLeast(s) => AtLeast(2))
    BY <2>1
  <2> QED
    BY <2>2, <2>3, PTL
<1>2. Premise /\ AtLeast(2) => <>AtLeast(3)
  <2>1. PICK r \in 1..7, s \in Nat : r = 2 /\ s = 3
    OBVIOUS
  <2>2. Premise /\ AtLeast(r) => <>AtLeast(s)
    BY <2>1, Rise
  <2>3. (AtLeast(2) => AtLeast(r)) /\ (AtLeast(s) => AtLeast(3))
    BY <2>1
  <2> QED
    BY <2>2, <2>3, PTL
<1>3. Premise /\ AtLeast(3) => <>AtLeast(4)
  <2>1. PICK r \in 1..7, s \in Nat : r = 3 /\ s = 4
    OBVIOUS
  <2>2. Premise /\ AtLeast(r) => <>AtLeast(s)
    BY <2>1, Rise
  <2>3. (AtLeast(3) => AtLeast(r)) /\ (AtLeast(s) => AtLeast(4))
    BY <2>1
  <2> QED
    BY <2>2, <2>3, PTL
<1>4. Premise /\ AtLeast(4) => <>AtLeast(5)
  <2>1. PICK r \in 1..7, s \in Nat : r = 4 /\ s = 5
    OBVIOUS
  <2>2. Premise /\ AtLeast(r) => <>AtLeast(s)
    BY <2>1, Rise
  <2>3. (AtLeast(4) => AtLeast(r)) /\ (AtLeast(s) => AtLeast(5))
    BY <2>1
  <2> QED
    BY <2>2, <2>3, PTL
<1>5. Premise /\ AtLeast(5) => <>AtLeast(6)
  <2>1. PICK r \in 1..7, s \in Nat : r = 5 /\ s = 6
    OBVIOUS
  <2>2. Premise /\ AtLeast(r) => <>AtLeast(s)
    BY <2>1, Rise
  <2>3. (AtLeast(5) => AtLeast(r)) /\ (AtLeast(s) => AtLeast(6))
    BY <2>1
  <2> QED
    BY <2>2, <2>3, PTL
<1>6. Premise /\ AtLeast(6) => <>AtLeast(7)
  <2>1. PICK r \in 1..7, s \in Nat : r = 6 /\ s = 7
    OBVIOUS
  <2>2. Premise /\ AtLeast(r) => <>AtLeast(s)
    BY <2>1, Rise
  <2>3. (AtLeast(6) => AtLeast(r)) /\ (AtLeast(s) => AtLeast(7))
    BY <2>1
  <2> QED
    BY <2>2, <2>3, PTL
<1>7. Premise /\ AtLeast(7) => <>AtLeast(8)
  <2>1. PICK r \in 1..7, s \in Nat : r = 7 /\ s = 8
    OBVIOUS
  <2>2. Premise /\ AtLeast(r) => <>AtLeast(s)
    BY <2>1, Rise
  <2>3. (AtLeast(7) => AtLeast(r)) /\ (AtLeast(s) => AtLeast(8))
    BY <2>1
  <2> QED
    BY <2>2, <2>3, PTL
<1>8. ~AtLeast(8)
  BY NearIsRank DEF AtLeast
<1> QED
  BY <1>1, <1>2, <1>3, <1>4, <1>5, <1>6, <1>7, <1>8, Lasting, PTL

\* EventuallyRelocked, for any number of Timer objects, if everybody who is on
\* the way to lock the door gets its turn.
THEOREM EventuallyRelockedIfFair ==
  ASSUME TwoSlots
  PROVE  Spec /\ FairTurns => EventuallyRelocked
<1>1. TypeOK /\ RelockCovered /\ ~dbLocked => AtLeast(1)
  <2>1. RelockCovered /\ ~dbLocked => \E a \in Actor : Near(a) > 0
    BY CoveredIsNear DEF RelockCovered
  <2> QED
    BY <2>1, NearIsRank DEF AtLeast
<1>2. Spec /\ FairTurns => []<><<Opens>>_vars \/ []<>dbLocked
  BY <1>1, Ladder, Lasting, SteadyInTheEnd, SpecTypeCorrect, RelockCoveredAlways, PTL
<1> QED
  BY <1>2 DEF EventuallyRelocked, Opens

-----------------------------------------------------------------------------
(* FaceLockFreed itself, in the same way.                                   *)

\* The recognition code has no statement that waits: whoever is in it gets on.
FairScan(p) == []<>~InFaceCode(p) \/ []<><<ThreadStep(p)>>_vars

FairScans == \A p \in Proc : FairScan(p)

\* The owner stays where it is but by its own step or a fault, and its own
\* steps are at most two.
LEMMA OwnerSteps ==
  ASSUME NEW p \in Proc, TypeOK, FaceLockExclusion, FaceLockExclusion', [FaultNext]_vars,
         faceLock = p, faceLock' = p
  PROVE  \/ pc'[p] = pc[p] /\ [~ThreadStep(p)]_vars
         \/ pc[p] = "scan" /\ pc'[p] = "noFace"
<1>1. pc[p] \in {"scan", "noFace"} /\ pc'[p] \in {"scan", "noFace"}
  BY DEF FaceLockExclusion, InFaceCode
<1>2. CASE ThreadStep(p)
  <2>1. pc'[p] = "noFace"
    BY <1>2, OwnerLeaves, ConstAssumption DEF Proc
  <2>2. pc[p] # "noFace"
    BY <1>2, <2>1, OperationStep DEF PcRank
  <2> QED
    BY <1>1, <2>1, <2>2
<1>3. CASE ~ThreadStep(p)
  <2>1. CASE \E q \in Proc : ThreadStep(q) \/ DbError(q)
    <3>1. ~DbError(p)
      BY ConstAssumption DEF DbError, Proc
    <3> QED
      BY <1>3, <2>1, <3>1, OthersStay
  <2>2. CASE Request
    BY <1>1, <1>3, <2>2, RequestStarts
  <2>3. CASE \E t \in Timer : TimerStep(t) \/ TimerDbError(t)
    BY <1>3, <2>3 DEF TimerStep, TimerDbError, Fire, RelockCheck, RelockServo, RelockSave, TimerGoes
  <2>4. CASE Shutdown \/ Restart \/ UNCHANGED vars
    BY <1>1, <1>3, <2>4 DEF Shutdown, Restart, vars, TypeOK
  <2> QED
    BY <2>1, <2>2, <2>3, <2>4 DEF FaultNext, Next
<1> QED
  BY <1>2, <1>3

LEMMA FreedByOwner ==
  ASSUME NEW p \in Proc
  PROVE  /\ []TypeOK /\ []FaceLockExclusion /\ [][FaultNext]_vars
         /\ ([]<>~InFaceCode(p) \/ []<><<ThreadStep(p)>>_vars)
         => (faceLock = p ~> faceLock # p)
<1> DEFINE Owns == faceLock = p
<1> DEFINE Scans == pc[p] = "scan"
<1> DEFINE In == InFaceCode(p)
<1> DEFINE Own == ThreadStep(p)
<1>1. /\ TypeOK /\ FaceLockExclusion /\ FaceLockExclusion' /\ [FaultNext]_vars /\ Owns /\ Owns'
      => (~Scans => ~Scans' /\ [~Own]_vars) /\ (Scans => [~Own]_vars \/ ~Scans')
  BY OwnerSteps DEF FaceLockExclusion, InFaceCode
<1>2. FaceLockExclusion /\ Owns => In
  BY DEF FaceLockExclusion
<1>3. /\ []TypeOK /\ []FaceLockExclusion /\ [][FaultNext]_vars /\ ([]<>~In \/ []<><<Own>>_vars)
      => (Owns ~> ~Owns)
  <2> HIDE DEF Owns, Scans, In, Own
  <2> QED
    BY <1>1, <1>2, PTL
<1>4. ~Owns => faceLock # p
  OBVIOUS
<1> QED
  BY <1>3, <1>4, PTL

\* FaceLockFreed, with every fault, if a thread inside the recognition code gets
\* on with it.
THEOREM FaceLockFreedIfFair == FaultSpec /\ FairScans => FaceLockFreed
<1>1. ASSUME NEW p \in Proc PROVE FaultSpec /\ FairScan(p) => (faceLock = p ~> faceLock # p)
  <2>1. FairScan(p) => []<>~InFaceCode(p) \/ []<><<ThreadStep(p)>>_vars
    BY DEF FairScan
  <2> QED
    BY <2>1, FreedByOwner, TypeCorrect, FaceLockAlways, PTL DEF FaultSpec
<1> QED
  BY <1>1 DEF FairScans, FaceLockFreed

=============================================================================
