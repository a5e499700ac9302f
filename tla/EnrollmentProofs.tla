-------------------------- MODULE EnrollmentProofs --------------------------
(***************************************************************************)
(* Theorems about Enrollment with every fault, for any number of members,   *)
(* sessions and phones.                                                     *)
(***************************************************************************)
EXTENDS Enrollment, TLAPS

-----------------------------------------------------------------------------
(* Which rows exist, and who refers to them.                                *)

BackType ==
  /\ member \in [Member -> {"unused", "present", "removed"}]
  /\ enrolled \in [Member -> BOOLEAN]
  /\ version \in [Member -> 0..MaxVersion]
  /\ owner \in [Session -> Member \union {Nothing}]
  /\ status \in [Session -> {"unused", "completed", "cancelled", "gone"} \union Live]
  /\ count \in [Session -> Nat]
  /\ faces \in [Session -> SUBSET Angle]
  /\ cleared \subseteq Session

FlowType ==
  /\ flow \in [Phone -> Flow]
  /\ upload \in [Phone -> (Session \X Angle) \union {Nothing}]

\* An id that has not been handed out has left no trace.
UnusedInv ==
  \A s \in Session : status[s] = "unused" => owner[s] = Nothing /\ count[s] = 0 /\ faces[s] = {}

\* Every session has had a member.
OwnedInv ==
  \A s \in Session : status[s] # "unused" => owner[s] \in Member /\ member[owner[s]] # "unused"

\* A flow that has got its session, and a request, refer to one that was created.
HasSession(p) == flow[p].step \in {"capture", "await", "complete"}

RefersInv ==
  \A p \in Phone :
    /\ HasSession(p) => flow[p].session \in Session /\ status[flow[p].session] # "unused"
    /\ upload[p] # Nothing => status[upload[p][1]] # "unused"

\* A shot that is to be taken is one of the three.
ShotInv ==
  \A p \in Phone : flow[p].step \in {"start", "capture", "await"} => flow[p].shot < Required

Rows == BackType /\ FlowType /\ UnusedInv /\ OwnedInv /\ RefersInv /\ ShotInv

LEMMA RowsInit == Init => Rows
<1> SUFFICES ASSUME Init PROVE Rows
  OBVIOUS
<1> USE EnrollmentAssumption DEF Init
<1>1. BackType
  BY DEF BackType
<1>2. FlowType
  BY DEF FlowType, Flow
<1>3. UnusedInv /\ OwnedInv
  BY DEF UnusedInv, OwnedInv
<1>4. RefersInv /\ ShotInv
  BY DEF RefersInv, ShotInv, HasSession, Idle
<1> QED
  BY <1>1, <1>2, <1>3, <1>4 DEF Rows

-----------------------------------------------------------------------------
(* Steps of the flows.                                                      *)

\* A phone that is not idle has a complete flow.
LEMMA FlowIsActive ==
  ASSUME FlowType, NEW p \in Phone, flow[p].step # "idle"
  PROVE  flow[p] \in ActiveFlow
  BY DEF FlowType, Flow, Idle

\* No created session becomes an id again.
Kept == \A s \in Session : status[s] # "unused" => status'[s] # "unused"

\* A flow as it may be after the step.
Sound(f) ==
  /\ f.step \in {"capture", "await", "complete"} =>
       f.session \in Session /\ status'[f.session] # "unused"
  /\ f.step \in {"start", "capture", "await"} => f.shot < Required

\* What a step of the flows has to show.
LEMMA FlowsMove ==
  ASSUME FlowType, RefersInv, ShotInv, Kept,
         flow' \in [Phone -> Flow], upload' \in [Phone -> (Session \X Angle) \union {Nothing}],
         \A p \in Phone : flow'[p] = flow[p] \/ Sound(flow'[p]),
         \A p \in Phone : \/ upload'[p] \in {upload[p], Nothing}
                          \/ upload'[p] # Nothing => status'[upload'[p][1]] # "unused"
  PROVE  FlowType' /\ RefersInv' /\ ShotInv'
<1>1. FlowType'
  BY DEF FlowType
<1>2. \A p \in Phone : upload[p] # Nothing => upload[p][1] \in Session
  BY DEF FlowType
<1>3. RefersInv'
  BY <1>2 DEF RefersInv, HasSession, Sound, Kept
<1>4. ShotInv'
  BY DEF ShotInv, Sound
<1> QED
  BY <1>1, <1>3, <1>4

LEMMA IdleIsSound == Idle \in Flow /\ Sound(Idle)
  BY DEF Idle, Flow, Sound

LEMMA NextShotIsFlow ==
  ASSUME NEW f \in ActiveFlow, f.step \in {"capture", "await"}, f.shot < Required
  PROVE  /\ NextShot(f) \in ActiveFlow
         /\ NextShot(f).session = f.session
         /\ NextShot(f).step \in {"capture", "complete"}
         /\ NextShot(f).step = "capture" => NextShot(f).shot < Required
         /\ NextShot(f).shot = f.shot + 1
<1> DEFINE g == [f EXCEPT !.shot = f.shot + 1]
           to == IF f.shot + 1 = Required THEN "complete" ELSE "capture"
<1>1. f.shot \in 0..3 /\ f.shot + 1 \in 0..3
  BY DEF ActiveFlow, Required
<1>2. g \in ActiveFlow /\ g.session = f.session /\ g.shot = f.shot + 1
  BY <1>1 DEF ActiveFlow, Required
<1>3. NextShot(f) = [g EXCEPT !.step = to]
  BY DEF NextShot
<1>4. to \in {"capture", "complete"} /\ (to = "capture" => f.shot + 1 < Required)
  BY <1>1 DEF Required
<1> HIDE DEF g, to
<1>5. [g EXCEPT !.step = to] \in ActiveFlow
  BY <1>2, <1>4 DEF ActiveFlow
<1>6. /\ [g EXCEPT !.step = to].step = to
      /\ [g EXCEPT !.step = to].session = g.session
      /\ [g EXCEPT !.step = to].shot = g.shot
  BY <1>2 DEF ActiveFlow
<1> QED
  BY <1>2, <1>3, <1>4, <1>5, <1>6

\* The answer arrives, or is lost.
LEMMA AnsweredMoves ==
  ASSUME FlowType, RefersInv, ShotInv, Kept, NEW p \in Phone, NEW f \in Flow, Sound(f),
         Answered(p, f)
  PROVE  FlowType' /\ RefersInv' /\ ShotInv'
<1>1. /\ flow' \in [Phone -> Flow]
      /\ \A q \in Phone : flow'[q] = flow[q] \/ Sound(flow'[q])
      /\ upload' = upload
  BY IdleIsSound DEF Answered, FlowType
<1>2. upload' \in [Phone -> (Session \X Angle) \union {Nothing}]
  BY <1>1 DEF FlowType
<1> QED
  BY <1>1, <1>2, FlowsMove

LEMMA FinishedMoves ==
  ASSUME FlowType, RefersInv, ShotInv, Kept, NEW p \in Phone, NEW f,
         flow[p].step = "await" => f \in Flow /\ Sound(f),
         Finished(p, f)
  PROVE  FlowType' /\ RefersInv' /\ ShotInv'
<1>1. upload' \in [Phone -> (Session \X Angle) \union {Nothing}]
  BY DEF Finished, FlowType
<1>2. \A q \in Phone : upload'[q] \in {upload[q], Nothing}
  BY DEF Finished, FlowType
<1>3. /\ flow' \in [Phone -> Flow]
      /\ \A q \in Phone : flow'[q] = flow[q] \/ Sound(flow'[q])
  BY DEF Finished, FlowType
<1> QED
  BY <1>1, <1>2, <1>3, FlowsMove

-----------------------------------------------------------------------------
(* Steps of the back end.                                                   *)

BackInv == BackType /\ UnusedInv /\ OwnedInv

LEMMA DeleteFacesType ==
  ASSUME BackType, NEW m \in Member, DeleteFaces(m)
  PROVE  /\ faces' \in [Session -> SUBSET Angle]
         /\ cleared' \subseteq Session
         /\ \A s \in Session : faces'[s] \subseteq faces[s]
         /\ \A s \in Session : owner[s] = m => faces'[s] = {}
  BY DEF BackType, DeleteFaces, SessionsOf

LEMMA MembersStep ==
  ASSUME BackInv, NEW m \in Member,
         AddMember(m) \/ RemoveMember(m) \/ RemoveTemplate(m) \/ CutRemove(m)
  PROVE  BackInv' /\ Kept
<1> USE DEF BackInv, BackType, UnusedInv, OwnedInv, Kept, Live
<1>1. CASE AddMember(m)
  BY <1>1 DEF AddMember
<1>2. CASE RemoveMember(m)
  <2>1. BackType'
    BY <1>2, DeleteFacesType, EnrollmentAssumption DEF RemoveMember
  <2>2. Kept
    BY <1>2 DEF RemoveMember
  <2>3. UnusedInv'
    BY <1>2, DeleteFacesType, EnrollmentAssumption DEF RemoveMember
  <2>4. OwnedInv'
    BY <1>2, EnrollmentAssumption DEF RemoveMember
  <2> QED
    BY <2>1, <2>2, <2>3, <2>4
<1>3. CASE RemoveTemplate(m) \/ CutRemove(m)
  <2>0. 0 \in 0..MaxVersion
    BY EnrollmentAssumption
  <2>1. CASE RemoveTemplate(m)
    <3>1. BackType'
      BY <2>0, <2>1, DeleteFacesType DEF RemoveTemplate
    <3> QED
      BY <2>1, <3>1, DeleteFacesType DEF RemoveTemplate
  <2>2. CASE CutRemove(m)
    <3>1. BackType'
      BY <2>2, DeleteFacesType DEF CutRemove
    <3> QED
      BY <2>2, <3>1, DeleteFacesType DEF CutRemove
  <2> QED
    BY <1>3, <2>1, <2>2
<1> QED
  BY <1>1, <1>2, <1>3

LEMMA CancelSessionStep ==
  ASSUME BackInv, NEW s \in Session, CancelSession(s)
  PROVE  BackInv' /\ Kept
  BY DEF BackInv, BackType, UnusedInv, OwnedInv, Kept, Live, CancelSession, RowExists

LEMMA CreateSessionStep ==
  ASSUME BackInv, NEW s \in Session, NEW m \in Member, member[m] = "present", CreateSession(s, m)
  PROVE  BackInv' /\ Kept /\ status'[s] # "unused"
  BY DEF BackInv, BackType, UnusedInv, OwnedInv, Kept, Live, CreateSession

LEMMA StoreCaptureStep ==
  ASSUME BackInv, NEW s \in Session, NEW a \in Angle, status[s] # "unused", StoreCapture(s, a)
  PROVE  BackInv' /\ Kept
<1>1. BackType'
  BY DEF BackInv, BackType, StoreCapture, Live
<1>2. UnusedInv' /\ OwnedInv' /\ Kept
  BY DEF BackInv, BackType, UnusedInv, OwnedInv, Kept, StoreCapture
<1> QED
  BY <1>1, <1>2 DEF BackInv

LEMMA CompleteSessionStep ==
  ASSUME BackInv, NEW s \in Session, NEW m \in Member, status[s] # "unused",
         version[m] < MaxVersion, CompleteSession(s, m)
  PROVE  BackInv' /\ Kept
<1>1. version' \in [Member -> 0..MaxVersion]
  BY EnrollmentAssumption DEF BackInv, BackType, CompleteSession
<1> QED
  BY <1>1 DEF BackInv, BackType, UnusedInv, OwnedInv, Kept, Live, CompleteSession

LEMMA BackendSame ==
  ASSUME BackInv, UNCHANGED backend
  PROVE  BackInv' /\ Kept
  BY DEF BackInv, BackType, UnusedInv, OwnedInv, Kept, backend

-----------------------------------------------------------------------------
(* All steps together.                                                      *)

FlowInv == FlowType /\ RefersInv /\ ShotInv

LEMMA FailedStep ==
  ASSUME FlowInv, BackInv, NEW p \in Phone, Failed(p)
  PROVE  BackInv' /\ FlowInv'
<1>1. BackInv' /\ Kept
  BY BackendSame DEF Failed
<1>2. /\ flow' \in [Phone -> Flow]
      /\ \A q \in Phone : flow'[q] = flow[q] \/ Sound(flow'[q])
      /\ upload' = upload
  BY IdleIsSound DEF Failed, FlowInv, FlowType
<1>3. upload' \in [Phone -> (Session \X Angle) \union {Nothing}]
  BY <1>2 DEF FlowInv, FlowType
<1> QED
  BY <1>1, <1>2, <1>3, FlowsMove DEF FlowInv

LEMMA BeginFlowStep ==
  ASSUME FlowInv, BackInv, NEW p \in Phone, NEW k \in {"pi", "mac"}, NEW m \in Member,
         BeginFlow(p, k, m)
  PROVE  BackInv' /\ FlowInv'
<1> DEFINE f == [step |-> "start", kind |-> k, of |-> m, session |-> Nothing, shot |-> 0]
<1>1. BackInv' /\ Kept
  BY BackendSame DEF BeginFlow
<1>2. f \in Flow /\ Sound(f)
  BY DEF Flow, ActiveFlow, Sound, Required
<1> HIDE DEF f
<1>3. flow' = [flow EXCEPT ![p] = f] /\ upload' = upload
  BY DEF BeginFlow, f
<1>4. /\ flow' \in [Phone -> Flow]
      /\ \A q \in Phone : flow'[q] = flow[q] \/ Sound(flow'[q])
      /\ upload' \in [Phone -> (Session \X Angle) \union {Nothing}]
  BY <1>2, <1>3 DEF FlowInv, FlowType
<1> QED
  BY <1>1, <1>3, <1>4, FlowsMove DEF FlowInv

LEMMA StartEnrollmentStep ==
  ASSUME FlowInv, BackInv, NEW p \in Phone, StartEnrollment(p)
  PROVE  BackInv' /\ FlowInv'
<1>1. CASE Failed(p)
  BY <1>1, FailedStep
<1>2. CASE ~Failed(p)
  <2>1. flow[p] \in ActiveFlow
    BY FlowIsActive DEF FlowInv, StartEnrollment
  <2>2. PICK s \in Session :
          /\ member[flow[p].of] = "present"
          /\ CreateSession(s, flow[p].of)
          /\ Answered(p, [flow[p] EXCEPT !.step = "capture", !.session = s])
    BY <1>2 DEF StartEnrollment
  <2> DEFINE g == [flow[p] EXCEPT !.step = "capture"]
             f == [g EXCEPT !.session = s]
  <2>3. [flow[p] EXCEPT !.step = "capture", !.session = s] = f
    OBVIOUS
  <2>4. g \in ActiveFlow /\ g.step = "capture" /\ g.shot = flow[p].shot
    BY <2>1 DEF ActiveFlow
  <2> HIDE DEF g
  <2>5. f \in ActiveFlow /\ f.step = "capture" /\ f.session = s /\ f.shot = flow[p].shot
    BY <2>4 DEF ActiveFlow
  <2>6. BackInv' /\ Kept /\ status'[s] # "unused"
    BY <2>1, <2>2, CreateSessionStep DEF ActiveFlow
  <2>7. flow[p].shot < Required
    BY DEF FlowInv, ShotInv, StartEnrollment
  <2>8. f \in Flow /\ Sound(f)
    BY <2>5, <2>6, <2>7 DEF Flow, Sound
  <2> HIDE DEF f
  <2> QED
    BY <2>2, <2>3, <2>6, <2>8, AnsweredMoves DEF FlowInv
<1> QED
  BY <1>1, <1>2

\* The session that accepts a capture exists.
LEMMA AcceptsSession ==
  ASSUME FlowInv, NEW p \in Phone, HasSession(p)
  PROVE  /\ flow[p] \in ActiveFlow
         /\ flow[p].session \in Session
         /\ status[flow[p].session] # "unused"
  BY FlowIsActive DEF FlowInv, RefersInv, HasSession

\* After a capture the same session is used for the next shot.
LEMMA NextShotIsSound ==
  ASSUME FlowInv, Kept, NEW p \in Phone, flow[p].step \in {"capture", "await"}
  PROVE  NextShot(flow[p]) \in Flow /\ Sound(NextShot(flow[p]))
<1>1. /\ flow[p] \in ActiveFlow
      /\ flow[p].session \in Session
      /\ status[flow[p].session] # "unused"
  BY AcceptsSession DEF HasSession
<1>2. flow[p].shot < Required
  BY DEF FlowInv, ShotInv
<1> QED
  BY <1>1, <1>2, NextShotIsFlow DEF Flow, Sound, Kept

LEMMA AngleAtType == \A i : AngleAt(i) \in Angle
  BY DEF AngleAt, Angle

LEMMA PiCaptureStep ==
  ASSUME FlowInv, BackInv, NEW p \in Phone, PiCapture(p)
  PROVE  BackInv' /\ FlowInv'
<1>1. flow[p].step = "capture"
  BY DEF PiCapture
<1>2. /\ flow[p] \in ActiveFlow
      /\ flow[p].session \in Session
      /\ status[flow[p].session] # "unused"
  BY <1>1, AcceptsSession DEF HasSession
<1>3. CASE Failed(p)
  BY <1>3, FailedStep
<1>4. CASE UNCHANGED backend /\ Answered(p, flow[p])
  <2>1. BackInv' /\ Kept
    BY <1>4, BackendSame
  <2>2. flow[p] \in Flow /\ Sound(flow[p])
    BY <1>2, <2>1 DEF FlowInv, ShotInv, Sound, Kept, Flow
  <2> QED
    BY <1>4, <2>1, <2>2, AnsweredMoves DEF FlowInv
<1>5. CASE StoreCapture(flow[p].session, AngleAt(flow[p].shot)) /\ Answered(p, NextShot(flow[p]))
  <2>1. BackInv' /\ Kept
    BY <1>2, <1>5, AngleAtType, StoreCaptureStep
  <2> QED
    BY <1>1, <1>5, <2>1, NextShotIsSound, AnsweredMoves DEF FlowInv
<1> QED
  BY <1>3, <1>4, <1>5 DEF PiCapture

LEMMA UploadCheckStep ==
  ASSUME FlowInv, BackInv, NEW p \in Phone, UploadCheck(p)
  PROVE  BackInv' /\ FlowInv'
<1>1. flow[p].step = "capture"
  BY DEF UploadCheck
<1>2. /\ flow[p] \in ActiveFlow
      /\ flow[p].session \in Session
      /\ status[flow[p].session] # "unused"
  BY <1>1, AcceptsSession DEF HasSession
<1>3. CASE Failed(p)
  BY <1>3, FailedStep
<1>4. CASE ~Failed(p)
  <2> DEFINE f == [flow[p] EXCEPT !.step = "await"]
             u == <<flow[p].session, AngleAt(flow[p].shot)>>
  <2>1. /\ upload' = [upload EXCEPT ![p] = u]
        /\ flow' = [flow EXCEPT ![p] = f]
        /\ UNCHANGED backend
    BY <1>4 DEF UploadCheck
  <2>2. BackInv' /\ Kept
    BY <2>1, BackendSame
  <2>3. f \in Flow /\ Sound(f)
    <3>1. /\ f \in ActiveFlow /\ f.step = "await"
          /\ f.session = flow[p].session /\ f.shot = flow[p].shot
      BY <1>2 DEF ActiveFlow
    <3> HIDE DEF f
    <3>2. flow[p].shot < Required
      BY <1>1 DEF FlowInv, ShotInv
    <3> QED
      BY <1>2, <2>2, <3>1, <3>2 DEF Flow, Sound, Kept
  <2>4. u \in Session \X Angle /\ u[1] = flow[p].session
    BY <1>2, AngleAtType
  <2> HIDE DEF f, u
  <2>5. /\ flow' \in [Phone -> Flow]
        /\ \A q \in Phone : flow'[q] = flow[q] \/ Sound(flow'[q])
    BY <2>1, <2>3 DEF FlowInv, FlowType
  <2>6. upload' \in [Phone -> (Session \X Angle) \union {Nothing}]
    BY <2>1, <2>4 DEF FlowInv, FlowType
  <2>7. status'[u[1]] # "unused"
    BY <1>2, <2>2, <2>4 DEF Kept
  <2>8. \A q \in Phone : \/ upload'[q] \in {upload[q], Nothing}
                         \/ upload'[q] # Nothing => status'[upload'[q][1]] # "unused"
    BY <2>1, <2>7 DEF FlowInv, FlowType
  <2> QED
    BY <2>2, <2>5, <2>6, <2>8, FlowsMove DEF FlowInv
<1> QED
  BY <1>3, <1>4

\* A request that was accepted refers to a session that exists.
LEMMA UploadSession ==
  ASSUME FlowInv, NEW p \in Phone, upload[p] # Nothing
  PROVE  /\ upload[p][1] \in Session /\ upload[p][2] \in Angle
         /\ status[upload[p][1]] # "unused"
  BY DEF FlowInv, FlowType, RefersInv

LEMMA UploadStoreStep ==
  ASSUME FlowInv, BackInv, NEW p \in Phone, UploadStore(p)
  PROVE  BackInv' /\ FlowInv'
<1>1. /\ upload[p][1] \in Session /\ upload[p][2] \in Angle
      /\ status[upload[p][1]] # "unused"
  BY UploadSession DEF UploadStore
<1>2. Kept => (flow[p].step = "await" => NextShot(flow[p]) \in Flow /\ Sound(NextShot(flow[p])))
  BY NextShotIsSound
<1>3. CASE UNCHANGED backend /\ (Finished(p, NextShot(flow[p])) \/ Finished(p, Idle))
  <2>1. BackInv' /\ Kept
    BY <1>3, BackendSame
  <2> QED
    BY <1>2, <1>3, <2>1, IdleIsSound, FinishedMoves DEF FlowInv
<1>4. CASE StoreCapture(upload[p][1], upload[p][2]) /\ Finished(p, NextShot(flow[p]))
  <2>1. BackInv' /\ Kept
    BY <1>1, <1>4, StoreCaptureStep
  <2> QED
    BY <1>2, <1>4, <2>1, FinishedMoves DEF FlowInv
<1> QED
  BY <1>3, <1>4 DEF UploadStore

\* A step that ends p's flow, whatever it does to the back end.
LEMMA LeavesIdle ==
  ASSUME FlowInv, Kept, NEW p \in Phone, flow' = [flow EXCEPT ![p] = Idle], upload' = upload
  PROVE  FlowInv'
<1>1. /\ flow' \in [Phone -> Flow]
      /\ \A q \in Phone : flow'[q] = flow[q] \/ Sound(flow'[q])
      /\ upload' \in [Phone -> (Session \X Angle) \union {Nothing}]
  BY IdleIsSound DEF FlowInv, FlowType
<1> QED
  BY <1>1, FlowsMove DEF FlowInv

LEMMA CompleteOkStep ==
  ASSUME FlowInv, BackInv, NEW p \in Phone, CompleteOk(p)
  PROVE  BackInv' /\ FlowInv'
<1>1. /\ flow[p] \in ActiveFlow
      /\ flow[p].session \in Session
      /\ status[flow[p].session] # "unused"
  BY AcceptsSession DEF HasSession, CompleteOk
<1>2. BackInv' /\ Kept
  BY <1>1, CompleteSessionStep DEF CompleteOk, ActiveFlow
<1> QED
  BY <1>2, LeavesIdle DEF CompleteOk

\* A capture of which only the encoding is stored.
LEMMA StoreFacesStep ==
  ASSUME BackInv, NEW s \in Session, NEW a \in Angle, status[s] # "unused",
         faces' = [faces EXCEPT ![s] = @ \union {a}],
         UNCHANGED <<member, enrolled, version, owner, status, count, cleared>>
  PROVE  BackInv' /\ Kept
<1>1. BackType'
  BY DEF BackInv, BackType
<1>2. UnusedInv' /\ OwnedInv' /\ Kept
  BY DEF BackInv, BackType, UnusedInv, OwnedInv, Kept
<1> QED
  BY <1>1, <1>2 DEF BackInv

LEMMA CutStoreStep ==
  ASSUME FlowInv, BackInv, NEW p \in Phone, CutStore(p)
  PROVE  BackInv' /\ FlowInv'
<1>1. CASE /\ flow[p].step = "capture"
           /\ faces' = [faces EXCEPT ![flow[p].session] = @ \union {AngleAt(flow[p].shot)}]
           /\ flow' = [flow EXCEPT ![p] = Idle]
           /\ UNCHANGED upload
  <2>1. BackInv' /\ Kept
    BY <1>1, AcceptsSession, AngleAtType, StoreFacesStep DEF HasSession, CutStore
  <2> QED
    BY <1>1, <2>1, LeavesIdle
<1>2. CASE /\ upload[p] # Nothing
           /\ faces' = [faces EXCEPT ![upload[p][1]] = @ \union {upload[p][2]}]
           /\ Finished(p, Idle)
  <2>1. BackInv' /\ Kept
    BY <1>2, UploadSession, StoreFacesStep DEF CutStore
  <2> QED
    BY <1>2, <2>1, IdleIsSound, FinishedMoves DEF FlowInv
<1> QED
  BY <1>1, <1>2 DEF CutStore

LEMMA CutCompleteStep ==
  ASSUME FlowInv, BackInv, NEW p \in Phone, CutComplete(p)
  PROVE  BackInv' /\ FlowInv'
<1>1. flow[p].session \in Session /\ status[flow[p].session] # "unused"
  BY AcceptsSession DEF HasSession, CutComplete
<1>2. BackInv' /\ Kept
  BY <1>1 DEF CutComplete, BackInv, BackType, UnusedInv, OwnedInv, Kept, Live
<1> QED
  BY <1>2, LeavesIdle DEF CutComplete

LEMMA RestartStep ==
  ASSUME FlowInv, BackInv, Restart
  PROVE  BackInv' /\ FlowInv'
<1>1. BackInv' /\ Kept
  BY BackendSame DEF Restart
<1>2. /\ flow' \in [Phone -> Flow]
      /\ \A q \in Phone : flow'[q] = flow[q] \/ Sound(flow'[q])
      /\ upload' \in [Phone -> (Session \X Angle) \union {Nothing}]
      /\ \A q \in Phone : upload'[q] = Nothing
  BY IdleIsSound DEF Restart, FlowInv, FlowType
<1> QED
  BY <1>1, <1>2, FlowsMove DEF FlowInv

\* Steps that leave the flows alone.
LEMMA BackendStep ==
  ASSUME FlowInv, BackInv, UNCHANGED <<flow, upload>>,
         \/ \E m \in Member : AddMember(m) \/ RemoveMember(m) \/ RemoveTemplate(m) \/ CutRemove(m)
         \/ \E s \in Session : CancelSession(s)
  PROVE  BackInv' /\ FlowInv'
<1>1. BackInv' /\ Kept
  BY MembersStep, CancelSessionStep
<1> QED
  BY <1>1, FlowsMove DEF FlowInv, FlowType

LEMMA RowsStep == Rows /\ [FaultNext]_vars => Rows'
<1> SUFFICES ASSUME FlowInv, BackInv, [FaultNext]_vars
             PROVE  BackInv' /\ FlowInv'
  BY DEF Rows, FlowInv, BackInv
<1>1. CASE UNCHANGED vars
  <2>1. BackInv' /\ Kept
    BY <1>1, BackendSame DEF vars
  <2> QED
    BY <1>1, <2>1, FlowsMove DEF vars, FlowInv, FlowType
<1>2. ASSUME NEW m \in Member,
             AddMember(m) \/ RemoveMember(m) \/ RemoveTemplate(m) \/ CutRemove(m)
      PROVE  BackInv' /\ FlowInv'
  BY <1>2, BackendStep DEF AddMember, RemoveMember, RemoveTemplate, CutRemove
<1>3. ASSUME NEW s \in Session, CancelSession(s) PROVE BackInv' /\ FlowInv'
  BY <1>3, BackendStep DEF CancelSession
<1>4. ASSUME NEW p \in Phone, PhoneStep(p) \/ GiveUp(p) PROVE BackInv' /\ FlowInv'
  BY <1>4, StartEnrollmentStep, PiCaptureStep, UploadCheckStep, UploadStoreStep,
     CompleteOkStep, FailedStep DEF PhoneStep, GiveUp, CompleteRefused
<1> QED
  BY <1>1, <1>2, <1>3, <1>4, BeginFlowStep, CutStoreStep, CutCompleteStep, RestartStep
     DEF FaultNext, Next

LEMMA RowsAlways == FaultSpec => []Rows
  BY RowsInit, RowsStep, PTL DEF FaultSpec

-----------------------------------------------------------------------------
(* What a step can do to the tables, whoever takes it.                      *)

\* The session that a capture is stored through: just checked, or of a member
\* that is still there.
Storable(s) == status[s] # "unused" /\ (RowExists(s) \/ member[owner[s]] = "present")

StoreFaces(s, a) ==
  /\ faces' = [faces EXCEPT ![s] = @ \union {a}]
  /\ UNCHANGED <<member, enrolled, version, owner, status, count, cleared>>

CutStatus(s) ==
  /\ status' = [status EXCEPT ![s] = "completed"]
  /\ UNCHANGED <<member, enrolled, version, owner, count, faces, cleared>>

Captured ==
  \E s \in Session, a \in Angle : Storable(s) /\ (StoreCapture(s, a) \/ StoreFaces(s, a))

Completed ==
  \E s \in Session, m \in Member :
    /\ IsSession(s, m)
    /\ \/ version[m] < MaxVersion /\ CompleteSession(s, m)
       \/ CutStatus(s)

Created == \E s \in Session, m \in Member : member[m] = "present" /\ CreateSession(s, m)

Managed ==
  \/ \E m \in Member : AddMember(m) \/ RemoveMember(m) \/ RemoveTemplate(m) \/ CutRemove(m)
  \/ \E s \in Session : CancelSession(s)

LEMMA PhoneStepOnTables ==
  ASSUME Rows, NEW p \in Phone, PhoneStep(p)
  PROVE  UNCHANGED backend \/ Captured \/ Completed \/ Created
<1> FlowInv
  BY DEF Rows, FlowInv
<1>1. CASE StartEnrollment(p)
  <2>1. flow[p] \in ActiveFlow
    BY <1>1, FlowIsActive DEF FlowInv, StartEnrollment
  <2> QED
    BY <1>1, <2>1 DEF StartEnrollment, Created, Failed, ActiveFlow
<1>2. CASE PiCapture(p)
  <2>1. flow[p].session \in Session /\ status[flow[p].session] # "unused"
    BY <1>2, AcceptsSession DEF HasSession, PiCapture
  <2> QED
    BY <1>2, <2>1, AngleAtType DEF PiCapture, Captured, Storable, Accepts, IsSession, Failed
<1>3. CASE UploadCheck(p)
  BY <1>3 DEF UploadCheck, Failed
<1>4. CASE UploadStore(p)
  BY <1>4, UploadSession DEF UploadStore, Captured, Storable
<1>5. CASE CompleteOk(p)
  <2>1. /\ flow[p] \in ActiveFlow
        /\ flow[p].session \in Session
    BY <1>5, AcceptsSession DEF HasSession, CompleteOk
  <2>2. flow[p].of \in Member
    BY <2>1 DEF ActiveFlow
  <2> QED
    BY <1>5, <2>1, <2>2 DEF CompleteOk, Completed
<1>6. CASE CompleteRefused(p)
  BY <1>6 DEF CompleteRefused, Failed
<1> QED
  BY <1>1, <1>2, <1>3, <1>4, <1>5, <1>6 DEF PhoneStep

LEMMA CutOnTables ==
  ASSUME Rows, NEW p \in Phone, CutStore(p) \/ CutComplete(p)
  PROVE  Captured \/ Completed
<1> FlowInv
  BY DEF Rows, FlowInv
<1>1. CASE CutComplete(p)
  <2>1. /\ flow[p] \in ActiveFlow
        /\ flow[p].session \in Session
    BY <1>1, AcceptsSession DEF HasSession, CutComplete
  <2>2. flow[p].of \in Member
    BY <2>1 DEF ActiveFlow
  <2> QED
    BY <1>1, <2>1, <2>2 DEF CutComplete, Completed, CutStatus
<1>2. CASE CutStore(p) /\ upload[p] # Nothing /\ member[owner[upload[p][1]]] = "present"
           /\ faces' = [faces EXCEPT ![upload[p][1]] = @ \union {upload[p][2]}]
  BY <1>2, UploadSession DEF CutStore, Captured, Storable, StoreFaces
<1>3. CASE CutStore(p) /\ flow[p].step = "capture" /\ Accepts(p)
           /\ faces' = [faces EXCEPT ![flow[p].session] = @ \union {AngleAt(flow[p].shot)}]
  <2>1. flow[p].session \in Session /\ status[flow[p].session] # "unused"
    BY <1>3, AcceptsSession DEF HasSession
  <2> QED
    BY <1>3, <2>1, AngleAtType DEF CutStore, Captured, Storable, StoreFaces, Accepts, IsSession
<1> QED
  BY <1>1, <1>2, <1>3 DEF CutStore

LEMMA StepOnTables ==
  ASSUME Rows, [FaultNext]_vars
  PROVE  UNCHANGED backend \/ Captured \/ Completed \/ Created \/ Managed
<1>1. CASE \E p \in Phone : GiveUp(p)
  BY <1>1 DEF GiveUp, Failed
<1>2. CASE \E p \in Phone, k \in {"pi", "mac"}, m \in Member : BeginFlow(p, k, m)
  BY <1>2 DEF BeginFlow
<1>3. CASE Restart \/ UNCHANGED vars
  BY <1>3 DEF Restart, vars
<1> QED
  BY <1>1, <1>2, <1>3, PhoneStepOnTables, CutOnTables DEF FaultNext, Next, Managed

-----------------------------------------------------------------------------

LEMMA VersionStep == Rows /\ VersionTracksEnrolled /\ [FaultNext]_vars => VersionTracksEnrolled'
<1> SUFFICES ASSUME BackType, VersionTracksEnrolled,
                    UNCHANGED backend \/ Captured \/ Completed \/ Created \/ Managed
             PROVE  VersionTracksEnrolled'
  BY StepOnTables DEF Rows
<1> USE DEF VersionTracksEnrolled, BackType
<1>1. CASE UNCHANGED <<enrolled, version>>
  BY <1>1
<1>2. ASSUME NEW m \in Member, RemoveMember(m) \/ RemoveTemplate(m)
      PROVE  VersionTracksEnrolled'
  <2>1. /\ enrolled' = [enrolled EXCEPT ![m] = FALSE]
        /\ version' = [version EXCEPT ![m] = 0]
    BY <1>2 DEF RemoveMember, RemoveTemplate
  <2>2. \A n \in Member : n # m => enrolled'[n] = enrolled[n] /\ version'[n] = version[n]
    BY <2>1
  <2>3. ~enrolled'[m] /\ version'[m] = 0
    BY <2>1
  <2> QED
    BY <2>2, <2>3
<1>3. ASSUME NEW m \in Member, NEW s \in Session, CompleteSession(s, m)
      PROVE  VersionTracksEnrolled'
  <2>1. \A n \in Member : n # m => enrolled'[n] = enrolled[n] /\ version'[n] = version[n]
    BY <1>3 DEF CompleteSession
  <2>2. enrolled'[m] /\ version'[m] = version[m] + 1
    BY <1>3 DEF CompleteSession
  <2>3. version[m] \in Nat
    BY EnrollmentAssumption
  <2>4. version'[m] > 0
    BY <2>2, <2>3
  <2> QED
    BY <2>1, <2>2, <2>4
<1> QED
  BY <1>1, <1>2, <1>3 DEF backend, Captured, Completed, Created, Managed, StoreCapture,
     StoreFaces, CutStatus, CreateSession, AddMember, CutRemove, CancelSession

\* A member has a profile version exactly while face_enrolled is set, whatever
\* removals, enrollments and failures interleave.
THEOREM VersionTracksAlways == FaultSpec => []VersionTracksEnrolled
<1>1. Init => VersionTracksEnrolled
  BY DEF Init, VersionTracksEnrolled
<1> QED
  BY <1>1, RowsAlways, VersionStep, PTL DEF FaultSpec

LEMMA NoOrphansStep == Rows /\ NoOrphans /\ [FaultNext]_vars => NoOrphans'
<1> SUFFICES ASSUME BackInv, NoOrphans,
                    UNCHANGED backend \/ Captured \/ Completed \/ Created \/ Managed
             PROVE  NoOrphans'
  BY StepOnTables DEF Rows, BackInv
<1> USE EnrollmentAssumption DEF NoOrphans, BackInv, BackType, RowExists
<1>1. CASE UNCHANGED backend
  BY <1>1 DEF backend
<1>2. CASE Captured
  BY <1>2 DEF Captured, Storable, StoreCapture, StoreFaces, OwnedInv
<1>3. CASE Completed
  BY <1>3 DEF Completed, IsSession, CompleteSession, CutStatus
<1>4. CASE Created
  BY <1>4 DEF Created, CreateSession
<1>5. ASSUME NEW m \in Member, AddMember(m) PROVE NoOrphans'
  BY <1>5 DEF AddMember, OwnedInv, UnusedInv
<1>6. ASSUME NEW m \in Member, RemoveMember(m) PROVE NoOrphans'
  BY <1>6, DeleteFacesType DEF RemoveMember
<1>7. ASSUME NEW m \in Member, RemoveTemplate(m) \/ CutRemove(m) PROVE NoOrphans'
  <2>1. UNCHANGED <<member, owner, status>> /\ \A s \in Session : faces'[s] \subseteq faces[s]
    BY <1>7, DeleteFacesType DEF RemoveTemplate, CutRemove
  <2> QED
    BY <2>1
<1>8. ASSUME NEW s \in Session, CancelSession(s) PROVE NoOrphans'
  BY <1>8 DEF CancelSession
<1> QED
  BY <1>1, <1>2, <1>3, <1>4, <1>5, <1>6, <1>7, <1>8 DEF Managed

\* Nothing is stored for a member that is gone, also by an upload that was
\* checked before the removal and is stored after it.
THEOREM NoOrphansAlways == FaultSpec => []NoOrphans
<1>1. Init => NoOrphans
  BY DEF Init, NoOrphans
<1> QED
  BY <1>1, RowsAlways, NoOrphansStep, PTL DEF FaultSpec

LEMMA StatusStep == Rows /\ StatusMatchesCount /\ [FaultNext]_vars => StatusMatchesCount'
<1> SUFFICES ASSUME BackInv, StatusMatchesCount,
                    UNCHANGED backend \/ Captured \/ Completed \/ Created \/ Managed
             PROVE  StatusMatchesCount'
  BY StepOnTables DEF Rows, BackInv
<1> USE DEF StatusMatchesCount, BackInv, BackType, Required
<1>1. CASE UNCHANGED <<status, count>>
  BY <1>1
<1>2. ASSUME NEW s \in Session, NEW a \in Angle, StoreCapture(s, a)
      PROVE  StatusMatchesCount'
  <2>1. \A t \in Session : t # s => status'[t] = status[t] /\ count'[t] = count[t]
    BY <1>2 DEF StoreCapture
  <2>2. /\ count[s] \in Nat
        /\ count'[s] = count[s] + 1
        /\ status'[s] = IF count[s] + 1 >= 3 THEN "processing" ELSE "capturing"
    BY <1>2 DEF StoreCapture
  <2>3. /\ status'[s] = "processing" => count'[s] >= 3
        /\ status'[s] = "capturing" => count'[s] < 3
    BY <2>2
  <2> QED
    BY <2>1, <2>3
<1>3. ASSUME NEW s \in Session, NEW m \in Member, CreateSession(s, m)
      PROVE  StatusMatchesCount'
  BY <1>3 DEF CreateSession, UnusedInv
<1>4. CASE Completed
  BY <1>4 DEF Completed, CompleteSession, CutStatus
<1>5. CASE \/ \E m \in Member : RemoveMember(m)
           \/ \E s \in Session : CancelSession(s)
  BY <1>5 DEF RemoveMember, CancelSession
<1> QED
  BY <1>1, <1>2, <1>3, <1>4, <1>5 DEF backend, Captured, Created, Managed, StoreFaces,
     AddMember, RemoveTemplate, CutRemove

\* The status that is polled agrees with the number of captures, although a
\* store does not look at the status again.
THEOREM StatusMatchesCountAlways == FaultSpec => []StatusMatchesCount
<1>1. Init => StatusMatchesCount
  BY DEF Init, StatusMatchesCount
<1> QED
  BY <1>1, RowsAlways, StatusStep, PTL DEF FaultSpec

-----------------------------------------------------------------------------
(* No session takes more than three captures: a session is used by one      *)
(* phone, and its captures are at most the shots that phone has taken.      *)

Using(p, s) ==
  \/ HasSession(p) /\ flow[p].session = s
  \/ upload[p] # Nothing /\ upload[p][1] = s

Exclusive == \A p, q \in Phone : \A s \in Session : Using(p, s) /\ Using(q, s) => p = q

\* A phone's own captures; a request that its flow has given up is of another session.
Shots(p) ==
  /\ flow[p].step \in {"capture", "await"} => count[flow[p].session] <= flow[p].shot
  /\ flow[p].step = "capture" => ~(upload[p] # Nothing /\ upload[p][1] = flow[p].session)
  /\ flow[p].step = "await" => upload[p] # Nothing /\ upload[p][1] = flow[p].session
  /\ upload[p] # Nothing => count[upload[p][1]] < Required

Bounded == \A s \in Session : count[s] <= Required

CaptureInv == Exclusive /\ Bounded /\ \A p \in Phone : Shots(p)

\* A step of one phone that disturbs only sessions it uses, or a new one.
LEMMA OnePhone ==
  ASSUME Rows, CaptureInv, NEW p \in Phone,
         \A q \in Phone \ {p} : flow'[q] = flow[q] /\ upload'[q] = upload[q],
         \A s \in Session : Using(p, s)' => Using(p, s) \/ status[s] = "unused",
         \A s \in Session : count'[s] = count[s] \/ Using(p, s),
         Bounded', Shots(p)'
  PROVE  CaptureInv'
<1>1. ASSUME NEW q \in Phone \ {p}, NEW s \in Session, Using(q, s)
      PROVE  status[s] # "unused" /\ ~Using(p, s) /\ count'[s] = count[s]
  BY <1>1 DEF Rows, RefersInv, Using, HasSession, CaptureInv, Exclusive
<1>2. \A q \in Phone \ {p}, s \in Session : Using(q, s)' <=> Using(q, s)
  BY DEF Using, HasSession
<1>3. Exclusive'
  <2> SUFFICES ASSUME NEW q \in Phone, NEW r \in Phone, NEW s \in Session,
                      Using(q, s)', Using(r, s)'
               PROVE  q = r
    BY DEF Exclusive
  <2> QED
    BY <1>1, <1>2 DEF CaptureInv, Exclusive
<1>4. ASSUME NEW q \in Phone \ {p} PROVE Shots(q)'
  <2>1. HasSession(q) => flow[q].session \in Session /\ Using(q, flow[q].session)
    BY DEF Rows, RefersInv, Using
  <2>2. upload[q] # Nothing => upload[q][1] \in Session /\ Using(q, upload[q][1])
    BY DEF Rows, FlowType, Using
  <2>3. /\ HasSession(q) => count'[flow[q].session] = count[flow[q].session]
        /\ upload[q] # Nothing => count'[upload[q][1]] = count[upload[q][1]]
    BY <1>1, <2>1, <2>2
  <2> QED
    BY <2>3 DEF CaptureInv, Shots, HasSession
<1> QED
  BY <1>3, <1>4 DEF CaptureInv

\* A step that leaves the captures alone and ends p's flow, or does not touch it.
LEMMA FlowEnds ==
  ASSUME Rows, CaptureInv, NEW p \in Phone, UNCHANGED <<count, upload>>,
         flow' = [flow EXCEPT ![p] = Idle]
  PROVE  CaptureInv'
<1>1. flow'[p] = Idle /\ \A q \in Phone \ {p} : flow'[q] = flow[q]
  BY DEF Rows, FlowType
<1>2. Shots(p)' /\ \A s \in Session : Using(p, s)' => Using(p, s)
  BY <1>1 DEF CaptureInv, Shots, Using, HasSession, Idle
<1>3. Bounded'
  BY DEF CaptureInv, Bounded
<1> QED
  BY <1>1, <1>2, <1>3, OnePhone

LEMMA NothingMoves ==
  ASSUME CaptureInv, UNCHANGED <<count, flow, upload>>
  PROVE  CaptureInv'
  BY DEF CaptureInv, Exclusive, Bounded, Shots, Using, HasSession

LEMMA OneMore ==
  ASSUME Rows, Bounded, NEW s \in Session, NEW a \in Angle, StoreCapture(s, a), count[s] < Required
  PROVE  /\ count'[s] = count[s] + 1
         /\ \A t \in Session : t # s => count'[t] = count[t]
         /\ Bounded'
<1>1. count'[s] = count[s] + 1 /\ \A t \in Session : t # s => count'[t] = count[t]
  BY DEF Rows, BackType, StoreCapture
<1>2. count[s] \in Nat
  BY DEF Rows, BackType
<1> QED
  BY <1>1, <1>2 DEF Bounded, Required

LEMMA StartKeepsCaptures ==
  ASSUME Rows, CaptureInv, NEW p \in Phone, StartEnrollment(p)
  PROVE  CaptureInv'
<1> FlowInv
  BY DEF Rows, FlowInv
<1>1. CASE Failed(p)
  BY <1>1, FlowEnds DEF Failed, backend
<1>2. CASE ~Failed(p)
  <2>1. flow[p] \in ActiveFlow
    BY FlowIsActive DEF FlowInv, StartEnrollment
  <2>2. PICK s \in Session :
          /\ CreateSession(s, flow[p].of)
          /\ Answered(p, [flow[p] EXCEPT !.step = "capture", !.session = s])
    BY <1>2 DEF StartEnrollment
  <2>3. UNCHANGED <<count, upload>>
    BY <2>2 DEF CreateSession, Answered
  <2>4. CASE flow' = [flow EXCEPT ![p] = Idle]
    BY <2>3, <2>4, FlowEnds
  <2>5. CASE flow' = [flow EXCEPT ![p] = [flow[p] EXCEPT !.step = "capture", !.session = s]]
    <3> DEFINE g == [flow[p] EXCEPT !.step = "capture"]
               f == [g EXCEPT !.session = s]
    <3>1. [flow[p] EXCEPT !.step = "capture", !.session = s] = f
      OBVIOUS
    <3>2. g \in ActiveFlow /\ g.step = "capture" /\ g.shot = flow[p].shot
      BY <2>1 DEF ActiveFlow
    <3> HIDE DEF g
    <3>3. f \in ActiveFlow /\ f.step = "capture" /\ f.session = s /\ f.shot = flow[p].shot
      BY <3>2 DEF ActiveFlow
    <3> HIDE DEF f
    <3>4. flow'[p] = f /\ \A q \in Phone \ {p} : flow'[q] = flow[q]
      BY <2>5, <3>1 DEF Rows, FlowType
    <3>5. status[s] = "unused" /\ count'[s] = 0
      BY <2>2, <2>3 DEF CreateSession, Rows, UnusedInv
    <3>6. 0 <= f.shot
      BY <3>3 DEF ActiveFlow, Required
    <3>7. ~(upload[p] # Nothing /\ upload[p][1] = s)
      BY <3>5 DEF Rows, RefersInv
    <3>8. Shots(p)'
      BY <2>3, <3>3, <3>4, <3>5, <3>6, <3>7 DEF CaptureInv, Shots
    <3>9. \A t \in Session : Using(p, t)' => Using(p, t) \/ status[t] = "unused"
      BY <2>3, <3>3, <3>4, <3>5 DEF Using, HasSession
    <3>10. Bounded'
      BY <2>3 DEF CaptureInv, Bounded
    <3> QED
      BY <2>3, <3>4, <3>8, <3>9, <3>10, OnePhone
  <2> QED
    BY <2>2, <2>4, <2>5 DEF Answered
<1> QED
  BY <1>1, <1>2

\* The shot after a capture, as far as the captures are concerned.
LEMMA NextShotOf ==
  ASSUME Rows, NEW p \in Phone, flow[p].step \in {"capture", "await"}
  PROVE  /\ NextShot(flow[p]).session = flow[p].session
         /\ NextShot(flow[p]).step \in {"capture", "complete"}
         /\ NextShot(flow[p]).shot = flow[p].shot + 1
         /\ flow[p].session \in Session
         /\ flow[p].shot \in Nat /\ flow[p].shot < Required
         /\ count[flow[p].session] \in Nat
<1>1. /\ flow[p] \in ActiveFlow
      /\ flow[p].session \in Session
  BY AcceptsSession DEF HasSession, Rows, FlowInv
<1>2. flow[p].shot < Required
  BY DEF Rows, ShotInv
<1>3. flow[p].shot \in Nat /\ count[flow[p].session] \in Nat
  BY <1>1 DEF ActiveFlow, Required, Rows, BackType
<1> QED
  BY <1>1, <1>2, <1>3, NextShotIsFlow

LEMMA PiCaptureKeepsCaptures ==
  ASSUME Rows, CaptureInv, NEW p \in Phone, PiCapture(p)
  PROVE  CaptureInv'
<1> DEFINE s == flow[p].session
<1>0. flow[p].step = "capture"
  BY DEF PiCapture
<1>1. /\ NextShot(flow[p]).session = s
      /\ NextShot(flow[p]).step \in {"capture", "complete"}
      /\ NextShot(flow[p]).shot = flow[p].shot + 1
      /\ s \in Session /\ count[s] \in Nat
      /\ flow[p].shot \in Nat /\ flow[p].shot < Required
  BY <1>0, NextShotOf
<1>2. CASE UNCHANGED <<count, upload>> /\ flow' = [flow EXCEPT ![p] = Idle]
  BY <1>2, FlowEnds
<1>3. CASE UNCHANGED <<count, upload>> /\ flow' = [flow EXCEPT ![p] = flow[p]]
  <2>1. flow' = flow
    BY <1>3 DEF Rows, FlowType
  <2> QED
    BY <1>3, <2>1, NothingMoves
<1>4. CASE StoreCapture(s, AngleAt(flow[p].shot)) /\ Answered(p, NextShot(flow[p]))
  <2>1. count[s] <= flow[p].shot /\ count[s] < Required
    BY <1>0, <1>1 DEF CaptureInv, Shots, Required
  <2>2. /\ count'[s] = count[s] + 1
        /\ \A t \in Session : t # s => count'[t] = count[t]
        /\ Bounded'
    BY <1>1, <1>4, <2>1, AngleAtType, OneMore DEF CaptureInv
  <2>3. /\ upload' = upload
        /\ flow'[p] \in {Idle, NextShot(flow[p])}
        /\ \A q \in Phone \ {p} : flow'[q] = flow[q]
    BY <1>4 DEF Answered, Rows, FlowType
  <2>4. upload[p] # Nothing => upload[p][1] \in Session /\ upload[p][1] # s
    BY <1>0 DEF Rows, FlowType, CaptureInv, Shots
  <2>5. upload[p] # Nothing => count'[upload[p][1]] < Required
    BY <2>2, <2>4 DEF CaptureInv, Shots
  <2>6. Using(p, s)
    BY <1>0 DEF Using, HasSession
  <2>7. CASE flow'[p] = Idle
    <3>1. Shots(p)' /\ \A t \in Session : Using(p, t)' => Using(p, t)
      BY <2>3, <2>5, <2>7 DEF Shots, Using, HasSession, Idle
    <3> QED
      BY <2>2, <2>3, <2>6, <3>1, OnePhone
  <2>8. CASE flow'[p] = NextShot(flow[p])
    <3>1. count'[s] <= flow[p].shot + 1
      BY <1>1, <2>1, <2>2
    <3>2. Shots(p)'
      BY <1>1, <2>3, <2>4, <2>5, <2>8, <3>1 DEF Shots
    <3>3. \A t \in Session : Using(p, t)' => Using(p, t)
      BY <1>1, <2>3, <2>6, <2>8 DEF Using, HasSession
    <3> QED
      BY <2>2, <2>3, <2>6, <3>2, <3>3, OnePhone
  <2> QED
    BY <2>3, <2>7, <2>8
<1> QED
  BY <1>2, <1>3, <1>4 DEF PiCapture, Failed, Answered, backend

LEMMA UploadCheckKeepsCaptures ==
  ASSUME Rows, CaptureInv, NEW p \in Phone, UploadCheck(p)
  PROVE  CaptureInv'
<1> DEFINE s == flow[p].session
<1>0. flow[p].step = "capture"
  BY DEF UploadCheck
<1>1. /\ flow[p] \in ActiveFlow
      /\ s \in Session /\ count[s] \in Nat
      /\ flow[p].shot \in Nat /\ flow[p].shot < Required
      /\ count[s] <= flow[p].shot
  BY <1>0, NextShotOf, FlowIsActive DEF Rows, CaptureInv, Shots
<1>2. CASE Failed(p)
  BY <1>2, FlowEnds DEF Failed, backend
<1>3. CASE ~Failed(p)
  <2> DEFINE f == [flow[p] EXCEPT !.step = "await"]
  <2>1. f.step = "await" /\ f.session = s /\ f.shot = flow[p].shot
    BY <1>1 DEF ActiveFlow
  <2>2. /\ count' = count
        /\ flow' = [flow EXCEPT ![p] = f]
        /\ upload' = [upload EXCEPT ![p] = <<s, AngleAt(flow[p].shot)>>]
    BY <1>3 DEF UploadCheck, backend
  <2> HIDE DEF f
  <2>3. /\ flow'[p] = f /\ upload'[p] = <<s, AngleAt(flow[p].shot)>>
        /\ \A q \in Phone \ {p} : flow'[q] = flow[q] /\ upload'[q] = upload[q]
    BY <2>2 DEF Rows, FlowType
  <2>4. upload'[p] # Nothing /\ upload'[p][1] = s
    BY <1>1, <2>3, AngleAtType, EnrollmentAssumption DEF Angle
  <2>5. count'[s] <= flow[p].shot /\ count'[s] < Required
    BY <1>1, <2>2 DEF Required
  <2>6. Shots(p)'
    BY <2>1, <2>3, <2>4, <2>5 DEF Shots
  <2>7. \A t \in Session : Using(p, t)' => Using(p, t)
    BY <1>0, <2>1, <2>3, <2>4 DEF Using, HasSession
  <2>8. Bounded'
    BY <2>2 DEF CaptureInv, Bounded
  <2> QED
    BY <2>2, <2>3, <2>6, <2>7, <2>8, OnePhone
<1> QED
  BY <1>2, <1>3

\* The request of p ends, with or without a capture, and its flow goes on if it
\* still waits.
LEMMA FinishedKeepsCaptures ==
  ASSUME Rows, CaptureInv, NEW p \in Phone, upload[p] # Nothing,
         Finished(p, NextShot(flow[p])) \/ Finished(p, Idle),
         \/ UNCHANGED count
         \/ \E a \in Angle : StoreCapture(upload[p][1], a)
  PROVE  CaptureInv'
<1> DEFINE s == upload[p][1]
<1>1. s \in Session /\ count[s] \in Nat /\ count[s] < Required
  BY UploadSession DEF Rows, FlowInv, BackType, CaptureInv, Shots
<1>2. /\ count'[s] <= count[s] + 1
      /\ \A t \in Session : t # s => count'[t] = count[t]
      /\ Bounded'
  <2>1. CASE UNCHANGED count
    BY <1>1, <2>1 DEF CaptureInv, Bounded
  <2>2. ASSUME NEW a \in Angle, StoreCapture(s, a)
        PROVE  /\ count'[s] <= count[s] + 1
               /\ \A t \in Session : t # s => count'[t] = count[t]
               /\ Bounded'
    BY <1>1, <2>2, OneMore DEF CaptureInv
  <2> QED
    BY <2>1, <2>2
<1>3. /\ upload'[p] = Nothing
      /\ \A q \in Phone \ {p} : flow'[q] = flow[q] /\ upload'[q] = upload[q]
      /\ IF flow[p].step = "await" THEN flow'[p] \in {Idle, NextShot(flow[p])}
                                   ELSE flow'[p] = flow[p]
  BY DEF Finished, Rows, FlowType
<1>4. Using(p, s)
  BY DEF Using
<1>5. CASE flow'[p] = Idle
  <2>1. Shots(p)' /\ \A t \in Session : Using(p, t)' => Using(p, t)
    BY <1>3, <1>5 DEF Shots, Using, HasSession, Idle
  <2> QED
    BY <1>2, <1>3, <1>4, <2>1, OnePhone
<1>6. CASE flow[p].step = "await" /\ flow'[p] = NextShot(flow[p])
  <2>1. /\ NextShot(flow[p]).session = s
        /\ NextShot(flow[p]).step \in {"capture", "complete"}
        /\ NextShot(flow[p]).shot = flow[p].shot + 1
        /\ flow[p].shot \in Nat /\ count[s] <= flow[p].shot
    BY <1>6, NextShotOf DEF CaptureInv, Shots
  <2>2. count[s] + 1 <= flow[p].shot + 1
    BY <1>1, <2>1
  <2>3. count'[s] <= flow[p].shot + 1
    <3>1. count'[s] = count[s] \/ count'[s] = count[s] + 1
      <4>1. CASE UNCHANGED count
        BY <4>1
      <4>2. ASSUME NEW a \in Angle, StoreCapture(s, a) PROVE count'[s] = count[s] + 1
        BY <1>1, <4>2, OneMore DEF CaptureInv
      <4> QED
        BY <4>1, <4>2
    <3> QED
      BY <1>1, <2>1, <3>1
  <2>4. Shots(p)' /\ \A t \in Session : Using(p, t)' => Using(p, t)
    BY <1>3, <1>4, <1>6, <2>1, <2>3 DEF Shots, Using, HasSession
  <2> QED
    BY <1>2, <1>3, <1>4, <2>4, OnePhone
<1>7. CASE flow[p].step # "await" /\ flow'[p] = flow[p]
  <2>1. flow[p].step = "capture" =>
          flow[p].session \in Session /\ count'[flow[p].session] = count[flow[p].session]
    BY <1>2, NextShotOf DEF CaptureInv, Shots
  <2>2. Shots(p)' /\ \A t \in Session : Using(p, t)' => Using(p, t)
    BY <1>3, <1>7, <2>1 DEF CaptureInv, Shots, Using, HasSession
  <2> QED
    BY <1>2, <1>3, <1>4, <2>2, OnePhone
<1> QED
  BY <1>3, <1>5, <1>6, <1>7

LEMMA BeginKeepsCaptures ==
  ASSUME Rows, CaptureInv, NEW p \in Phone, NEW k \in {"pi", "mac"}, NEW m \in Member,
         BeginFlow(p, k, m)
  PROVE  CaptureInv'
<1>1. /\ UNCHANGED <<count, upload>>
      /\ flow'[p].step = "start"
      /\ \A q \in Phone \ {p} : flow'[q] = flow[q]
  BY DEF BeginFlow, backend, Rows, FlowType
<1>2. Shots(p)' /\ \A s \in Session : Using(p, s)' => Using(p, s)
  BY <1>1 DEF CaptureInv, Shots, Using, HasSession
<1>3. Bounded'
  BY <1>1 DEF CaptureInv, Bounded
<1> QED
  BY <1>1, <1>2, <1>3, OnePhone

LEMMA RestartKeepsCaptures ==
  ASSUME Rows, CaptureInv, Restart
  PROVE  CaptureInv'
<1>1. /\ count' = count
      /\ \A q \in Phone : /\ upload'[q] = Nothing
                          /\ flow'[q] = IF flow[q].step = "await" THEN Idle ELSE flow[q]
  BY DEF Restart, backend
<1>2. \A q \in Phone : Shots(q)' /\ \A s \in Session : Using(q, s)' => Using(q, s)
  BY <1>1 DEF CaptureInv, Shots, Using, HasSession, Idle
<1> QED
  BY <1>1, <1>2 DEF CaptureInv, Exclusive, Bounded

LEMMA CaptureStep == Rows /\ CaptureInv /\ [FaultNext]_vars => CaptureInv'
<1> SUFFICES ASSUME Rows, CaptureInv, [FaultNext]_vars PROVE CaptureInv'
  OBVIOUS
<1>1. CASE UNCHANGED <<count, flow, upload>>
  BY <1>1, NothingMoves
<1>2. ASSUME NEW p \in Phone, UploadStore(p) PROVE CaptureInv'
  BY <1>2, UploadSession, FinishedKeepsCaptures DEF UploadStore, backend, Rows, FlowInv
<1>3. ASSUME NEW p \in Phone, CutStore(p) PROVE CaptureInv'
  BY <1>3, FlowEnds, FinishedKeepsCaptures DEF CutStore
<1>4. ASSUME NEW p \in Phone,
             CompleteOk(p) \/ CompleteRefused(p) \/ GiveUp(p) \/ CutComplete(p)
      PROVE  CaptureInv'
  BY <1>4, FlowEnds DEF CompleteOk, CompleteSession, CompleteRefused, GiveUp, Failed,
     CutComplete, backend
<1>5. ASSUME NEW p \in Phone, PhoneStep(p) PROVE CaptureInv'
  BY <1>2, <1>4, <1>5, StartKeepsCaptures, PiCaptureKeepsCaptures, UploadCheckKeepsCaptures
     DEF PhoneStep
<1>6. CASE Managed \/ UNCHANGED vars
  BY <1>1, <1>6 DEF Managed, AddMember, RemoveMember, RemoveTemplate, CutRemove,
     CancelSession, vars, backend
<1> QED
  BY <1>3, <1>4, <1>5, <1>6, BeginKeepsCaptures, RestartKeepsCaptures
     DEF FaultNext, Next, Managed

LEMMA CaptureAlways == FaultSpec => []CaptureInv
<1>1. Init => CaptureInv
  BY DEF Init, CaptureInv, Exclusive, Bounded, Shots, Using, HasSession, Idle, Required
<1> QED
  BY <1>1, RowsAlways, CaptureStep, PTL DEF FaultSpec

\* The variables keep their types; above all, no session gets more than three
\* captures, although capture-b64 stores without looking at the count again.
THEOREM EnrollmentTypeCorrect == FaultSpec => []TypeOK
<1>1. Rows /\ CaptureInv => TypeOK
  <2> SUFFICES ASSUME Rows, CaptureInv PROVE TypeOK
    OBVIOUS
  <2>1. \A s \in Session : count[s] \in 0..Required
    BY DEF Rows, BackType, CaptureInv, Bounded, Required
  <2>2. count \in [Session -> 0..Required]
    BY <2>1 DEF Rows, BackType
  <2> QED
    BY <2>2 DEF Rows, BackType, FlowType, TypeOK
<1> QED
  BY <1>1, RowsAlways, CaptureAlways, PTL

-----------------------------------------------------------------------------
(* The door-camera flow: its session holds the angles of the shots it has   *)
(* behind it, because "no face" repeats the shot and only a deletion of the *)
(* member's encodings takes an angle away.                                  *)

\* Deletions are on record, and nothing else makes a session lose an angle.
Retained ==
  /\ cleared \subseteq cleared'
  /\ \A s \in Session \ cleared' : faces[s] \subseteq faces'[s]

LEMMA StepRetains == Rows /\ [FaultNext]_vars => Retained
<1> SUFFICES ASSUME BackType, UNCHANGED backend \/ Captured \/ Completed \/ Created \/ Managed
             PROVE  Retained
  BY StepOnTables DEF Rows
<1> USE DEF Retained, BackType
<1>1. CASE UNCHANGED <<faces, cleared>>
  BY <1>1
<1>2. CASE Captured
  BY <1>2 DEF Captured, StoreCapture, StoreFaces
<1>3. ASSUME NEW m \in Member, DeleteFaces(m) PROVE Retained
  BY <1>3 DEF DeleteFaces, SessionsOf
<1> QED
  BY <1>1, <1>2, <1>3 DEF backend, Completed, Created, Managed, CompleteSession, CutStatus,
     CreateSession, AddMember, RemoveMember, RemoveTemplate, CutRemove, CancelSession

ByDoorCamera(p) == flow[p].step # "idle" /\ flow[p].kind = "pi"

\* The angles of the shots before the i-th are stored through the session, or
\* somebody deleted the member's encodings.
Stored(s, i) == s \in cleared \/ \A j \in 0..(Required - 1) : j < i => AngleAt(j) \in faces[s]

PiShots(p) ==
  ByDoorCamera(p) =>
    /\ flow[p].step # "await"
    /\ flow[p].step = "start" => flow[p].shot = 0
    /\ flow[p].step = "complete" => flow[p].shot = Required
    /\ HasSession(p) => Stored(flow[p].session, flow[p].shot)

PiInv == \A p \in Phone : PiShots(p)

LEMMA StoredStays ==
  ASSUME Retained, NEW s \in Session, NEW i, Stored(s, i)
  PROVE  Stored(s, i)'
  BY DEF Retained, Stored

\* A flow that does not move keeps what it has.
LEMMA PiFlowWaits ==
  ASSUME Rows, Retained, NEW p \in Phone, PiShots(p), flow'[p] = flow[p]
  PROVE  PiShots(p)'
<1>1. HasSession(p) => flow[p].session \in Session
  BY DEF Rows, RefersInv
<1> QED
  BY <1>1, StoredStays DEF PiShots, ByDoorCamera, HasSession

LEMMA NoPiFlow ==
  ASSUME NEW p \in Phone, flow'[p] = Idle \/ flow'[p].kind = "mac"
  PROVE  PiShots(p)'
  BY DEF PiShots, ByDoorCamera, Idle

\* The kind of a flow that takes a shot is kept.
LEMMA NextShotKind ==
  ASSUME NEW f \in ActiveFlow
  PROVE  NextShot(f).kind = f.kind /\ (NextShot(f).step = "complete" => f.shot + 1 = Required)
  BY DEF NextShot, ActiveFlow

LEMMA StartShots ==
  ASSUME Rows, Retained, NEW p \in Phone, PiShots(p), StartEnrollment(p)
  PROVE  PiShots(p)'
<1>1. flow[p] \in ActiveFlow
  BY FlowIsActive DEF StartEnrollment, Rows
<1>2. CASE flow' = [flow EXCEPT ![p] = Idle]
  BY <1>2, NoPiFlow DEF Rows, FlowType
<1>3. ASSUME NEW s \in Session,
             flow' = [flow EXCEPT ![p] = [flow[p] EXCEPT !.step = "capture", !.session = s]]
      PROVE  PiShots(p)'
  <2> DEFINE g == [flow[p] EXCEPT !.step = "capture"]
             f == [g EXCEPT !.session = s]
  <2>1. [flow[p] EXCEPT !.step = "capture", !.session = s] = f
    OBVIOUS
  <2>2. g \in ActiveFlow /\ g.step = "capture" /\ g.shot = flow[p].shot /\ g.kind = flow[p].kind
    BY <1>1 DEF ActiveFlow
  <2> HIDE DEF g
  <2>3. /\ f.step = "capture" /\ f.session = s
        /\ f.shot = flow[p].shot /\ f.kind = flow[p].kind
    BY <2>2 DEF ActiveFlow
  <2> HIDE DEF f
  <2>4. flow'[p] = f
    BY <1>3, <2>1 DEF Rows, FlowType
  <2>5. flow[p].kind = "pi" => flow[p].shot = 0
    BY DEF PiShots, ByDoorCamera, StartEnrollment
  <2>6. Stored(s, 0)'
    BY DEF Stored, Required
  <2> QED
    BY <2>3, <2>4, <2>5, <2>6 DEF PiShots, ByDoorCamera, HasSession
<1> QED
  BY <1>2, <1>3 DEF StartEnrollment, Failed, Answered

LEMMA PiCaptureShots ==
  ASSUME Rows, Retained, NEW p \in Phone, PiShots(p), PiCapture(p)
  PROVE  PiShots(p)'
<1>1. flow[p].step = "capture" /\ flow[p].kind = "pi" /\ HasSession(p)
  BY DEF PiCapture, HasSession
<1>2. flow[p] \in ActiveFlow
  BY <1>1, FlowIsActive DEF Rows
<1>3. PICK s \in Session, i \in Nat : flow[p].session = s /\ flow[p].shot = i
  BY <1>1, NextShotOf
<1>4. Stored(s, i)
  BY <1>1, <1>3 DEF PiShots, ByDoorCamera
<1>5. CASE StoreCapture(s, AngleAt(i)) /\ flow' = [flow EXCEPT ![p] = NextShot(flow[p])]
  <2>1. flow'[p] = NextShot(flow[p])
    BY <1>5 DEF Rows, FlowType
  <2>2. /\ flow'[p].session = s /\ flow'[p].shot = i + 1
        /\ flow'[p].step \in {"capture", "complete"}
    BY <1>1, <1>3, <2>1, NextShotOf
  <2>3. flow'[p].step = "complete" => i + 1 = Required
    BY <1>2, <1>3, <2>1, NextShotKind
  <2>4. faces'[s] = faces[s] \union {AngleAt(i)} /\ cleared' = cleared
    BY <1>5 DEF StoreCapture, Rows, BackType
  <2>5. \A j \in 0..(Required - 1) : j < i + 1 => j < i \/ j = i
    BY DEF Required
  <2>6. Stored(s, i + 1)'
    BY <1>4, <2>4, <2>5 DEF Stored
  <2> QED
    BY <2>2, <2>3, <2>6 DEF PiShots, ByDoorCamera, HasSession
<1>6. CASE flow' = [flow EXCEPT ![p] = Idle]
  BY <1>6, NoPiFlow DEF Rows, FlowType
<1>7. CASE flow' = [flow EXCEPT ![p] = flow[p]]
  BY <1>7, PiFlowWaits DEF Rows, FlowType
<1> QED
  BY <1>3, <1>5, <1>6, <1>7 DEF PiCapture, Failed, Answered

\* The upload of a MacBook flow, or of a flow that is over.
LEMMA UploadShots ==
  ASSUME Rows, Retained, NEW p \in Phone, PiShots(p), UploadCheck(p) \/ UploadStore(p) \/ CutStore(p)
  PROVE  PiShots(p)'
<1>1. CASE flow'[p] \in {flow[p], Idle}
  BY <1>1, PiFlowWaits, NoPiFlow
<1>2. CASE flow[p].step = "await" /\ flow'[p] = NextShot(flow[p])
  <2>1. flow[p] \in ActiveFlow
    BY <1>2, FlowIsActive DEF Rows
  <2>2. flow[p].kind = "mac"
    BY <1>2, <2>1 DEF PiShots, ByDoorCamera, ActiveFlow
  <2> QED
    BY <1>2, <2>1, <2>2, NextShotKind, NoPiFlow
<1>3. CASE flow[p].step = "capture" /\ flow[p].kind = "mac" /\ flow' = [flow EXCEPT ![p].step = "await"]
  <2> DEFINE f == [flow[p] EXCEPT !.step = "await"]
  <2>1. flow[p] \in ActiveFlow
    BY <1>3, FlowIsActive DEF Rows
  <2>2. f.kind = "mac"
    BY <1>3, <2>1 DEF ActiveFlow
  <2>3. flow'[p] = f
    BY <1>3 DEF Rows, FlowType
  <2> HIDE DEF f
  <2> QED
    BY <2>2, <2>3, NoPiFlow
<1> QED
  BY <1>1, <1>2, <1>3 DEF UploadCheck, UploadStore, CutStore, Finished, Failed, Rows, FlowType

\* Every other step starts p's flow, ends it, or leaves it alone.
LEMMA OtherShots ==
  ASSUME Rows, Retained, NEW p \in Phone, PiShots(p), NEW q \in Phone,
         \/ \E k \in {"pi", "mac"}, m \in Member : BeginFlow(q, k, m)
         \/ CompleteOk(q) \/ CompleteRefused(q) \/ GiveUp(q) \/ CutComplete(q)
         \/ q # p /\ (PhoneStep(q) \/ CutStore(q))
  PROVE  PiShots(p)'
<1>1. CASE flow'[p] \in {flow[p], Idle}
  BY <1>1, PiFlowWaits, NoPiFlow
<1>2. CASE q = p /\ \E k \in {"pi", "mac"}, m \in Member : BeginFlow(q, k, m)
  <2>1. flow'[p].step = "start" /\ flow'[p].shot = 0
    BY <1>2 DEF BeginFlow, Rows, FlowType
  <2> QED
    BY <2>1 DEF PiShots, HasSession
<1> QED
  BY <1>1, <1>2 DEF BeginFlow, CompleteOk, CompleteRefused, GiveUp, Failed, CutComplete,
     PhoneStep, StartEnrollment, PiCapture, UploadCheck, UploadStore, CutStore, Answered,
     Finished, Rows, FlowType

LEMMA PiStep == Rows /\ PiInv /\ [FaultNext]_vars => PiInv'
<1> SUFFICES ASSUME Rows, [FaultNext]_vars, NEW p \in Phone, PiShots(p) PROVE PiShots(p)'
  BY DEF PiInv
<1> Retained
  BY StepRetains
<1>1. CASE flow'[p] \in {flow[p], Idle}
  BY <1>1, PiFlowWaits, NoPiFlow
<1>2. CASE PhoneStep(p) \/ CutStore(p)
  BY <1>2, StartShots, PiCaptureShots, UploadShots, OtherShots DEF PhoneStep
<1>3. ASSUME NEW q \in Phone \ {p}, PhoneStep(q) \/ CutStore(q) PROVE PiShots(p)'
  BY <1>3, OtherShots
<1>4. ASSUME NEW q \in Phone,
             \/ \E k \in {"pi", "mac"}, m \in Member : BeginFlow(q, k, m)
             \/ GiveUp(q) \/ CutComplete(q)
      PROVE  PiShots(p)'
  BY <1>4, OtherShots
<1>5. CASE Managed \/ UNCHANGED vars
  BY <1>1, <1>5 DEF Managed, AddMember, RemoveMember, RemoveTemplate, CutRemove, CancelSession, vars
<1>6. CASE Restart
  BY <1>1, <1>6 DEF Restart
<1> QED
  BY <1>2, <1>3, <1>4, <1>5, <1>6 DEF FaultNext, Next, Managed

LEMMA PiAlways == FaultSpec => []PiInv
<1>1. Init => PiInv
  BY DEF Init, PiInv, PiShots, ByDoorCamera, Idle
<1> QED
  BY <1>1, RowsAlways, PiStep, PTL DEF FaultSpec

\* All three angles are stored when the flow comes to its end.
LEMMA AllStored == ASSUME NEW s, Stored(s, Required), s \notin cleared PROVE Angle \subseteq faces[s]
<1>1. AngleAt(0) \in faces[s] /\ AngleAt(1) \in faces[s] /\ AngleAt(2) \in faces[s]
  BY DEF Stored, Required
<1> QED
  BY <1>1 DEF AngleAt, Angle

LEMMA PiFlowIsComplete ==
  ASSUME Rows, PiInv, NEW p \in Phone, CompleteOk(p), flow[p].kind = "pi"
  PROVE  faces[flow[p].session] = Angle \/ flow[p].session \in cleared
<1>1. PICK s \in Session : flow[p].session = s
  BY AcceptsSession DEF CompleteOk, HasSession, Rows, FlowInv
<1>2. Stored(s, Required)
  BY <1>1 DEF PiInv, PiShots, ByDoorCamera, CompleteOk, HasSession
<1>3. faces[s] \subseteq Angle
  BY DEF Rows, BackType
<1> QED
  BY <1>1, <1>2, <1>3, AllStored

\* A door-camera flow completes only a session that holds all three angles, unless
\* the member's encodings were deleted meanwhile: also with other phones enrolling
\* the same member, with lost answers and with stores cut in two.
THEOREM PiFlowCompleteAlways == FaultSpec => PiFlowComplete
<1>1. Rows /\ PiInv /\ [FaultNext]_vars =>
        [\A p \in Phone : CompleteOk(p) /\ flow[p].kind = "pi" =>
           faces[flow[p].session] = Angle \/ flow[p].session \in cleared]_vars
  BY PiFlowIsComplete
<1> QED
  BY <1>1, RowsAlways, PiAlways, PTL DEF FaultSpec, PiFlowComplete

-----------------------------------------------------------------------------
(* Enrolled members.                                                        *)

NoMacFlow == \A p \in Phone : flow[p] = Idle \/ flow[p].kind = "pi"

\* A session keeps its member, so a member loses no session.
LEMMA SessionsStay ==
  ASSUME Rows, [FaultNext]_vars, NEW m \in Member
  PROVE  SessionsOf(m) \subseteq SessionsOf(m)'
<1>1. \A s \in Session : owner[s] \in Member => owner'[s] = owner[s]
  <2> SUFFICES ASSUME BackInv, UNCHANGED backend \/ Captured \/ Completed \/ Created \/ Managed
               PROVE  \A s \in Session : owner[s] \in Member => owner'[s] = owner[s]
    BY StepOnTables DEF Rows, BackInv
  <2>1. CASE Created
    BY <2>1, EnrollmentAssumption DEF Created, CreateSession, BackInv, BackType, UnusedInv
  <2> QED
    BY <2>1 DEF backend, Captured, Completed, Managed, StoreCapture, StoreFaces,
       CompleteSession, CutStatus, AddMember, RemoveMember, RemoveTemplate, CutRemove,
       CancelSession
<1> QED
  BY <1>1 DEF SessionsOf

\* A member becomes enrolled at the end of a flow only.
LEMMA EnrolledByFlow ==
  ASSUME Rows, [FaultNext]_vars, NEW m \in Member, enrolled'[m]
  PROVE  \/ enrolled[m]
         \/ \E p \in Phone : CompleteOk(p) /\ flow[p].of = m /\ faces' = faces
<1>1. CASE UNCHANGED enrolled
  BY <1>1
<1>2. ASSUME NEW n \in Member, RemoveMember(n) \/ RemoveTemplate(n) PROVE enrolled[m]
  BY <1>2 DEF RemoveMember, RemoveTemplate, Rows, BackType
<1>3. ASSUME NEW p \in Phone, CompleteOk(p)
      PROVE  enrolled[m] \/ (CompleteOk(p) /\ flow[p].of = m /\ faces' = faces)
  BY <1>3 DEF CompleteOk, CompleteSession, Rows, BackType
<1>4. ASSUME NEW p \in Phone, PhoneStep(p) \/ CutStore(p) \/ CutComplete(p) \/ GiveUp(p)
      PROVE  UNCHANGED enrolled \/ CompleteOk(p)
  BY <1>4 DEF PhoneStep, backend, GiveUp, Failed, StartEnrollment, CreateSession, PiCapture,
     StoreCapture, UploadCheck, UploadStore, CompleteRefused, CutStore, CutComplete
<1>5. CASE \/ \E m1 \in Member : AddMember(m1) \/ CutRemove(m1)
           \/ \E s \in Session : CancelSession(s)
           \/ \E p \in Phone, k \in {"pi", "mac"}, m1 \in Member : BeginFlow(p, k, m1)
           \/ Restart \/ UNCHANGED vars
  BY <1>1, <1>5 DEF AddMember, CutRemove, CancelSession, BeginFlow, Restart, vars, backend
<1> QED
  BY <1>1, <1>2, <1>3, <1>4, <1>5 DEF FaultNext, Next

LEMMA EnrolledStep ==
  Rows /\ PiInv /\ NoMacFlow /\ EnrolledHasAllAngles /\ [FaultNext]_vars => EnrolledHasAllAngles'
<1> SUFFICES ASSUME Rows, PiInv, NoMacFlow, EnrolledHasAllAngles, [FaultNext]_vars,
                    NEW m \in Member, enrolled'[m], (SessionsOf(m) \cap cleared = {})'
             PROVE  (\E s \in SessionsOf(m) : faces[s] = Angle)'
  BY DEF EnrolledHasAllAngles
<1>1. SessionsOf(m) \subseteq SessionsOf(m)' /\ SessionsOf(m)' \subseteq Session
  BY SessionsStay DEF SessionsOf
<1>2. Retained
  BY StepRetains
<1>3. SessionsOf(m) \cap cleared = {}
  BY <1>1, <1>2 DEF Retained
<1>4. CASE enrolled[m]
  <2>1. PICK s \in SessionsOf(m) : faces[s] = Angle
    BY <1>3, <1>4 DEF EnrolledHasAllAngles
  <2>2. s \in SessionsOf(m)' /\ s \in Session \ cleared'
    BY <1>1, <2>1
  <2>3. faces[s] \subseteq faces'[s] /\ faces'[s] \subseteq Angle
    BY <1>2, <2>2, RowsStep DEF Retained, Rows, BackType
  <2>4. faces'[s] = Angle
    BY <2>1, <2>3, Zenon
  <2> QED
    BY <2>2, <2>4, Zenon
<1>5. ASSUME NEW p \in Phone, CompleteOk(p), flow[p].of = m, faces' = faces
      PROVE  (\E s \in SessionsOf(m) : faces[s] = Angle)'
  <2>1. PICK s \in Session : flow[p].session = s
    BY <1>5, AcceptsSession DEF CompleteOk, HasSession, Rows, FlowInv
  <2>2. s \in SessionsOf(m)
    BY <1>5, <2>1 DEF CompleteOk, IsSession, SessionsOf
  <2>3. flow[p].kind = "pi"
    BY <1>5 DEF NoMacFlow, CompleteOk, Idle
  <2>4. faces[s] = Angle
    BY <1>3, <1>5, <2>1, <2>2, <2>3, PiFlowIsComplete
  <2> QED
    BY <1>1, <1>5, <2>2, <2>4
<1> QED
  BY <1>4, <1>5, EnrolledByFlow

\* Where members are enrolled with the door camera only, an enrolled member has
\* all three angles, as config.py promises: what the run enrollment_angles finds is
\* due to the MacBook flow alone.
THEOREM DoorCameraEnrollsAllAngles == FaultSpec /\ []NoMacFlow => []EnrolledHasAllAngles
<1>1. Init => EnrolledHasAllAngles
  BY DEF Init, EnrolledHasAllAngles
<1> QED
  BY <1>1, RowsAlways, PiAlways, EnrolledStep, PTL DEF FaultSpec

-----------------------------------------------------------------------------
(* MacFlowEnds, as far as it is safety.                                     *)

InMacFlow(p) == flow[p] # Idle /\ flow[p].kind = "mac"

\* How far the MacBook flow of p has come, and then whether a request of the
\* phone is still in the back end: that of an earlier flow may be.
MacRank(p) ==
  2 * (CASE flow[p].step = "start" -> 0
         [] flow[p].step = "await" -> 2 + 2 * flow[p].shot
         [] OTHER                  -> 1 + 2 * flow[p].shot)
  + (IF upload[p] = Nothing THEN 1 ELSE 0)

MacEnd == 3 + 4 * Required

\* No step of anybody, a fault or a removal included, takes a MacBook flow back;
\* a step of its own phone brings it on or ends it.
MacFlowsAdvance ==
  \A p \in Phone : InMacFlow(p) =>
    \/ flow'[p] = Idle
    \/ /\ InMacFlow(p)'
       /\ \/ MacRank(p)' > MacRank(p)
          \/ MacRank(p)' = MacRank(p) /\ ~PhoneStep(p)

\* A flow that waits for an answer has a request that will be answered.
AwaitsUpload == \A p \in Phone : flow[p].step = "await" => upload[p] # Nothing

LEMMA MacRankBound ==
  ASSUME Rows, NEW p \in Phone, InMacFlow(p)
  PROVE  MacRank(p) \in 0..MacEnd
<1>1. flow[p] \in ActiveFlow
  BY DEF InMacFlow, Rows, FlowType, Flow
<1>2. flow[p].shot \in 0..3
  BY <1>1 DEF ActiveFlow, Required
<1>3. flow[p].step = "await" => flow[p].shot < 3
  BY DEF Rows, ShotInv, Required
<1> QED
  BY <1>2, <1>3 DEF MacRank, MacEnd, Required

\* A flow that is left alone comes no less far, and further if its phone's old
\* request ends.
LEMMA SameFlow ==
  ASSUME Rows, NEW p \in Phone, InMacFlow(p), flow'[p] = flow[p], upload'[p] \in {upload[p], Nothing}
  PROVE  IF upload'[p] = upload[p] THEN MacRank(p)' = MacRank(p) ELSE MacRank(p)' > MacRank(p)
<1>1. flow[p] \in ActiveFlow
  BY DEF InMacFlow, Rows, FlowType, Flow
<1>2. flow[p].shot \in 0..3
  BY <1>1 DEF ActiveFlow, Required
<1> QED
  BY <1>2 DEF MacRank

\* What takes a flow from one step to the next.
LEMMA FlowGoesOn ==
  ASSUME Rows, NEW p \in Phone, InMacFlow(p),
         \/ flow[p].step = "start" /\ flow'[p].step = "capture" /\ flow'[p].shot = flow[p].shot
         \/ flow[p].step = "capture" /\ flow'[p].step = "await" /\ flow'[p].shot = flow[p].shot
         \/ /\ flow[p].step = "await" /\ flow'[p].step \in {"capture", "complete"}
            /\ flow'[p].shot = flow[p].shot + 1
  PROVE  MacRank(p)' > MacRank(p)
<1>1. flow[p] \in ActiveFlow
  BY DEF InMacFlow, Rows, FlowType, Flow
<1>2. flow[p].shot \in 0..3
  BY <1>1 DEF ActiveFlow, Required
<1> QED
  BY <1>2 DEF MacRank

LEMMA OwnStepAdvances ==
  ASSUME Rows, NEW p \in Phone, InMacFlow(p), PhoneStep(p)
  PROVE  flow'[p] = Idle \/ MacRank(p)' > MacRank(p)
<1>1. flow[p] \in ActiveFlow
  BY DEF InMacFlow, Rows, FlowType, Flow
<1>2. CASE StartEnrollment(p)
  <2>1. CASE flow'[p] = Idle
    BY <2>1
  <2>2. CASE flow'[p] # Idle
    <3>1. PICK s \in Session : flow'[p] = [flow[p] EXCEPT !.step = "capture", !.session = s]
      BY <1>2, <2>2 DEF StartEnrollment, Failed, Answered, Rows, FlowType
    <3>2. flow'[p].step = "capture" /\ flow'[p].shot = flow[p].shot
      BY <1>1, <3>1 DEF ActiveFlow
    <3> QED
      BY <1>2, <3>2, FlowGoesOn DEF StartEnrollment
  <2> QED
    BY <2>1, <2>2
<1>3. CASE UploadCheck(p)
  <2>1. CASE flow'[p] = Idle
    BY <2>1
  <2>2. CASE flow'[p] # Idle
    <3>1. flow'[p] = [flow[p] EXCEPT !.step = "await"]
      BY <1>3, <2>2 DEF UploadCheck, Failed, Rows, FlowType
    <3>2. flow'[p].step = "await" /\ flow'[p].shot = flow[p].shot
      BY <1>1, <3>1 DEF ActiveFlow
    <3> QED
      BY <1>3, <3>2, FlowGoesOn DEF UploadCheck
  <2> QED
    BY <2>1, <2>2
<1>4. CASE UploadStore(p)
  <2>1. CASE flow[p].step = "await"
    <3>1. flow'[p] \in {Idle, NextShot(flow[p])}
      BY <1>4, <2>1 DEF UploadStore, Finished, Rows, FlowType
    <3>2. /\ NextShot(flow[p]).step \in {"capture", "complete"}
          /\ NextShot(flow[p]).shot = flow[p].shot + 1
      BY <2>1, NextShotOf
    <3> QED
      BY <2>1, <3>1, <3>2, FlowGoesOn
  <2>2. CASE flow[p].step # "await"
    <3>1. upload[p] # Nothing /\ upload'[p] = Nothing /\ flow' = flow
      BY <1>4, <2>2 DEF UploadStore, Finished, Rows, FlowType
    <3> QED
      BY <3>1, SameFlow
  <2> QED
    BY <2>1, <2>2
<1>5. ~PiCapture(p)
  BY DEF PiCapture, InMacFlow
<1>6. CASE CompleteOk(p) \/ CompleteRefused(p)
  BY <1>6 DEF CompleteOk, CompleteRefused, Failed, Rows, FlowType
<1> QED
  BY <1>2, <1>3, <1>4, <1>5, <1>6 DEF PhoneStep

LEMMA MacFlowStays ==
  ASSUME Rows, NEW p \in Phone, InMacFlow(p), PhoneStep(p), flow'[p] # Idle
  PROVE  InMacFlow(p)'
<1>1. flow[p] \in ActiveFlow /\ flow[p].kind = "mac"
  BY DEF InMacFlow, Rows, FlowType, Flow
<1>2. CASE StartEnrollment(p)
  <2>1. PICK s \in Session : flow'[p] = [flow[p] EXCEPT !.step = "capture", !.session = s]
    BY <1>2 DEF StartEnrollment, Failed, Answered, Rows, FlowType
  <2> QED
    BY <1>1, <2>1 DEF InMacFlow, ActiveFlow
<1>3. CASE UploadCheck(p)
  <2>1. flow'[p] = [flow[p] EXCEPT !.step = "await"]
    BY <1>3 DEF UploadCheck, Failed, Rows, FlowType
  <2> QED
    BY <1>1, <2>1 DEF InMacFlow, ActiveFlow
<1>4. CASE UploadStore(p)
  <2>1. flow'[p] \in {flow[p], NextShot(flow[p])}
    BY <1>4 DEF UploadStore, Finished, Rows, FlowType
  <2> QED
    BY <1>1, <2>1, NextShotKind DEF InMacFlow
<1> QED
  BY <1>2, <1>3, <1>4 DEF PhoneStep, PiCapture, CompleteOk, CompleteRefused, Failed, InMacFlow,
     Rows, FlowType

\* Whatever is not a step of p's own ends its flow, or leaves it alone.
LEMMA OtherStepsKeep ==
  ASSUME Rows, NEW p \in Phone, InMacFlow(p), [FaultNext]_vars, ~PhoneStep(p)
  PROVE  flow'[p] = Idle \/ (flow'[p] = flow[p] /\ upload'[p] \in {upload[p], Nothing})
<1>1. CASE Managed \/ UNCHANGED vars
  BY <1>1 DEF Managed, AddMember, RemoveMember, RemoveTemplate, CutRemove, CancelSession, vars
<1>2. CASE Restart
  BY <1>2 DEF Restart
<1>3. ASSUME NEW q \in Phone \ {p}, PhoneStep(q) \/ CutStore(q)
      PROVE  flow'[p] = flow[p] /\ upload'[p] = upload[p]
  BY <1>3 DEF PhoneStep, StartEnrollment, PiCapture, UploadCheck, UploadStore, CompleteOk,
     CompleteRefused, CutStore, Answered, Finished, Failed, Rows, FlowType
<1>4. CASE CutStore(p)
  BY <1>4 DEF CutStore, Finished, Rows, FlowType
<1>5. ASSUME NEW q \in Phone,
             \/ \E k \in {"pi", "mac"}, m \in Member : BeginFlow(q, k, m)
             \/ GiveUp(q) \/ CutComplete(q)
      PROVE  flow'[p] \in {flow[p], Idle} /\ upload' = upload
  BY <1>5 DEF BeginFlow, GiveUp, CutComplete, Failed, InMacFlow, Rows, FlowType
<1> QED
  BY <1>1, <1>2, <1>3, <1>4, <1>5 DEF FaultNext, Next, Managed

\* MacFlowEnds up to fairness: every step of a MacBook flow ends it or brings it
\* nearer to its end, at most MacEnd steps away, no fault and no other phone takes
\* it back, and what it waits for is in the back end.  The door-camera flow has
\* no such bound: on "no face" it takes the same shot again.
THEOREM MacFlowEndsByAdvancing ==
  FaultSpec =>
    /\ [][MacFlowsAdvance]_vars
    /\ [](\A p \in Phone : InMacFlow(p) => MacRank(p) \in 0..MacEnd)
    /\ []AwaitsUpload
<1>1. Rows => \A p \in Phone : InMacFlow(p) => MacRank(p) \in 0..MacEnd
  BY MacRankBound
<1>2. Rows /\ [FaultNext]_vars => [MacFlowsAdvance]_vars
  <2> SUFFICES ASSUME Rows, [FaultNext]_vars, NEW p \in Phone, InMacFlow(p), flow'[p] # Idle
               PROVE  /\ InMacFlow(p)'
                      /\ \/ MacRank(p)' > MacRank(p)
                         \/ MacRank(p)' = MacRank(p) /\ ~PhoneStep(p)
    BY DEF MacFlowsAdvance
  <2>1. CASE PhoneStep(p)
    BY <2>1, OwnStepAdvances, MacFlowStays
  <2>2. CASE ~PhoneStep(p)
    <3>1. flow'[p] = flow[p] /\ upload'[p] \in {upload[p], Nothing}
      BY <2>2, OtherStepsKeep
    <3>2. InMacFlow(p)'
      BY <3>1 DEF InMacFlow
    <3> QED
      BY <2>2, <3>1, <3>2, SameFlow
  <2> QED
    BY <2>1, <2>2
<1>3. CaptureInv => AwaitsUpload
  BY DEF CaptureInv, Shots, AwaitsUpload
<1> QED
  BY <1>1, <1>2, <1>3, RowsAlways, CaptureAlways, PTL DEF FaultSpec

-----------------------------------------------------------------------------
(* MacFlowEnds itself.  The bounded rank takes the place of an induction.   *)

\* The app goes on with a MacBook flow, and the back end with its requests.
FairFlow(p) == []<>~InMacFlow(p) \/ []<><<PhoneStep(p)>>_vars

FairFlows == \A p \in Phone : FairFlow(p)

MacAtLeast(p, r) == InMacFlow(p) /\ MacRank(p) >= r

\* The next step is the flow's end or a higher rank.
LEMMA MacFlowMoves ==
  ASSUME NEW p \in Phone
  PROVE  Rows /\ Rows' /\ [MacFlowsAdvance]_vars /\ InMacFlow(p) /\ InMacFlow(p)'
         => /\ MacRank(p) \in 0..MacEnd /\ MacRank(p)' \in 0..MacEnd
            /\ MacRank(p)' > MacRank(p) \/ (MacRank(p)' = MacRank(p) /\ [~PhoneStep(p)]_vars)
<1>1. Rows /\ InMacFlow(p) => MacRank(p) \in 0..MacEnd
  BY MacRankBound
<1>2. (Rows /\ InMacFlow(p) => MacRank(p) \in 0..MacEnd)'
  BY <1>1, PTL
<1>3. UNCHANGED vars => MacRank(p)' = MacRank(p)
  BY DEF vars, MacRank
<1>4. MacFlowsAdvance /\ InMacFlow(p) /\ InMacFlow(p)'
      => MacRank(p)' > MacRank(p) \/ (MacRank(p)' = MacRank(p) /\ ~PhoneStep(p))
  BY DEF MacFlowsAdvance, InMacFlow
<1> QED
  BY <1>1, <1>2, <1>3, <1>4

LEMMA MacFlowClimbs ==
  ASSUME NEW p \in Phone, NEW r \in 0..MacEnd, NEW s, s = r + 4
  PROVE  []Rows /\ [][MacFlowsAdvance]_vars /\ []InMacFlow(p)
            /\ ([]<>~InMacFlow(p) \/ []<><<PhoneStep(p)>>_vars)
         => (MacAtLeast(p, r) => <>MacAtLeast(p, s))
<1> DEFINE In == InMacFlow(p)
<1> DEFINE Own == PhoneStep(p)
<1> DEFINE At0 == In /\ MacRank(p) = r
<1> DEFINE At1 == In /\ MacRank(p) = r + 1
<1> DEFINE At2 == In /\ MacRank(p) = r + 2
<1> DEFINE At3 == In /\ MacRank(p) = r + 3
<1> DEFINE Low == MacAtLeast(p, r)
<1> DEFINE High == MacAtLeast(p, s)
<1>1. Rows => (Low <=> At0 \/ At1 \/ At2 \/ At3 \/ High)
  BY MacRankBound DEF MacAtLeast, MacEnd, Required
<1>2. Rows /\ Rows' /\ [MacFlowsAdvance]_vars /\ In /\ In'
      => /\ At0 => (At0' /\ [~Own]_vars) \/ At1' \/ At2' \/ At3' \/ High'
         /\ At1 => (At1' /\ [~Own]_vars) \/ At2' \/ At3' \/ High'
         /\ At2 => (At2' /\ [~Own]_vars) \/ At3' \/ High'
         /\ At3 => (At3' /\ [~Own]_vars) \/ High'
  <2> SUFFICES ASSUME Rows, Rows', [MacFlowsAdvance]_vars, In, In'
               PROVE  /\ At0 => (At0' /\ [~Own]_vars) \/ At1' \/ At2' \/ At3' \/ High'
                      /\ At1 => (At1' /\ [~Own]_vars) \/ At2' \/ At3' \/ High'
                      /\ At2 => (At2' /\ [~Own]_vars) \/ At3' \/ High'
                      /\ At3 => (At3' /\ [~Own]_vars) \/ High'
    OBVIOUS
  <2>1. MacRank(p) \in 0..MacEnd /\ MacRank(p)' \in 0..MacEnd
    BY MacFlowMoves
  <2>2. CASE MacRank(p)' = MacRank(p) /\ [~Own]_vars
    BY <2>2
  <2>3. CASE MacRank(p)' > MacRank(p)
    <3>1. \/ MacRank(p)' = r + 1 \/ MacRank(p)' = r + 2 \/ MacRank(p)' = r + 3
          \/ MacRank(p)' >= s \/ MacRank(p)' <= r
      BY <2>1 DEF MacEnd, Required
    <3>2. High' <=> MacRank(p)' >= s
      BY DEF MacAtLeast
    <3> QED
      BY <2>1, <2>3, <3>1, <3>2 DEF MacEnd, Required
  <2> QED
    BY <2>2, <2>3, MacFlowMoves
<1>3. []Rows /\ [][MacFlowsAdvance]_vars /\ []In /\ ([]<>~In \/ []<><<Own>>_vars) /\ Low => <>High
  <2> HIDE DEF In, Own, At0, At1, At2, At3, Low, High
  <2> QED
    BY <1>1, <1>2, PTL
<1> QED
  BY <1>3

\* No MacBook flow goes on for ever.
LEMMA MacFlowClimbsOut ==
  ASSUME NEW p \in Phone
  PROVE  []Rows /\ [][MacFlowsAdvance]_vars /\ FairFlow(p) => ~[]InMacFlow(p)
<1> DEFINE Premise == []Rows /\ [][MacFlowsAdvance]_vars /\ []InMacFlow(p)
                        /\ ([]<>~InMacFlow(p) \/ []<><<PhoneStep(p)>>_vars)
<1>1. Premise /\ MacAtLeast(p, 0) => <>MacAtLeast(p, 4)
  <2>1. PICK r \in 0..MacEnd, s \in Nat : r = 0 /\ s = 4
    BY DEF MacEnd, Required
  <2>2. Premise => (MacAtLeast(p, r) => <>MacAtLeast(p, s))
    BY <2>1, MacFlowClimbs
  <2>3. (MacAtLeast(p, 0) => MacAtLeast(p, r)) /\ (MacAtLeast(p, s) => MacAtLeast(p, 4))
    BY <2>1
  <2> QED
    BY <2>2, <2>3, PTL
<1>2. Premise /\ MacAtLeast(p, 4) => <>MacAtLeast(p, 8)
  <2>1. PICK r \in 0..MacEnd, s \in Nat : r = 4 /\ s = 8
    BY DEF MacEnd, Required
  <2>2. Premise => (MacAtLeast(p, r) => <>MacAtLeast(p, s))
    BY <2>1, MacFlowClimbs
  <2>3. (MacAtLeast(p, 4) => MacAtLeast(p, r)) /\ (MacAtLeast(p, s) => MacAtLeast(p, 8))
    BY <2>1
  <2> QED
    BY <2>2, <2>3, PTL
<1>3. Premise /\ MacAtLeast(p, 8) => <>MacAtLeast(p, 12)
  <2>1. PICK r \in 0..MacEnd, s \in Nat : r = 8 /\ s = 12
    BY DEF MacEnd, Required
  <2>2. Premise => (MacAtLeast(p, r) => <>MacAtLeast(p, s))
    BY <2>1, MacFlowClimbs
  <2>3. (MacAtLeast(p, 8) => MacAtLeast(p, r)) /\ (MacAtLeast(p, s) => MacAtLeast(p, 12))
    BY <2>1
  <2> QED
    BY <2>2, <2>3, PTL
<1>4. Premise /\ MacAtLeast(p, 12) => <>MacAtLeast(p, 16)
  <2>1. PICK r \in 0..MacEnd, s \in Nat : r = 12 /\ s = 16
    BY DEF MacEnd, Required
  <2>2. Premise => (MacAtLeast(p, r) => <>MacAtLeast(p, s))
    BY <2>1, MacFlowClimbs
  <2>3. (MacAtLeast(p, 12) => MacAtLeast(p, r)) /\ (MacAtLeast(p, s) => MacAtLeast(p, 16))
    BY <2>1
  <2> QED
    BY <2>2, <2>3, PTL
<1>5. Rows => ~MacAtLeast(p, 16) /\ (InMacFlow(p) => MacAtLeast(p, 0))
  BY MacRankBound DEF MacAtLeast, MacEnd, Required
<1> QED
  BY <1>1, <1>2, <1>3, <1>4, <1>5, PTL DEF FairFlow

\* MacFlowEnds with every fault, for any number of phones, members and sessions,
\* if every phone goes on with its flow.
THEOREM MacFlowEndsIfFair == FaultSpec /\ FairFlows => MacFlowEnds
<1>1. ASSUME NEW p \in Phone
      PROVE  FaultSpec /\ FairFlow(p) => (flow[p] # Idle /\ flow[p].kind = "mac" ~> flow[p] = Idle)
  <2> DEFINE In == InMacFlow(p)
  <2> DEFINE Away == flow[p] = Idle
  <2> DEFINE Fair == FairFlow(p)
  <2>1. Rows /\ [MacFlowsAdvance]_vars /\ In => In' \/ Away'
    <3>1. CASE UNCHANGED vars
      BY <3>1 DEF vars, InMacFlow
    <3> QED
      BY <3>1 DEF MacFlowsAdvance
  <2>2. []Rows /\ [][MacFlowsAdvance]_vars /\ Fair => ~[]In
    BY MacFlowClimbsOut
  <2>3. Fair => []Fair
    BY PTL DEF FairFlow
  <2>4. FaultSpec /\ Fair => (In ~> Away)
    <3> HIDE DEF In, Away, Fair
    <3> QED
      BY <2>1, <2>2, <2>3, RowsAlways, MacFlowEndsByAdvancing, PTL
  <2> QED
    BY <2>4 DEF InMacFlow
<1> QED
  BY <1>1 DEF FairFlows, MacFlowEnds

=============================================================================
