----------------------------- MODULE Enrollment -----------------------------
(***************************************************************************)
(* Members, enrollment sessions and face encodings: the handlers of         *)
(* pi-backend/main.py on the tables of database.py, and the two enrollment  *)
(* flows of the app (src/screens/MembersScreen.tsx) that drive them.        *)
(*                                                                          *)
(* Handlers run on one event loop, so each is atomic up to an `await`.  The *)
(* one that matters is in capture-b64: the session is checked, the body is  *)
(* awaited, and only then the encoding is stored.                           *)
(*                                                                          *)
(* Abstracted: scores, progress, messages and timestamps; an encoding is    *)
(* known by the session and the angle it was uploaded for.  Ids are uuids   *)
(* and never used twice.                                                    *)
(***************************************************************************)
EXTENDS Integers, FiniteSets

CONSTANTS Member, Session,  \* ids handed out during a run (bound)
          Phone,            \* apps that talk to the Pi
          Nothing,          \* no session, no upload
          MaxVersion        \* bound on face_profile_version

ASSUME EnrollmentAssumption ==
  /\ Nothing \notin Session \union Member
  /\ Nothing \notin Session \X {"front", "left", "right"}
  /\ MaxVersion \in Nat \ {0}

\* config.py REQUIRED_ANGLES, captureGuidance.requiredAngles
Angle == {"front", "left", "right"}

Required == 3

\* The order in which both flows of the app take the angles.
AngleAt(i) == CASE i = 0 -> "front" [] i = 1 -> "left" [] OTHER -> "right"

VARIABLES
  member,    \* "unused", "present" or "removed": the row in members
  enrolled,  \* members.face_enrolled
  version,   \* members.face_profile_version
  owner,     \* enrollment_sessions.member_id
  status,    \* enrollment_sessions.status; "unused" and "gone": no such row
  count,     \* enrollment_sessions.captures_count
  faces,     \* the angles stored through a session, still in face_encodings
  cleared,   \* history: sessions whose encodings were deleted by somebody
  flow,      \* what each phone is doing
  upload     \* the capture-b64 request of each phone that awaits its body

backend == <<member, enrolled, version, owner, status, count, faces, cleared>>

vars == <<backend, flow, upload>>

Live == {"capturing", "processing"}

Idle == [step |-> "idle"]

\* A flow: the kind of camera, the member, its session and the next angle.
ActiveFlow ==
  [step : {"start", "capture", "await", "complete"}, kind : {"pi", "mac"},
   of : Member, session : Session \union {Nothing}, shot : 0..Required]

Flow == ActiveFlow \union {Idle}

TypeOK ==
  /\ member \in [Member -> {"unused", "present", "removed"}]
  /\ enrolled \in [Member -> BOOLEAN]
  /\ version \in [Member -> 0..MaxVersion]
  /\ owner \in [Session -> Member \union {Nothing}]
  /\ status \in [Session -> {"unused", "completed", "cancelled", "gone"} \union Live]
  /\ count \in [Session -> 0..Required]
  /\ faces \in [Session -> SUBSET Angle]
  /\ cleared \subseteq Session
  /\ flow \in [Phone -> Flow]
  /\ upload \in [Phone -> (Session \X Angle) \union {Nothing}]

Init ==
  /\ member = [m \in Member |-> "unused"]
  /\ enrolled = [m \in Member |-> FALSE]
  /\ version = [m \in Member |-> 0]
  /\ owner = [s \in Session |-> Nothing]
  /\ status = [s \in Session |-> "unused"]
  /\ count = [s \in Session |-> 0]
  /\ faces = [s \in Session |-> {}]
  /\ cleared = {}
  /\ flow = [p \in Phone |-> Idle]
  /\ upload = [p \in Phone |-> Nothing]

-----------------------------------------------------------------------------
(* The handlers, up to their await.                                         *)

RowExists(s) == status[s] \notin {"unused", "gone"}

\* get_enrollment_session, and the check that the session is the member's.
IsSession(s, m) == RowExists(s) /\ owner[s] = m

SessionsOf(m) == {s \in Session : owner[s] = m}

AddMember(m) ==
  /\ member[m] = "unused"
  /\ member' = [member EXCEPT ![m] = "present"]
  /\ UNCHANGED <<enrolled, version, owner, status, count, faces, cleared, flow, upload>>

\* delete_face_encodings
DeleteFaces(m) ==
  /\ faces' = [s \in Session |-> IF owner[s] = m THEN {} ELSE faces[s]]
  /\ cleared' = cleared \union SessionsOf(m)

\* The foreign keys delete the member's sessions with the row in members.
RemoveMember(m) ==
  /\ member[m] = "present"
  /\ DeleteFaces(m)
  /\ member' = [member EXCEPT ![m] = "removed"]
  /\ enrolled' = [enrolled EXCEPT ![m] = FALSE]
  /\ version' = [version EXCEPT ![m] = 0]
  /\ status' = [s \in Session |-> IF owner[s] = m THEN "gone" ELSE status[s]]
  /\ UNCHANGED <<owner, count, flow, upload>>

\* Mutant: the profile keeps its version.
RemoveTemplateKeepsVersion(m) ==
  /\ member[m] = "present"
  /\ DeleteFaces(m)
  /\ enrolled' = [enrolled EXCEPT ![m] = FALSE]
  /\ UNCHANGED <<member, version, owner, status, count, flow, upload>>

RemoveTemplate(m) ==
  /\ member[m] = "present"
  /\ DeleteFaces(m)
  /\ enrolled' = [enrolled EXCEPT ![m] = FALSE]
  /\ version' = [version EXCEPT ![m] = 0]
  /\ UNCHANGED <<member, owner, status, count, flow, upload>>

\* DELETE .../enrollment/{session_id}: any session that exists, whatever its status.
CancelSession(s) ==
  /\ RowExists(s)
  /\ status' = [status EXCEPT ![s] = "cancelled"]
  /\ UNCHANGED <<member, enrolled, version, owner, count, faces, cleared, flow, upload>>

CreateSession(s, m) ==
  /\ status[s] = "unused"
  /\ status' = [status EXCEPT ![s] = "capturing"]
  /\ owner' = [owner EXCEPT ![s] = m]
  /\ UNCHANGED <<member, enrolled, version, count, faces, cleared>>

\* Mutant: the status is computed from the count without this capture.
StoreCaptureOldCount(s, a) ==
  /\ faces' = [faces EXCEPT ![s] = @ \union {a}]
  /\ count' = [count EXCEPT ![s] = @ + 1]
  /\ status' = [status EXCEPT ![s] =
                  IF count[s] >= Required THEN "processing" ELSE "capturing"]
  /\ UNCHANGED <<member, enrolled, version, owner, cleared>>

\* store_face_encoding, then the session row: the count is read after the await.
StoreCapture(s, a) ==
  /\ faces' = [faces EXCEPT ![s] = @ \union {a}]
  /\ count' = [count EXCEPT ![s] = @ + 1]
  /\ status' = [status EXCEPT ![s] =
                  IF count[s] + 1 >= Required THEN "processing" ELSE "capturing"]
  /\ UNCHANGED <<member, enrolled, version, owner, cleared>>

CompleteSession(s, m) ==
  /\ status' = [status EXCEPT ![s] = "completed"]
  /\ enrolled' = [enrolled EXCEPT ![m] = TRUE]
  /\ version' = [version EXCEPT ![m] = @ + 1]
  /\ UNCHANGED <<member, owner, count, faces, cleared>>

-----------------------------------------------------------------------------
(* The flows of the app: handlePiEnrollFace and handleEnrollFace.           *)

\* The phone gets the answer and goes on to f, or its request times out: then
\* the flow ends with an error, although the handler has done its work.
Answered(p, f) ==
  /\ \/ flow' = [flow EXCEPT ![p] = f]
     \/ flow' = [flow EXCEPT ![p] = Idle]
  /\ UNCHANGED upload

Failed(p) ==
  /\ flow' = [flow EXCEPT ![p] = Idle]
  /\ UNCHANGED <<backend, upload>>

\* Mutant: the loop over the angles goes round once more.
NextShotOnceMore(f) ==
  [f EXCEPT !.shot = @ + 1, !.step = IF f.shot = Required THEN "complete" ELSE "capture"]

\* After the last angle comes completePiEnrollment.
NextShot(f) ==
  [f EXCEPT !.shot = @ + 1, !.step = IF f.shot + 1 = Required THEN "complete" ELSE "capture"]

\* The phone's list of members may be out of date.  The photos of the MacBook
\* flow have been taken already (module MacCapture).
BeginFlow(p, k, m) ==
  /\ flow[p] = Idle
  /\ member[m] # "unused"
  /\ Cardinality({s \in Session : status[s] = "unused"})  \* bound: an id is left
       > Cardinality({q \in Phone : flow[q].step = "start"})
  /\ flow' = [flow EXCEPT ![p] =
                [step |-> "start", kind |-> k, of |-> m, session |-> Nothing, shot |-> 0]]
  /\ UNCHANGED <<backend, upload>>

StartEnrollment(p) ==
  /\ flow[p].step = "start"
  /\ \/ member[flow[p].of] # "present" /\ Failed(p)
     \/ /\ member[flow[p].of] = "present"
        /\ \E s \in Session :
             /\ CreateSession(s, flow[p].of)
             /\ Answered(p, [flow[p] EXCEPT !.step = "capture", !.session = s])

Accepts(p) == IsSession(flow[p].session, flow[p].of) /\ status[flow[p].session] \in Live

\* Mutant: `i--` is forgotten after "no face".
PiCaptureGoesOn(p) ==
  /\ flow[p].step = "capture" /\ flow[p].kind = "pi"
  /\ \/ Failed(p)
     \/ Accepts(p) /\ UNCHANGED backend /\ Answered(p, NextShot(flow[p]))
     \/ /\ Accepts(p)
        /\ StoreCapture(flow[p].session, AngleAt(flow[p].shot))
        /\ Answered(p, NextShot(flow[p]))

\* pi-capture: no await between the check and the store.  On "no face" the
\* app takes the same angle again.
PiCapture(p) ==
  /\ flow[p].step = "capture" /\ flow[p].kind = "pi"
  /\ \/ Failed(p)  \* refused, or no camera frame
     \/ /\ Accepts(p)
        /\ UNCHANGED backend
        /\ Answered(p, flow[p])
     \/ /\ Accepts(p)
        /\ StoreCapture(flow[p].session, AngleAt(flow[p].shot))
        /\ Answered(p, NextShot(flow[p]))

\* capture-b64 up to `await request.json()`.
UploadCheck(p) ==
  /\ flow[p].step = "capture" /\ flow[p].kind = "mac"
  /\ \/ Failed(p)  \* refused, or the photo could not be fetched from the MacBook
     \/ /\ Accepts(p)
        /\ upload[p] = Nothing  \* bound: one request of a phone in the back end
        /\ upload' = [upload EXCEPT ![p] = <<flow[p].session, AngleAt(flow[p].shot)>>]
        /\ flow' = [flow EXCEPT ![p].step = "await"]
        /\ UNCHANGED backend

\* The phone's timeout ends the flow; the request lives on.
GiveUp(p) == flow[p].step = "await" /\ Failed(p)

Finished(p, f) ==
  /\ upload' = [upload EXCEPT ![p] = Nothing]
  /\ flow' = IF flow[p].step = "await" THEN [flow EXCEPT ![p] = f] ELSE flow

\* Mutant: foreign keys are not enforced.
UploadStoreUnchecked(p) ==
  /\ upload[p] # Nothing
  /\ \/ UNCHANGED backend /\ Finished(p, NextShot(flow[p]))
     \/ StoreCapture(upload[p][1], upload[p][2]) /\ Finished(p, NextShot(flow[p]))

\* Mutant: the app takes the same photo again after "no face".
UploadStoreRepeats(p) ==
  /\ upload[p] # Nothing
  /\ \/ UNCHANGED backend /\ Finished(p, [flow[p] EXCEPT !.step = "capture"])
     \/ /\ member[owner[upload[p][1]]] = "present"
        /\ StoreCapture(upload[p][1], upload[p][2])
        /\ Finished(p, NextShot(flow[p]))
     \/ /\ member[owner[upload[p][1]]] # "present"
        /\ UNCHANGED backend
        /\ Finished(p, Idle)

\* capture-b64 after the await.  "No face" answers 200 too, and the app goes on
\* to the next angle.  The session is not looked at again; the row of a removed
\* member is refused by the foreign key (500).
UploadStore(p) ==
  /\ upload[p] # Nothing
  /\ LET s == upload[p][1]  a == upload[p][2] IN
       \/ UNCHANGED backend /\ Finished(p, NextShot(flow[p]))
       \/ /\ member[owner[s]] = "present"
          /\ StoreCapture(s, a)
          /\ Finished(p, NextShot(flow[p]))
       \/ /\ member[owner[s]] # "present"
          /\ UNCHANGED backend
          /\ Finished(p, Idle)

\* Neither the status nor the number of captures is looked at.
CompleteOk(p) ==
  /\ flow[p].step = "complete"
  /\ IsSession(flow[p].session, flow[p].of)
  /\ version[flow[p].of] < MaxVersion
  /\ CompleteSession(flow[p].session, flow[p].of)
  /\ flow' = [flow EXCEPT ![p] = Idle]
  /\ UNCHANGED upload

CompleteRefused(p) ==
  /\ flow[p].step = "complete"
  /\ ~IsSession(flow[p].session, flow[p].of)
  /\ Failed(p)

PhoneStep(p) ==
  \/ StartEnrollment(p) \/ PiCapture(p) \/ UploadCheck(p) \/ UploadStore(p)
  \/ CompleteOk(p) \/ CompleteRefused(p)

-----------------------------------------------------------------------------
(* Faults: a write that raises, or the process ends, between two commits of *)
(* one handler.                                                             *)

CutStore(p) ==
  /\ \/ /\ flow[p].step = "capture" /\ flow[p].kind = "pi" /\ Accepts(p)
        /\ faces' = [faces EXCEPT ![flow[p].session] = @ \union {AngleAt(flow[p].shot)}]
        /\ flow' = [flow EXCEPT ![p] = Idle]
        /\ UNCHANGED upload
     \/ /\ upload[p] # Nothing /\ member[owner[upload[p][1]]] = "present"
        /\ faces' = [faces EXCEPT ![upload[p][1]] = @ \union {upload[p][2]}]
        /\ Finished(p, Idle)
  /\ UNCHANGED <<member, enrolled, version, owner, status, count, cleared>>

CutComplete(p) ==
  /\ flow[p].step = "complete"
  /\ IsSession(flow[p].session, flow[p].of)
  /\ status' = [status EXCEPT ![flow[p].session] = "completed"]
  /\ flow' = [flow EXCEPT ![p] = Idle]
  /\ UNCHANGED <<member, enrolled, version, owner, count, faces, cleared, upload>>

\* Of remove_member and remove_face_template alike: the encodings are gone.
CutRemove(m) ==
  /\ member[m] = "present"
  /\ DeleteFaces(m)
  /\ UNCHANGED <<member, enrolled, version, owner, status, count, flow, upload>>

Restart ==
  /\ flow' = [p \in Phone |-> IF flow[p].step = "await" THEN Idle ELSE flow[p]]
  /\ upload' = [p \in Phone |-> Nothing]
  /\ UNCHANGED backend

-----------------------------------------------------------------------------

Next ==
  \/ \E m \in Member : AddMember(m) \/ RemoveMember(m) \/ RemoveTemplate(m)
  \/ \E s \in Session : CancelSession(s)
  \/ \E p \in Phone, k \in {"pi", "mac"}, m \in Member : BeginFlow(p, k, m)
  \/ \E p \in Phone : PhoneStep(p) \/ GiveUp(p)

FaultNext ==
  \/ Next
  \/ \E p \in Phone : CutStore(p) \/ CutComplete(p)
  \/ \E m \in Member : CutRemove(m)
  \/ Restart

Spec == Init /\ [][Next]_vars

FaultSpec == Init /\ [][FaultNext]_vars

\* A request is answered, and the app goes on; people may do nothing.
FairFaultSpec == FaultSpec /\ \A p \in Phone : WF_vars(PhoneStep(p))

-----------------------------------------------------------------------------

\* The status a client polls agrees with the captures of the session, also
\* when an upload that was checked earlier is stored after a cancel.
StatusMatchesCount ==
  \A s \in Session :
    /\ status[s] = "processing" => count[s] >= Required
    /\ status[s] = "capturing" => count[s] < Required

\* No encoding and no session outlives its member, though an upload can be
\* between its check and its store when the member is removed.
NoOrphans ==
  \A s \in Session :
    owner[s] # Nothing /\ member[owner[s]] = "removed" => faces[s] = {} /\ ~RowExists(s)

\* A profile has a version exactly while the member is enrolled.
VersionTracksEnrolled == \A m \in Member : version[m] > 0 <=> enrolled[m]

\* The door-camera flow completes only a session with all three angles stored,
\* unless somebody deleted the member's encodings meanwhile.
PiFlowComplete ==
  [][\A p \in Phone : CompleteOk(p) /\ flow[p].kind = "pi" =>
       faces[flow[p].session] = Angle \/ flow[p].session \in cleared]_vars

\* The MacBook flow, which does not repeat a shot, comes to an end.
MacFlowEnds ==
  \A p \in Phone :
    flow[p] # Idle /\ flow[p].kind = "mac" ~> flow[p] = Idle

\* "Front, left, right - three captures per enrollment" (config.py): an enrolled
\* member whose encodings nobody deleted has all three.
EnrolledHasAllAngles ==
  \A m \in Member :
    enrolled[m] /\ SessionsOf(m) \cap cleared = {} =>
      \E s \in SessionsOf(m) : faces[s] = Angle

=============================================================================
