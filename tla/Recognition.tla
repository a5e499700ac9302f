---------------------------- MODULE Recognition ----------------------------
(***************************************************************************)
(* Who is let in: the scan of on_motion_detected (main.py) from the face it *)
(* grabs to the decision of compare_face (camera.py), against the rows that *)
(* get_all_face_encodings (database.py) finds, while the handlers on the    *)
(* event loop store encodings, complete enrollments and remove templates    *)
(* and members.  _face_lock does not keep these apart: the scan runs in the *)
(* motion thread, and a removal is two transactions.                        *)
(*                                                                          *)
(* A distance is counted in thousandths, a confidence and the threshold in  *)
(* hundredths (the app's slider has no finer steps).                        *)
(*                                                                          *)
(* Abstracted: the encodings (a scan has some distance to every row), the   *)
(* attempts to find a face, the logs; what is opened and locked is module   *)
(* DoorLock.  Without the face_recognition library compare_face guesses;    *)
(* that mode is not modelled.                                               *)
(***************************************************************************)
EXTENDS Integers

CONSTANTS Member, Row,  \* members, and ids of rows in face_encodings (bound)
          Distance,     \* the distances, in thousandths, a face may have to a row
          Threshold,    \* the thresholds the app may set, in hundredths
          Nobody

ASSUME RecognitionAssumption ==
  /\ Nobody \notin Member
  /\ Distance \subseteq Nat
  /\ Threshold \subseteq 0..100
  /\ 60 \in Threshold

VARIABLES
  present,    \* the members that have a row in members
  enrolled,   \* members.face_enrolled
  encodes,    \* the member of each row of face_encodings, Nobody: no such row
  removing,   \* the removal between its two transactions: its member
  threshold,  \* face_service.confidence_threshold
  scan,       \* where the scan is
  known,      \* known_entries: the member of each row read, Nobody: not read
  decided,    \* the member the scan decided for
  shut        \* history: members whose face would have been refused all along the scan

tables == <<present, enrolled, encodes>>
scanVars == <<scan, known, decided>>
recogVars == <<tables, removing, threshold, scanVars, shut>>

RecogTypeOK ==
  /\ present \subseteq Member
  /\ enrolled \subseteq present
  /\ encodes \in [Row -> present \union {Nobody}]
  /\ removing \in Member \union {Nobody}
  /\ threshold \in Threshold
  /\ scan \in {"idle", "grabbed", "read", "decided"}
  /\ known \in [Row -> Member \union {Nobody}]
  /\ decided \in Member \union {Nobody}
  /\ shut \subseteq Member

NoRow == [r \in Row |-> Nobody]

RecogInit ==
  /\ present = Member
  /\ enrolled = {}
  /\ encodes = NoRow
  /\ removing = Nobody
  /\ threshold = 60
  /\ scan = "idle"
  /\ known = NoRow
  /\ decided = Nobody
  /\ shut = Member

-----------------------------------------------------------------------------

\* Mutant: the query does not ask whether the enrollment was completed.
EntriesUnchecked == encodes

\* get_all_face_encodings: JOIN members ... WHERE m.face_enrolled = 1.
Entries == [r \in Row |-> IF encodes[r] \in enrolled THEN encodes[r] ELSE Nobody]

\* The members with a completed enrollment and a row.
Recognisable == {m \in enrolled : \E r \in Row : encodes[r] = m}

\* Before or after a step, whoever is recognisable is not shut out.
ShutOut == shut' = IF scan = "idle" THEN shut ELSE shut \ Recognisable'

Handler == removing = Nobody /\ UNCHANGED <<threshold, scanVars>>

-----------------------------------------------------------------------------
(* The event loop.                                                          *)

\* Mutant: the foreign key is not enforced.
StoreOrphan(m, r) ==
  /\ Handler
  /\ encodes[r] = Nobody
  /\ encodes' = [encodes EXCEPT ![r] = m]
  /\ UNCHANGED <<present, enrolled, removing>>
  /\ ShutOut

\* store_face_encoding, by one of the capture handlers.
StoreEncoding(m, r) ==
  /\ Handler
  /\ m \in present
  /\ encodes[r] = Nobody
  /\ encodes' = [encodes EXCEPT ![r] = m]
  /\ UNCHANGED <<present, enrolled, removing>>
  /\ ShutOut

\* complete_enrollment, whatever was captured.
CompleteEnrollment(m) ==
  /\ Handler
  /\ m \in present
  /\ enrolled' = enrolled \union {m}
  /\ UNCHANGED <<present, encodes, removing>>
  /\ ShutOut

\* delete_face_encodings.
DropEncodings(m) ==
  encodes' = [r \in Row |-> IF encodes[r] = m THEN Nobody ELSE encodes[r]]

\* remove_face_template and remove_member: their first transaction.
BeginRemoval(m) ==
  /\ Handler
  /\ m \in present
  /\ DropEncodings(m)
  /\ removing' = m
  /\ UNCHANGED <<present, enrolled>>
  /\ ShutOut

\* Their second: the template's flag is cleared, or the member's row deleted.
EndRemoval ==
  /\ removing # Nobody
  /\ enrolled' = enrolled \ {removing}
  /\ present' \in {present, present \ {removing}}
  /\ removing' = Nobody
  /\ UNCHANGED <<encodes, threshold, scanVars>>
  /\ ShutOut

\* The second transaction raises: the encodings are gone, and nothing else.
RemovalFails ==
  /\ removing # Nobody
  /\ removing' = Nobody
  /\ UNCHANGED <<tables, threshold, scanVars>>
  /\ ShutOut

\* set_confidence.
SetConfidence ==
  /\ removing = Nobody
  /\ threshold' \in Threshold
  /\ UNCHANGED <<tables, removing, scanVars, shut>>

-----------------------------------------------------------------------------
(* The motion thread.                                                       *)

\* _grab_face_encoding finds a face.
GrabFace ==
  /\ scan = "idle"
  /\ scan' = "grabbed"
  /\ shut' = Member \ Recognisable
  /\ UNCHANGED <<tables, removing, threshold, known, decided>>

ReadEntries ==
  /\ scan = "grabbed"
  /\ scan' = "read"
  /\ known' = Entries
  /\ UNCHANGED <<tables, removing, threshold, decided, shut>>

Read == {r \in Row : known[r] # Nobody}

\* argmin: the first of the nearest, in the order the query returns.
Nearest(distance) == {r \in Read : \A q \in Read : distance[r] <= distance[q]}

\* round(1.0 - d, 2): a tie goes either way, as d is a binary fraction.
Confidences(d) ==
  LET whole == (1000 - d) \div 10
  IN  {c \in whole..whole + 1 : 10 * c - 5 <= 1000 - d /\ 1000 - d <= 10 * c + 5}

\* Mutant: the confidence must exceed the threshold.
Exceeds(c) == c > threshold

Suffices(c) == c >= threshold

\* compare_face, given the distances of the face to the rows: the nearest
\* entry decides.
Compare(distance) ==
  /\ scan = "read"
  /\ scan' = "decided"
  /\ \/ /\ Read = {}
        /\ decided' = Nobody
     \/ \E r \in Nearest(distance) : \E c \in Confidences(distance[r]) :
          decided' = IF Suffices(c) THEN known[r] ELSE Nobody
  /\ UNCHANGED <<tables, removing, threshold, known, shut>>

\* The door is opened for a member, or the visitor logged as unknown.
Conclude ==
  /\ scan = "decided"
  /\ scan' = "idle"
  /\ known' = NoRow
  /\ decided' = Nobody
  /\ UNCHANGED <<tables, removing, threshold, shut>>

-----------------------------------------------------------------------------

Scan ==
  \/ GrabFace \/ ReadEntries \/ Conclude
  \/ \E distance \in [Row -> Distance] : Compare(distance)

RecogNext ==
  \/ \E m \in Member : CompleteEnrollment(m) \/ BeginRemoval(m) \/ \E r \in Row : StoreEncoding(m, r)
  \/ EndRemoval \/ RemovalFails \/ SetConfidence
  \/ Scan

RecogSpec == RecogInit /\ [][RecogNext]_recogVars

-----------------------------------------------------------------------------
(* Properties.                                                              *)

\* No scan decides for a member who could not have been recognised at any
\* point of it: a removal is final as soon as its first transaction is done,
\* and captures count for nothing before the enrollment is completed.
ShutOutIsRefused == decided \notin shut

\* A member is let in only if one of the rows read is theirs, at most half a
\* hundredth below the threshold, and no row of anybody is nearer; a visitor
\* whose nearest row is half a hundredth above the threshold is let in.
ThresholdHonoured ==
  [][\A distance \in [Row -> Distance] : Compare(distance) =>
       /\ decided' # Nobody =>
            \E r \in Read : /\ known[r] = decided'
                            /\ 10 * threshold - 5 <= 1000 - distance[r]
                            /\ \A q \in Read : distance[r] <= distance[q]
       /\ (\E r \in Read : 10 * threshold + 5 <= 1000 - distance[r]) => decided' # Nobody]_recogVars

=============================================================================
