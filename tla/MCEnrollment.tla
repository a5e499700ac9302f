---------------------------- MODULE MCEnrollment ----------------------------
(* Enrollment for TLC: ids as model values. *)
EXTENDS Enrollment

CONSTANTS m1, m2, e1, e2, p1, p2

OneMember == {m1}
TwoMembers == {m1, m2}
TwoSessions == {e1, e2}
OnePhone == {p1}
TwoPhones == {p1, p2}

=============================================================================
