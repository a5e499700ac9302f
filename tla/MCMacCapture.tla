---------------------------- MODULE MCMacCapture ----------------------------
(* MacCapture for TLC: jobs and phones as model values. *)
EXTENDS MacCapture

CONSTANTS j1, j2, j3, p1, p2

ThreeJobs == {j1, j2, j3}

TwoPhones == {p1, p2}

=============================================================================
