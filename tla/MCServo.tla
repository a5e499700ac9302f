------------------------------ MODULE MCServo -------------------------------
(* Servo for TLC: spin threads as model values. *)
EXTENDS Servo

CONSTANTS s1, s2, s3

ThreeSpins == {s1, s2, s3}

=============================================================================
