----------------------------- MODULE MCDoorLock -----------------------------
(* DoorLock for TLC: Timer objects as model values. *)
EXTENDS DoorLock, TLC

CONSTANTS t1, t2, t3

AllSettings == {"detection", "alerts", "autoLock"}

TwoTimers == {t1, t2}

ThreeTimers == {t1, t2, t3}

TimerSymmetry == Permutations(ThreeTimers)

=============================================================================
