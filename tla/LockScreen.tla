----------------------------- MODULE LockScreen -----------------------------
(***************************************************************************)
(* What the app shows of the door: `locked` of DashboardScreen.tsx.  (The   *)
(* camera tab, LiveCamera.tsx, holds a copy of its own by the same code,    *)
(* without the doorbell.)  It is written by three callbacks that know       *)
(* nothing of each other: polls of GET /door/status, the button's command,  *)
(* after which the app flips what it shows without asking, and the          *)
(* doorbell.  Of the door only door_state.locked matters here; other        *)
(* phones, the sensor and the relock timer change it as they like (module   *)
(* DoorLock).                                                               *)
(*                                                                          *)
(* A request is two steps: the Pi handles it, the app handles the answer.   *)
(* Abstracted: the logs, statistics and ping of the same load, the          *)
(* countdown, the 4 s of the doorbell's banner, and `ringing` during the    *)
(* load that follows a doorbell (that load is one of the polls).            *)
(***************************************************************************)
EXTENDS Naturals

CONSTANTS StatusPoll,  \* answers to GET /door/status that may be in flight at once
          NoAnswer     \* there is none in flight

ASSUME ScreenAssumption == NoAnswer \notin BOOLEAN

VARIABLES
  locked,   \* door_state.locked, as the Pi would answer
  shown,    \* the screen's `locked`
  status,   \* status[k]: the answer poll k carries, or NoAnswer
  command,  \* the button's request: where it is, and the state it asks for
  ring,     \* the doorbell's request, "rung" until the Pi answers, then its result
  landed,   \* history: another answer was handled since the button was pressed
  moved     \* history: someone else wrote the door since the Pi did the command

lockVars == <<locked, shown, status, command, ring, landed, moved>>

NoCommand == [at |-> "none", to |-> TRUE]
Command == [at : {"none", "sent", "done"}, to : BOOLEAN]

ScreenTypeOK ==
  /\ locked \in BOOLEAN
  /\ shown \in BOOLEAN
  /\ status \in [StatusPoll -> BOOLEAN \union {NoAnswer}]
  /\ command \in Command
  /\ ring \in {"none", "rung", "authorized", "other"}
  /\ landed \in BOOLEAN
  /\ moved \in BOOLEAN

\* The screen is mounted at the start of the app and shows a locked door.
ScreenInit ==
  /\ locked \in BOOLEAN
  /\ shown = TRUE
  /\ status = [k \in StatusPoll |-> NoAnswer]
  /\ command = NoCommand
  /\ ring = "none"
  /\ landed = FALSE
  /\ moved = FALSE

-----------------------------------------------------------------------------

\* The door is locked or unlocked by somebody else.
DoorMoves ==
  /\ locked' = ~locked
  /\ moved' = TRUE
  /\ UNCHANGED <<shown, status, command, ring, landed>>

\* GET /door/status for poll k.
AnswerStatus(k) ==
  /\ status[k] = NoAnswer
  /\ status' = [status EXCEPT ![k] = locked]
  /\ UNCHANGED <<locked, shown, command, ring, landed, moved>>

\* Mutant: a poll only ever reports that the door was opened.
DeliverUnlocked(k) ==
  /\ status[k] # NoAnswer
  /\ shown' = (shown /\ status[k])
  /\ status' = [status EXCEPT ![k] = NoAnswer]
  /\ landed' = TRUE
  /\ UNCHANGED <<locked, command, ring, moved>>

\* Mutant: what a load that failed has left is shown.
DeliverAnyway(k) ==
  /\ shown' = status[k]
  /\ status' = [status EXCEPT ![k] = NoAnswer]
  /\ landed' = TRUE
  /\ UNCHANGED <<locked, command, ring, moved>>

\* load() goes on: setLocked(status.locked).
DeliverStatus(k) ==
  /\ status[k] # NoAnswer
  /\ shown' = status[k]
  /\ status' = [status EXCEPT ![k] = NoAnswer]
  /\ landed' = TRUE
  /\ UNCHANGED <<locked, command, ring, moved>>

\* One of the load's requests fails: nothing of it is shown.
LoseStatus(k) ==
  /\ status[k] # NoAnswer
  /\ status' = [status EXCEPT ![k] = NoAnswer]
  /\ UNCHANGED <<locked, shown, command, ring, landed, moved>>

-----------------------------------------------------------------------------
(* toggleDoor.  The button is disabled while a command is under way.        *)

\* Mutant: what is shown is asked for, not its opposite.
Shown == shown

Opposite == ~shown

PressToggle ==
  /\ command.at = "none"
  /\ command' = [at |-> "sent", to |-> Opposite]
  /\ landed' = FALSE
  /\ UNCHANGED <<locked, shown, status, ring, moved>>

\* POST /door/lock or /door/unlock.
DoCommand ==
  /\ command.at = "sent"
  /\ locked' = command.to
  /\ command' = [command EXCEPT !.at = "done"]
  /\ moved' = FALSE
  /\ UNCHANGED <<shown, status, ring, landed>>

\* The answer: setLocked(l => !l).
FlipShown ==
  /\ command.at = "done"
  /\ shown' = ~shown
  /\ command' = NoCommand
  /\ UNCHANGED <<locked, status, ring, landed, moved>>

\* The request or its answer is lost: `Could not reach the Pi`.
LoseCommand ==
  /\ command.at # "none"
  /\ command' = NoCommand
  /\ UNCHANGED <<locked, shown, status, ring, landed, moved>>

-----------------------------------------------------------------------------
(* handleDoorbell.                                                          *)

PressDoorbell ==
  /\ ring = "none"
  /\ ring' = "rung"
  /\ UNCHANGED <<locked, shown, status, command, landed, moved>>

\* The scan at the Pi: a member opens the door; anyone else, or nobody, may
\* find it locked by auto_lock_on_unknown.
AnswerDoorbell ==
  /\ ring = "rung"
  /\ \/ /\ ring' = "authorized"
        /\ locked' = FALSE
     \/ /\ ring' = "other"
        /\ locked' \in {locked, TRUE}
  /\ moved' = TRUE
  /\ UNCHANGED <<shown, status, command, landed>>

\* The answer: an authorized visitor is shown an open door.
DeliverDoorbell ==
  /\ ring \in {"authorized", "other"}
  /\ shown' = IF ring = "authorized" THEN FALSE ELSE shown
  /\ ring' = "none"
  /\ landed' = TRUE
  /\ UNCHANGED <<locked, status, command, moved>>

LoseDoorbell ==
  /\ ring # "none"
  /\ ring' = "none"
  /\ UNCHANGED <<locked, shown, status, command, landed, moved>>

-----------------------------------------------------------------------------

EndStatus(k) == DeliverStatus(k) \/ LoseStatus(k)
EndCommand == FlipShown \/ LoseCommand
EndDoorbell == DeliverDoorbell \/ LoseDoorbell

Toggle == PressToggle \/ DoCommand \/ EndCommand
Ring == PressDoorbell \/ AnswerDoorbell \/ EndDoorbell

ScreenNext ==
  \/ DoorMoves \/ Toggle \/ Ring
  \/ \E k \in StatusPoll : AnswerStatus(k) \/ EndStatus(k)

ScreenSpec == ScreenInit /\ [][ScreenNext]_lockVars

-----------------------------------------------------------------------------
(* Properties.                                                              *)

\* When a command is answered the screen agrees with the door, even if it was
\* wrong when the button was pressed, unless the answer of a poll or of the
\* doorbell was handled in between (the flip then undoes it) or somebody else
\* has moved the door since.
FlipAgrees == [][FlipShown /\ ~landed /\ ~moved => shown' = locked]_lockVars

\* Once the door is left alone and the user presses nothing, the screen comes
\* to show the door's state and keeps to it, whatever stale answers and lost
\* commands it started from.
ScreenSettles ==
  <>[][~PressToggle /\ ~PressDoorbell /\ ~DoorMoves]_lockVars => <>[](shown = locked)

=============================================================================
