---------------------------- MODULE MotionSensor ----------------------------
(***************************************************************************)
(* The polling thread of the motion sensor (hardware.py, MotionSensor) and  *)
(* the rate limit of the callback it runs (main.py, on_motion_detected).    *)
(* The callback runs the whole scan in this thread, for seconds, between    *)
(* the reading of the pin and the storing of that reading as _last_state;   *)
(* an exception leaves the old _last_state.  The rate limit compares        *)
(* time.time(), which NTP may set forwards or backwards.                    *)
(*                                                                          *)
(* Time passes in ticks at any point of the thread.  Only differences are   *)
(* kept, and they stop at the cooldown: a larger one is treated alike.      *)
(* Abstracted: what the scan does (module DoorLock).                        *)
(***************************************************************************)
EXTENDS Integers

CONSTANTS Cooldown,     \* MOTION_COOLDOWN, in ticks
          MaxClockSets  \* bound: how often the clock is set

ASSUME SensorAssumption == Cooldown \in Nat \ {0} /\ MaxClockSets \in Nat

VARIABLES
  pin,        \* the sensor's output
  detection,  \* motion_detection_enabled
  running,    \* _running
  thread,     \* where _poll_loop is
  triggered,  \* its local variable: the reading
  lastState,  \* _last_state = 1
  gap,        \* time.time() - _last_motion_time, at most Cooldown
  clockSets,  \* counted against MaxClockSets
  elapsed,    \* history: real time since the last scan started, at most Cooldown
  clockSet,   \* history: the clock was set since then
  sawLow,     \* history: the pin was read low since then
  threw       \* history: that scan raised an exception

ticks == <<gap, clockSets, elapsed, clockSet>>
sensorVars == <<pin, detection, running, thread, triggered, lastState, ticks, sawLow, threw>>

Earlier(x, y) == IF x < y THEN x ELSE y

SensorTypeOK ==
  /\ pin \in BOOLEAN
  /\ detection \in BOOLEAN
  /\ running \in BOOLEAN
  /\ thread \in {"top", "edge", "scanning", "store", "asleep", "ended"}
  /\ triggered \in BOOLEAN
  /\ lastState \in BOOLEAN
  /\ gap \in -Cooldown..Cooldown
  /\ clockSets \in 0..MaxClockSets
  /\ elapsed \in 0..Cooldown
  /\ clockSet \in BOOLEAN
  /\ sawLow \in BOOLEAN
  /\ threw \in BOOLEAN

\* _last_motion_time = 0 is long ago.
SensorInit ==
  /\ pin \in BOOLEAN
  /\ detection = TRUE
  /\ running = TRUE
  /\ thread = "top"
  /\ triggered = FALSE
  /\ lastState = FALSE
  /\ gap = Cooldown
  /\ clockSets = 0
  /\ elapsed = Cooldown
  /\ clockSet = FALSE
  /\ sawLow = TRUE
  /\ threw = FALSE

-----------------------------------------------------------------------------
(* Around the thread.                                                       *)

\* Somebody comes or goes.
PinChanges ==
  /\ pin' = ~pin
  /\ UNCHANGED <<detection, running, thread, triggered, lastState, ticks, sawLow, threw>>

\* POST /settings/motion.
SetDetection ==
  /\ detection' = ~detection
  /\ UNCHANGED <<pin, running, thread, triggered, lastState, ticks, sawLow, threw>>

Tick ==
  /\ gap' = Earlier(gap + 1, Cooldown)
  /\ elapsed' = Earlier(elapsed + 1, Cooldown)
  /\ UNCHANGED <<pin, detection, running, thread, triggered, lastState, clockSets, clockSet, sawLow, threw>>

\* NTP sets the clock, at most Cooldown back (further back is only longer).
SetClock ==
  /\ clockSets < MaxClockSets
  /\ clockSets' = clockSets + 1
  /\ gap' \in -Cooldown..Cooldown
  /\ clockSet' = TRUE
  /\ UNCHANGED <<pin, detection, running, thread, triggered, lastState, elapsed, sawLow, threw>>

\* cleanup(), at the shutdown of the back end.
Cleanup ==
  /\ running' = FALSE
  /\ UNCHANGED <<pin, detection, thread, triggered, lastState, ticks, sawLow, threw>>

-----------------------------------------------------------------------------
(* _poll_loop.                                                              *)

Goes(from, to) == thread = from /\ thread' = to

\* triggered = self.read(), and the test for a rising edge.
ReadPin ==
  /\ running
  /\ Goes("top", IF pin /\ ~lastState THEN "edge" ELSE "store")
  /\ triggered' = pin
  /\ sawLow' = (sawLow \/ ~pin)
  /\ UNCHANGED <<pin, detection, running, lastState, ticks, threw>>

\* `while self._running`.
LeaveLoop ==
  /\ ~running
  /\ Goes("top", "ended")
  /\ UNCHANGED <<pin, detection, running, triggered, lastState, ticks, sawLow, threw>>

CoolingDown == gap < Cooldown

\* Mutant: a dropped edge starts the cooldown again.
DropEdgeRestarts ==
  /\ ~detection \/ CoolingDown
  /\ Goes("edge", "store")
  /\ gap' = 0
  /\ UNCHANGED <<pin, detection, running, triggered, lastState, clockSets, elapsed, clockSet, sawLow, threw>>

\* The callback returns early: detection is off, or the rate limit.
DropEdge ==
  /\ ~detection \/ CoolingDown
  /\ Goes("edge", "store")
  /\ UNCHANGED <<pin, detection, running, triggered, lastState, ticks, sawLow, threw>>

\* Mutant: _last_motion_time is not written.
StartScanUnstamped ==
  /\ detection
  /\ ~CoolingDown
  /\ Goes("edge", "scanning")
  /\ elapsed' = 0
  /\ clockSet' = FALSE
  /\ sawLow' = FALSE
  /\ threw' = FALSE
  /\ UNCHANGED <<pin, detection, running, triggered, lastState, gap, clockSets>>

\* The callback passes the rate limit and scans.
StartScan ==
  /\ detection
  /\ ~CoolingDown
  /\ Goes("edge", "scanning")
  /\ gap' = 0
  /\ elapsed' = 0
  /\ clockSet' = FALSE
  /\ sawLow' = FALSE
  /\ threw' = FALSE
  /\ UNCHANGED <<pin, detection, running, triggered, lastState, clockSets>>

EndScan ==
  /\ Goes("scanning", "store")
  /\ UNCHANGED <<pin, detection, running, triggered, lastState, ticks, sawLow, threw>>

\* Mutant: the pin is read again for _last_state.
StoreAnotherReading ==
  /\ Goes("store", "asleep")
  /\ lastState' = pin
  /\ UNCHANGED <<pin, detection, running, triggered, ticks, sawLow, threw>>

\* self._last_state = 1 if triggered else 0.
StoreState ==
  /\ Goes("store", "asleep")
  /\ lastState' = triggered
  /\ UNCHANGED <<pin, detection, running, triggered, ticks, sawLow, threw>>

\* Mutant: no `except` keeps the thread alive.
ThrowUncaught ==
  /\ Goes("scanning", "dead")
  /\ threw' = TRUE
  /\ UNCHANGED <<pin, detection, running, triggered, lastState, ticks, sawLow>>

\* The scan, or read() itself, raises: `except Exception` logs it.
Throw ==
  /\ \/ Goes("scanning", "asleep")
     \/ running /\ Goes("top", "asleep")
  /\ threw' = (threw \/ thread = "scanning")
  /\ UNCHANGED <<pin, detection, running, triggered, lastState, ticks, sawLow>>

\* time.sleep(MOTION_POLL_INTERVAL) returns.
Wake ==
  /\ Goes("asleep", "top")
  /\ UNCHANGED <<pin, detection, running, triggered, lastState, ticks, sawLow, threw>>

PollLoop ==
  \/ ReadPin \/ LeaveLoop \/ DropEdge \/ StartScan \/ EndScan \/ StoreState \/ Throw \/ Wake

SensorNext ==
  \/ PinChanges \/ SetDetection \/ Tick \/ SetClock \/ Cleanup
  \/ PollLoop

SensorSpec == SensorInit /\ [][SensorNext]_sensorVars

-----------------------------------------------------------------------------
(* Properties.                                                              *)

\* Two scans start at least Cooldown apart in real time, whatever edges,
\* exceptions and switching of the detection come between, unless the clock
\* was set.
ScansSpaced ==
  [][StartScan => elapsed = Cooldown \/ clockSet]_sensorVars

\* Somebody who stays in front of the sensor is scanned once: between two
\* scans the pin was read low, or the first has failed (which leaves
\* _last_state at 0: a scan that takes longer than Cooldown is then repeated).
OneScanPerVisit ==
  [][StartScan => sawLow \/ threw]_sensorVars

\* A visitor who keeps coming and going is scanned again and again: edges that
\* the cooldown swallows, readings that grow stale during a scan, failing scans
\* and a clock that was set back delay a scan but never put an end to them.
VisitsScanned ==
  /\ <>[](detection /\ running)
  /\ []<><<ReadPin /\ ~pin>>_sensorVars
  /\ []<><<ReadPin /\ pin>>_sensorVars
  => []<><<StartScan>>_sensorVars

=============================================================================
