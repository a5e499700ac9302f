# TLA+ models of the facial recognition door lock

This directory models the parts of the door lock in which something can go
wrong between two lines of code: the Raspberry Pi back end (`pi-backend/`), the
webcam server on the MacBook (`enroll_server.py`) and the flows of the React
Native app (`src/`) that drive both. The modules are model-checked with TLC and
their central invariants are proved with TLAPS.

## Inventory

| Part | State | Operations | Hard behaviour | What makes it correct |
|---|---|---|---|---|
| Door control, `main.py` | `door_state.locked`, `_relock_timer`, Timer threads, settings | `door_lock`, `door_unlock`, `_schedule_relock`, `_do_relock`, lifespan | three kinds of threads change servo, row and timer without a common lock; restart | an unlocked door is relocked; bolt and row agree |
| Recognition, `main.py`, `camera.py` | `_face_lock`, rows in `logs`, `alerts` | `on_motion_detected`, `_run_doorbell_scan` | the doorbell blocks the event loop on `_face_lock`; writes fail | one thread in dlib; no opening without audit row |
| Servo, `hardware.py` | `_locked`, `_cancel`, `_busy`, PWM | `lock`, `unlock`, `cleanup`, `_do_spin` | waiting spins are not ordered, the cancel event is shared | motor stops; the latest command wins |
| Members and enrollment, `main.py`, `database.py` | tables `members`, `enrollment_sessions`, `face_encodings` | add, remove, start, capture (x3 handlers), complete, cancel, remove template | a session is checked, the body awaited, then the encoding stored; several commits per handler | consistent tables; enrolled means three angles |
| Enrollment flows, `MembersScreen.tsx`, `api.ts` | one flow per app | `handlePiEnrollFace`, `handleEnrollFace` | client timeouts while the request lives on | flows end; only full sessions are completed |
| MacBook server, `enroll_server.py` | `status`, `captured_images`, `capture_queue` | `/enroll`, `/enroll/status`, `/enroll/capture/<angle>`, `run_capture` | check-then-set by request threads; one set of photos for all | an app downloads its own member's photos; a 409 does not last |
| Who is let in, `camera.py`, `database.py` | `face_enrolled`, rows of `face_encodings`, threshold | `get_all_face_encodings`, `compare_face`, removals | the rows may change during a scan; a removal is two commits; rounding | nobody is let in who was shut out all along; the threshold holds |
| Motion sensor, `hardware.py`, `main.py` | `_last_state`, `_last_motion_time` | `_poll_loop`, cooldown | edges dropped in the cooldown, a reading stored after the scan, a clock that is set | scans are spaced, one per visit, and never stop for good |
| Alerts in the app, `AlertContext.tsx`, `ActivityScreen.tsx` | last seen id, unread count, list | poll, load, mark as read | first poll, polls out of order, two writers of the badge, a load during `Mark All Read` | announced once and in the end; the badge settles |
| Dashboard, live view | shown lock state | toggle, poll, doorbell | a poll between command and flip | the screen converges to the Pi |
| Settings, `SettingsScreen.tsx` | a switch on the screen, in AsyncStorage, on the Pi | mount effect, flip, push | unordered and lost pushes, restarts | the user's choice is kept, and in step with the Pi |
| Camera, dlib, middleware, services, navigation, native projects | frames, connections | I/O and presentation | - | not modelled |

Calls: the app talks HTTP to the Pi and to the MacBook; the MacBook never talks
to the Pi (the app relays the photos). On the Pi the sensor thread calls
`on_motion_detected`, both pipelines call the servo, which starts a thread per
command, and every part shares the SQLite file.

## Modules

| Module | Models | Used by |
|---|---|---|
| `AutoRelock` | the promise behind "the door auto-relocks", as a discipline about jobs of relocking: each ends by locking the door, by a hand-over to a timer, by a cancel from somebody who has such a job too, or because the door was found locked | refined by `DoorLock` |
| `DoorLock` | event loop, motion thread and Timer threads of `main.py`, statement by statement | `MCDoorLock`, `DoorLockProofs` |
| `Servo` | spin threads of `hardware.py` and the bolt | `MCServo`, `ServoProofs` |
| `Enrollment` | handlers on members, sessions, encodings, and the app's flows | `MCEnrollment`, `EnrollmentProofs` |
| `MacCapture` | `enroll_server.py` and the app's polling and downloads | `MCMacCapture`, `MacCaptureProofs` |
| `Recognition` | a scan's decision against the rows, and the handlers that change them | `MCHome`, `ScanProofs` |
| `MotionSensor` | the sensor thread and the rate limit of its callback | `MCHome`, `ScanProofs` |
| `AlertFeed` | the alerts table, the poller, the badge and the Activity screen of one phone | `MCHome`, `AlertFeedProofs` |
| `LockScreen` | the door as the Dashboard shows it | `MCHome`, `ScreenProofs` |
| `SettingsSync` | one switch of the Settings screen | `MCHome`, `ScreenProofs` |

The `MC` modules only give model values and small sets to the constants; the
`Proofs` modules hold the theorems. `MCHome` also puts side by side the five
components that share no state, and `HomeProofs` shows that each behaves there as
its own specification says.

**DoorLock.** `pc[p]` names the statement a thread is about to run; `op[p]` the
operation it is in; `rows[p]` the log and alert rows that operation has written.
The event loop is one process, since its handlers contain no `await` after they
begin. `timer` holds every Timer object, `relockTimer` the global. A Timer slot
is reused once nobody can reach it (`Unreachable`), so a finite set of slots
stands for unboundedly many schedules. The three statements of
`_schedule_relock` are separate steps, and `start()` goes through the global as
in the code, so a timer can be cancelled before it starts, or started twice.
Faults (`FaultNext`) are a write that raises, a Timer thread that dies, shutdown
and restart. The 10 s are not modelled: an armed timer may fire at any time.

**Servo.** One step for each statement of `_do_spin`, and of the caller before it: `Command`
assigns `_locked`, `SetCancel` sets the event and `StartThread` starts the thread, so
concurrent callers interleave between them. A spin slot is a call and the thread it
starts; a thread that dies of an exception is not modelled. The bolt between its end
stops is external: it moves one unit per half second of PWM, and a complete
spin reaches its end.

**Enrollment.** A handler is one step up to its `await`; `upload[p]` is a
`capture-b64` request between its check and its store. `flow[p]` is the app's
flow. An answer can be lost (`Answered`, `GiveUp`). `Cut...` actions stop a
handler between two commits. `cleared` is a history variable: sessions whose
encodings somebody deleted.

**MacCapture.** `request[p]` is the thread of a `POST /enroll`: check, set and put
are three steps. `main` is the main thread. A photo is known by the job it was
taken for.

**Recognition.** The scan is four steps (`GrabFace`, `ReadEntries`, `Compare`,
`Conclude`), as the handlers of the event loop run between them; a removal is two,
as the motion thread runs between its transactions, while other handlers wait. The
second may raise (`RemovalFails`), which leaves the member and the flag as they were,
without encodings.
`encodes` gives each row its member, `Entries` is the query's join. `shut` is a
history variable: the members who at no point of the scan could have been
recognised. `DoorLock` lets the result be anything; this module says which results
there are.

**MotionSensor.** `thread` is the place in `_poll_loop`; the callback runs inside it, so
`StoreState` comes after the scan with the reading from before it. `gap` is the time
the code measures, `elapsed` the real one; only `SetClock` parts them.

**AlertFeed.** A request is two steps, the Pi's and the app's, so answers grow stale and
overtake each other. The answer is the table at that moment (`Rows`). `heard` and
`raced` are history variables: what the phone vibrated for, and whether a load
landed while `Mark All Read` waited.

**LockScreen**, **SettingsSync.** The same two steps per request. `landed` and `moved`,
and `astray`, record what makes the shown and the real value part: the properties
say that nothing else does. The three switches run the same code on separate
keys and parameters, so one of them is modelled; the live view's toggle is the
Dashboard's without the doorbell.

## Runs

| Run | Expect | Shows |
|---|---|---|
| `doorlock` | pass | `RelockCovered`, and that every single job of relocking ends as `AutoRelock` allows (`KeepsPromise`), over all interleavings, three Timer slots, all settings |
| `doorlock_live` | pass | `EventuallyRelocked` and `SerialAgreement` under fair threads |
| `doorlock_faults` | pass | with every fault: `FaceLockFreed`, `RecognisedUnlockAudited`, `OnlyAbortLosesRelock` (which faults leave an open door to nobody, and that no other does), and `SerialCountdown`: only handlers that overlap inside `_schedule_relock` leave a stray timer running |
| `doorlock_bolt` | violation | the bolt may stay open for ever while the record says locked |
| `doorlock_restart` | violation | a restart while unlocked loses the relock |
| `servo` | pass | the motor is driven only by the owner of `_busy`; spins end; the latest of spaced commands wins |
| `servo_burst` | violation | in a burst an older command may win |
| `enrollment` | pass | consistent tables under timeouts, late uploads, partial failures and restarts; flows of both kinds |
| `enrollment_angles` | violation | a member enrolled with fewer than three angles |
| `mac_capture` | pass | serial flows get their own photos; the server becomes free again |
| `mac_overlap` | violation | overlapping flows change each other's photos |
| `home` | pass | recognition, sensor, alerts, lock screen and settings: `ShutOutIsRefused`, `ThresholdHonoured`, `ScansSpaced`, `OneScanPerVisit`, `VisitsScanned`, `AnnouncedOnce`, `EventuallyHandled`, `BadgeSettles`, `OnlyRacedLoadHidesAlerts`, `FlipAgrees`, `ScreenSettles`, `StoredIsUsers`, `InStep` |

`home` is a sum, not a product: `part` says which component moves. No action of one
reads or writes a variable of another, so what holds of each holds of all side by
side, and the product would only multiply the states (`HomeImplementsParts` in `HomeProofs`).

### Bounds

- Three Timer slots: one may be the global, one running `_do_relock`, one being
  created by the other thread. The liveness runs use two and fewer settings,
  which removes no action of a thread: `SetSetting` is fired by `doorlock`.
- Three spin threads: one spinning, two waiting, the least with a wrong order.
  `SpinTicks` is 3 instead of 10: enough for a spin cut short, at either end and
  in the middle.
- One member, two sessions and two phones: two flows on one member share its
  encodings, its flag and its version; members do not interact. `MaxVersion` 2
  lets both sessions complete, also after a template was removed.
- Three jobs and two phones on the MacBook: a job left behind, and two flows
  after it or at once.
- `CHECK_DEADLOCK FALSE` where the system really stops: the servo with no
  further command after cleanup, and the models whose ids run out.
- Two alerts, two polls in flight, one restart of the app: one alert old and one
  new, and an answer overtaken by the next. The part "poller" has both polls and
  the restart, the part "activity" the screen with one poll; the screen's load is
  then the second request in flight. One tap at a time marks alerts, while others
  may be marked elsewhere at any time.
- Two status polls and two pushes in flight: the least that can be overtaken. A
  switch that has no free push slot waits.
- `Cooldown` of two ticks (an edge may come early, late or at its end), the clock set
  once, by up to a cooldown either way.
- Two members with two rows, which may be one member's both; distances 0.395, 0.405
  and 0.406, which lie below, on and above the edges of 0.60 and 0.61 once rounded.

### Fairness

Weak fairness of each thread's next statement (`ThreadStep`, `TimerStep`,
`SpinStep`, `MainStep`, `RequestStep`): threads are scheduled, a 10 s timer
expires, a PWM wait ends, a lock that is free is taken. Requests, motion, button
presses and faults are never fair, except that the app's pollers go on asking. `PhoneStep` of `Enrollment` is fair because a
request is answered or times out. Weak fairness suffices for `_face_lock` and
`_busy`, for which only progress of some holder is claimed: `FaceLockFreed`
says the owner gives the lock back, not that a certain waiter gets it.

In `home` every request of the app ends, by an answer or its timeout (weak fairness
of `EndPoll`, `EndLoad`, `EndMark`, `EndStatus`, `EndCommand`, `EndDoorbell`), and the intervals
of 5 s and 6 s repeat the polls. That the network lets an answer through again and
again (strong fairness of `Deliver`, `DeliverStatus`) is an assumption: without it no
screen can settle. The sensor thread and the clock go on (`SensorFairness`); a scan
ends or fails. `VisitsScanned` assumes besides that the pin is read high and low again
and again and that nobody switches the detection off, and `ScreenSettles` that the
door is left alone: both are in the formula.

## Proofs

`DoorLockProofs`, for any set of Timer objects:

- `TypeCorrect`, `SpecTypeCorrect`: `TypeOK`, also with faults. Needed by every
  other proof.
- `RelockCoveredAlways`. `RelockCovered` with `TypeOK` is inductive: a thread that
  cancels the timer goes on to assign a new one or to lock; a thread that
  assigns a timer finds it startable until it has started it, and the other
  thread can only start it earlier or replace it by its own.
- `Refinement`: `KeepsPromise`, with one lemma per kind of step on what it does to
  `Jobs` (`JobsSame`, `TimerJobs` and those beside them), and `TypeOK` alone as
  the invariant. It says more than `RelockCovered`, which only asks that some job be
  left: a timer that gave up because it was replaced would break it while the
  new timer keeps the door covered. `DisciplineKeeps` closes the circle: whoever
  keeps the discipline never leaves an unlocked door without a job.
- `SerialCountdownAlways`, with every fault: while one thread at a time is inside
  `_schedule_relock`, no step between its cancel and its start finds a timer that
  counts down, since whatever was started was assigned and is reached by the cancel.
- `FaceLockAlways`: `_face_lock` is held by the thread in the with-block, with every
  fault. It is not also a property of a run. `AuditedAlways`: with every fault.
- `OnlyAbortLosesRelockAlways`: with faults `RelockCovered` is no invariant, but a step of
  `Next`, a failed audit row or a failed scan keeps it (`CoverDbError`), since no
  statement that uses the database lies between the cancel and the start of a timer.
- `SerialAgreementAlways`: bolt and record. While `NoOverlap` holds, the only
  thread between its servo command and its write has set the bolt to what it is
  about to record.

`ServoProofs`, for any number of spins and any spin length: type correctness,
`DrivenByOwner` (mutual exclusion through `_busy`), and `SpacedLatestWins`, whose
invariant ties the bolt's distance to the end stop to the half seconds elapsed.

`EnrollmentProofs`, for any number of members, sessions and phones, with every
fault:

- `Rows`, the inductive invariant below all others, says which rows exist and who
  refers to them: an id that was not handed out has left no trace, every session
  has had a member, and a flow or a request refers to a session that was created.
- `VersionTracksAlways`, `NoOrphansAlways`, `StatusMatchesCountAlways`: for these a
  step of any actor is one of four kinds of change to the tables
  (`StepOnTables`), and each kind keeps the property.
- `EnrollmentTypeCorrect`: the hard part is the bound on `count`, since a store does
  not look at it. `CaptureInv` shows that a session is used by one phone, that its
  captures are at most the shots that phone has taken, and that a request left
  behind by a flow belongs to a session no flow uses.
- `PiFlowCompleteAlways`: `PiInv` says that the session of a door-camera flow holds the
  angles of the shots behind it (`Stored`), or somebody deleted encodings. It needs
  `Retained`: no step takes an angle from a session unless it records that in `cleared`.

`MacCaptureProofs`, for any number of jobs and phones: `MacTypeCorrect`, and
`SerialOwnPhotosAlways`, whose invariant (`OneJob`, `Served`) says that the server
holds at most one job - in a request, in the queue or in the main thread - and
where the job of a polling phone is. It is inductive only while `OneFlow` holds:
`mac_overlap` is the other case.

`ScanProofs`, for any members, rows, distances and thresholds: `ShutInv` says that
whoever is shut out is neither recognisable nor among the rows read, and every
handler keeps it because it only takes from `shut`. That a row belongs to a member,
part of `RecogTypeOK`, rests on `RemovalInv`: the rows are gone before the member is.
`SufficesBound` is the arithmetic of the rounding.

The same module, for any cooldown: `ClockInv` ties the code's clock to real time until
it is set, `HighInv` says that `_last_state` remembers a scanned visitor as long as
no low reading and no exception came.

`AlertFeedProofs`, for any number of alerts, polls and restarts: answers on their way lag
behind the table (`Sent`), what was heard is at most the newest id recorded or, before
the first load, in every answer on its way (`HeardInv`), and what a tap has had
answered is read (`ListInv`). Each lemma keeps one part over all actions.

`ScreenProofs`, for any number of requests in flight: `CommandInv` and `NewestInv` say where
the newest request is and what it carries.

`HomeProofs`: `HomeImplementsParts` says that a step of `MCHome` is for each component a
step of its own `Next`, or a stutter; `HomeIsSafe` collects what follows. It is why one
part at a time may move in the run `home`.

### Every property of a run

Every invariant and every safety property of a passing run is a theorem, and every
liveness property but `AllSpinsEnd`, under the fairness given below. `HomeIsSafe` repeats
the safety of `home` for the run's own specification.

Two properties hold under a condition, and the theorems name it where a run
refutes the property without it. `DoorCameraEnrollsAllAngles` proves
`EnrolledHasAllAngles` as long as nobody uses the MacBook flow, with every fault:
`enrollment_angles` needs that flow. `AgreementWithFaults` proves what `doorlock_live`
checks of `SerialAgreement` with faults as well, as long as no `door_state` write is cut off
after its servo command (`DoorWriteCut`), and `BoltCoveredUnlessCut` gives the same
promise of the bolt that `RelockCovered` gives of the record.

### Liveness

ENABLED and induction are out of the prover's reach, so the liveness theorems differ
from what the runs check in two points. Fairness is stated without ENABLED: each `Fair...`
formula says in plain terms when a process can go on (`CanTurn`, `MainCan`, `InMacFlow(p)`, an
answer in flight) and that from then on it does, or again and again cannot. On the
instances of the runs each of them follows from the `WF_` or `SF_` of the run, since the step
is then enabled. And the place of an induction is taken by ranks whose bound is a number
of the code (seven steps to a locked door, three photos), or by the
number of polls that the app's interval and timeout allow.

For each property there are first the facts about single steps (`...ByAdvancing`: what
brings the goal nearer, and that nobody else takes it back), then the theorem.

| Property | Steps | Theorem, and what it assumes |
|---|---|---|
| `EventuallyRelocked` | `RelocksByAdvancing`: an open door has somebody at a distance `Near` from locking it, at most seven steps; a step of the nearest brings it nearer, unless it cancels after an unlock | `EventuallyRelockedIfFair`: `FairTurns`, and `TwoSlots`, two Timer objects at least. The slots are a bound of the model; with one, a thread would wait for a slot where the code just makes a Timer |
| `FaceLockFreed` | `OperationsEndByAdvancing`: `PcRank`, and `WaitsForScan`, which says who holds the lock and where | `FaceLockFreedIfFair`, with every fault: `FairScans` |
| `MacFlowEnds` | `MacFlowEndsByAdvancing`: `MacRank`, first the flow's step and shot, then the phone's old request. The door-camera flow has no rank, since "no face" repeats its shot | `MacFlowEndsIfFair`, with every fault: `FairFlows` |
| `ServerFreed` | `BusyMeansWorkingAlways`, `JobsEndByAdvancing`: a status in progress has somebody working, also when flows overlap, and a job ends in at most `JobEnd` statements | `ServerFreedIfFair`: `FairMain`, `FairPuts` |
| `EventuallyHandled` | `SkipsNothingAlways`: no alert is skipped | `EventuallyHandledIfFair`: `FairTellings`, some answer that was given after the alert was posted gets through |
| `BadgeSettles` | `BadgeSettlesByAdvancing`: only stale answers, a start of the app, the first visit of the screen and the end of a tap put the badge wrong | `BadgeSettlesIfFair`: `FairFeed`, `ThreePolls`, and `Undisturbed` in the end: no post, no tap, no start. In the run the bounds on posts and starts see to that, and taps need not end |
| `ScreenSettles` | `ScreenSettlesByAdvancing`: commands and doorbells end, stale answers grow fewer, a fresh one stays | `ScreenSettlesIfFair`: `FairScreen`, `ThreeStatusPolls` |
| `VisitsScanned` | `VisitsScannedByAdvancing`: `Primed` lasts until the scan, or an edge in the cooldown | `VisitsScannedIfClockRuns`, for any cooldown: `ClockRuns`, the clock is left alone in the end and cooldowns end. That ticks end a cooldown is induction over its length, and TLC's |
| `AllSpinsEnd` | `SpinsEndByAdvancing`: `SpinRank`. All spins share `elapsed`, so that a spin cannot set another one back rests on `BusyInv` | none: its rank is bounded by a constant, and `Quiet` needs all of any number of spins to end |

`EventuallyRelockedIfFair` climbs a ladder: nobody can stay on the highest rung that is
occupied (`Climb`), so some higher one is occupied later (`Rise`), and there is no eighth. It first
shows that cancels run out with the unlocks (`CancelsEnd`). `ServerFreedIfFair` and
`MacFlowEndsIfFair` climb four statements at a time (`JobClimbs`, `MacFlowClimbs`).

What stays with TLC alone: `AllSpinsEnd`; `BadgeSettles` while the user goes on tapping;
`BadgeSettles` and `ScreenSettles` for more polls in flight; and that `WF_` and `SF_` imply the
`Fair...` formulas. The ids that run out in `Enrollment` are a bound of the model: a step that
waits for one is not a step that waits in the code.

Assumptions of the proofs are the named `ASSUME`s on the constants: the
distinguished values are not elements of the sets, and numbers are positive.
`RecognitionAssumption` also says that 0.60, the threshold at start, is one of the
thresholds, and `HomeAssumption` that the poll of the Activity part is one of the
poller's.

## What the violations say

1. `_do_relock` trusts `door_state`; one interleaving of a manual lock with a
   recognised face leaves the bolt open and the row locked.
2. Shutdown and restart lose the relock timer; startup does not lock the door.
3. `_busy` does not order commands, and `_cancel.clear()` may erase the newer
   command's cancel.
4. `complete_enrollment` checks nothing, and the MacBook flow ignores "no face".
5. `/enroll` is check-then-set, and accepts a job while photos are downloaded.

6. `home` refutes nothing, but its properties have the shape the code gives them:
   `FlipAgrees` excepts answers that land before the flip (the next poll repairs
   it), `InStep` lost and overtaken pushes (nothing repairs those before the next
   visit of the tab after a restart of the app), `OnlyRacedLoadHidesAlerts` loads that land during `Mark All Read`,
   `EventuallyHandled` the first list that is not empty, and `OneScanPerVisit` scans that fail.

## What the properties except

Some hazards are in the code as it is. No property that holds can exclude them, and those near
them say how far the damage goes. The cases they leave open:

| Case | Left open by | What bounds it |
|---|---|---|
| a timer that had fired relocks a door that was unlocked anew; two handlers in `_schedule_relock` leave a stray timer | `SerialCountdown` | nothing else shortens a delay |
| an automatic lock that is decided before an unlock and written after it | `RelockCovered`, which speaks of unlocked rows | the door ends locked, never open |
| the bolt, when a `door_state` write raises after the servo command | `OnlyAbortLosesRelock`, which reads the row | `BoltCoveredUnlessCut` (proved only) |
| the event loop stands still while the doorbell waits for `_face_lock` | mutual exclusion | `FaceLockFreed`: the wait ends |
| a member removed while a scan holds the rows is recognised | `ShutOutIsRefused`, about those who could not have been recognised at any point of the scan | one scan |
| the threshold is met by a score up to half a hundredth below it | `ThresholdHonoured` | the rounding, and no more |
| a late upload brings a cancelled session back; a capture, removal or completion cut between commits | `StatusMatchesCount`, `VersionTracksEnrolled` and `NoOrphans`, which look at what is written together | the `Cut...` steps and `RemovalFails` are in the models, and every other property holds with them |
| an alert in the first list that is not empty is not announced | `EventuallyHandled` | only that list |
| rows shown unread after `Mark All Read` | `OnlyRacedLoadHidesAlerts`, which looks for rows wrongly shown read | the next load |
| a poll between a command and its flip | `FlipAgrees` | `ScreenSettles`: the next poll |
| pushes lost or overtaken | `InStep` | nothing, before the next visit after a restart |
| a flip before the stored choices are read is undone | `StoredIsUsers` | nothing |
| a visitor who comes in the cooldown and stays | `OneScanPerVisit` | `VisitsScanned`: the next one who comes after it is scanned |
| a clock that is set | `ScansSpaced` | `VisitsScanned`, with the clock left alone from then on |

## Not modelled

- Frames, streaming, the API key, texts, progress numbers, navigation and styling:
  no other state depends on them.
- Encodings and their distances, which are dlib's, and the random mode of
  `compare_face` without the library.
- In the app: the confidence slider and the stored connection (each a single writer),
  the logs on the screens, spinners and countdowns, mock data.
- `DoorLock` composed with `Servo`: `DoorLock` sets its bolt at the command, `Servo` half a
  second later and in an order `servo_burst` shows to be wrong at times. The
  composition would not implement `DoorLock`'s bolt, and its product is out of reach
  of the runs' time; `BoltRelocked` is refuted already with the simpler bolt.
- Storing an encoding and the app's uploads are in `Enrollment` in detail;
  `Recognition` keeps only their effect on the rows.

Restrictions: one process stands for all handlers of the event loop; a phone runs
one enrollment at a time, as `enrollingMemberId` enforces; the multipart capture
handler has the steps of `capture-b64` and is used by no client.

## Plan

1. Done: `AutoRelock`, `DoorLock`, `Servo`, `Enrollment`, `MacCapture`, their runs and
   theorems.
2. Done: the sensor, recognition, alerts, lock screen and settings, the run `home`,
   and the theorems on their safety and action properties. (A single `MotionAlerts`
   was planned; sensor and alerts share no state and became two modules.)
3. Done: the action properties with faults, the conditional forms of the refuted
   properties, the ranks behind the liveness properties, `HomeProofs`, and the liveness
   theorems.
4. Open: `AllSpinsEnd` as a theorem; an abstract server with one job at a time, which
   `MacCapture` implements while flows do not overlap.
5. Open: an abstract screen ("shows a state the door had") that `LockScreen` does not
   implement as it stands, since a flip after a poll shows one it never had, and
   would need the flip replaced by the command's answer.
