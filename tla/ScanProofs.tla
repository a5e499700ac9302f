----------------------------- MODULE ScanProofs -----------------------------
(***************************************************************************)
(* Theorems about MotionSensor, which starts a scan, for any cooldown and   *)
(* any number of changes of the clock; and about Recognition, which says    *)
(* what a scan decides, for any members, rows, distances and thresholds.    *)
(***************************************************************************)
EXTENDS MotionSensor, Recognition, TLAPS

-----------------------------------------------------------------------------
(* The sensor thread.                                                       *)

\* Until the clock is set it measures real time.
ClockInv == ~clockSet => gap = elapsed

\* As long as the pin was not read low and the scan did not fail, the high
\* reading that started the scan is on its way to _last_state, or in it.
HighInv ==
  /\ thread = "edge" => triggered
  /\ ~sawLow /\ ~threw =>
       \/ thread \in {"scanning", "store"} /\ triggered
       \/ thread \in {"asleep", "top", "ended"} /\ lastState

SensorInv == SensorTypeOK /\ ClockInv /\ HighInv

LEMMA SensorInvInit == SensorInit => SensorInv
<1> SUFFICES ASSUME SensorInit PROVE SensorInv
  OBVIOUS
<1>1. gap \in -Cooldown..Cooldown /\ elapsed \in 0..Cooldown /\ clockSets \in 0..MaxClockSets
  BY SensorAssumption DEF SensorInit
<1>2. sawLow /\ gap = elapsed /\ thread = "top"
  BY DEF SensorInit
<1>3. SensorTypeOK
  BY <1>1, <1>2 DEF SensorInit, SensorTypeOK
<1> QED
  BY <1>2, <1>3 DEF SensorInv, ClockInv, HighInv

LEMMA SensorInvNext == SensorInv /\ [SensorNext]_sensorVars => SensorInv'
<1> SUFFICES ASSUME SensorInv, [SensorNext]_sensorVars
             PROVE  SensorInv'
  OBVIOUS
<1> USE SensorAssumption DEF SensorInv, ticks
<1>1. CASE PinChanges \/ SetDetection \/ Cleanup
  <2>1. /\ UNCHANGED <<thread, triggered, lastState, gap, clockSets, elapsed, clockSet, sawLow, threw>>
        /\ pin' \in BOOLEAN /\ detection' \in BOOLEAN /\ running' \in BOOLEAN
    BY <1>1 DEF PinChanges, SetDetection, Cleanup, SensorTypeOK
  <2>2. SensorTypeOK'
    BY <2>1 DEF SensorTypeOK
  <2> QED
    BY <2>1, <2>2 DEF ClockInv, HighInv
<1>2. CASE Tick
  <2>1. gap' \in -Cooldown..Cooldown /\ elapsed' \in 0..Cooldown
    BY <1>2 DEF Tick, Earlier, SensorTypeOK
  <2>2. ClockInv'
    BY <1>2 DEF Tick, ClockInv
  <2>3. SensorTypeOK' /\ HighInv'
    BY <1>2, <2>1 DEF Tick, SensorTypeOK, HighInv
  <2> QED
    BY <2>2, <2>3
<1>3. CASE SetClock
  BY <1>3 DEF SetClock, SensorTypeOK, ClockInv, HighInv
<1>4. CASE ReadPin
  BY <1>4 DEF ReadPin, Goes, SensorTypeOK, ClockInv, HighInv
<1>5. CASE LeaveLoop \/ DropEdge \/ EndScan \/ Wake
  BY <1>5 DEF LeaveLoop, DropEdge, EndScan, Wake, Goes, SensorTypeOK, ClockInv, HighInv
<1>6. CASE StartScan
  <2>1. SensorTypeOK'
    <3>1. gap' \in -Cooldown..Cooldown /\ elapsed' \in 0..Cooldown
      BY <1>6 DEF StartScan
    <3>2. clockSet' \in BOOLEAN /\ sawLow' \in BOOLEAN /\ threw' \in BOOLEAN
      BY <1>6 DEF StartScan
    <3> QED
      BY <1>6, <3>1, <3>2 DEF StartScan, Goes, SensorTypeOK
  <2>2. gap' = elapsed'
    BY <1>6 DEF StartScan
  <2>3. thread' = "scanning" /\ triggered'
    BY <1>6 DEF StartScan, Goes, HighInv
  <2> QED
    BY <2>1, <2>2, <2>3 DEF ClockInv, HighInv
<1>7. CASE StoreState
  BY <1>7 DEF StoreState, Goes, SensorTypeOK, ClockInv, HighInv
<1>8. CASE Throw
  BY <1>8 DEF Throw, Goes, SensorTypeOK, ClockInv, HighInv
<1>9. CASE UNCHANGED sensorVars
  BY <1>9 DEF sensorVars, SensorTypeOK, ClockInv, HighInv
<1> QED
  BY <1>1, <1>2, <1>3, <1>4, <1>5, <1>6, <1>7, <1>8, <1>9 DEF SensorNext, PollLoop

LEMMA SensorInvAlways == SensorSpec => []SensorInv
BY SensorInvInit, SensorInvNext, PTL DEF SensorSpec

\* Type correctness of the sensor thread: an exception never takes it out of
\* its loop.
THEOREM SensorTypeCorrect == SensorSpec => []SensorTypeOK
<1>1. SensorInv => SensorTypeOK
  BY DEF SensorInv
<1> QED
  BY <1>1, SensorInvAlways, PTL

\* Two scans start a cooldown of real time apart, unless the clock was set,
\* for any cooldown.
THEOREM ScansSpacedAlways == SensorSpec => ScansSpaced
<1>1. SensorInv /\ [SensorNext]_sensorVars
        => [StartScan => elapsed = Cooldown \/ clockSet]_sensorVars
  BY SensorAssumption DEF SensorInv, SensorTypeOK, ClockInv, StartScan, CoolingDown
<1> QED
  BY <1>1, SensorInvAlways, PTL DEF SensorSpec, ScansSpaced

\* A scan is followed by another one only after a low reading or a failure.
THEOREM OneScanPerVisitAlways == SensorSpec => OneScanPerVisit
<1>1. SensorInv /\ [SensorNext]_sensorVars => [StartScan => sawLow \/ threw]_sensorVars
  BY DEF SensorInv, HighInv, StartScan, Goes
<1> QED
  BY <1>1, SensorInvAlways, PTL DEF SensorSpec, OneScanPerVisit

-----------------------------------------------------------------------------
(* The arithmetic of compare_face.                                          *)

\* A rounded confidence that suffices is at most half a hundredth too good.
LEMMA SufficesBound ==
  ASSUME NEW d \in Int, NEW c \in Confidences(d), NEW t \in Int
  PROVE  /\ c \in Int
         /\ c >= t => 10 * t - 5 <= 1000 - d
         /\ 10 * t + 5 <= 1000 - d => c >= t
<1>1. (1000 - d) \div 10 \in Int
  OBVIOUS
<1>2. c \in Int /\ 10 * c - 5 <= 1000 - d /\ 1000 - d <= 10 * c + 5
  BY <1>1 DEF Confidences
<1> QED
  BY <1>2

-----------------------------------------------------------------------------
(* The invariant.                                                           *)

\* While a scan runs, whoever is shut out is not recognisable, was not read,
\* and was not decided for.
ShutInv ==
  /\ scan # "idle" => shut \intersect Recognisable = {}
  /\ scan = "read" => \A r \in Row : known[r] \notin shut
  /\ decided \notin shut

\* Nobody is decided for before the comparison.
IdleInv == scan # "decided" => decided = Nobody

\* Between the two transactions of a removal its member has no rows.
RemovalInv == removing # Nobody => \A r \in Row : encodes[r] # removing

RecogInv == RecogTypeOK /\ ShutInv /\ IdleInv /\ RemovalInv

LEMMA RecogInvInit == RecogInit => RecogInv
BY RecognitionAssumption DEF RecogInit, RecogInv, RecogTypeOK, ShutInv, IdleInv, RemovalInv, NoRow

\* What a handler has to show, when the scan does not move.
LEMMA HandlerKeeps ==
  ASSUME RecogInv, UNCHANGED scanVars, ShutOut, RecogTypeOK', RemovalInv'
  PROVE  RecogInv'
<1>1. shut' \subseteq shut
  BY DEF ShutOut
<1>2. scan # "idle" => shut' \intersect Recognisable' = {}
  BY DEF ShutOut
<1> QED
  BY <1>1, <1>2 DEF RecogInv, ShutInv, IdleInv, scanVars

LEMMA RecogInvNext == RecogInv /\ [RecogNext]_recogVars => RecogInv'
<1> SUFFICES ASSUME RecogInv, [RecogNext]_recogVars
             PROVE  RecogInv'
  OBVIOUS
<1> USE RecognitionAssumption
<1>t. RecogTypeOK
  BY DEF RecogInv
<1>1. ASSUME NEW m \in Member, CompleteEnrollment(m)
      PROVE  RecogInv'
  <2>1. RecogTypeOK'
    BY <1>1, <1>t DEF CompleteEnrollment, Handler, ShutOut, RecogTypeOK, scanVars
  <2>2. RemovalInv'
    BY <1>1, <1>t DEF CompleteEnrollment, Handler, RecogTypeOK, RemovalInv
  <2> QED
    BY <1>1, <2>1, <2>2, HandlerKeeps DEF CompleteEnrollment, Handler
<1>2. ASSUME NEW m \in Member, BeginRemoval(m)
      PROVE  RecogInv'
  <2>1. RecogTypeOK'
    BY <1>2, <1>t DEF BeginRemoval, DropEncodings, Handler, ShutOut, RecogTypeOK, scanVars
  <2>2. RemovalInv'
    BY <1>2, <1>t DEF BeginRemoval, DropEncodings, Handler, RecogTypeOK, RemovalInv
  <2> QED
    BY <1>2, <2>1, <2>2, HandlerKeeps DEF BeginRemoval, Handler
<1>3. ASSUME NEW m \in Member, NEW r \in Row, StoreEncoding(m, r)
      PROVE  RecogInv'
  <2>1. RecogTypeOK'
    BY <1>3, <1>t DEF StoreEncoding, Handler, ShutOut, RecogTypeOK, scanVars
  <2>2. RemovalInv'
    BY <1>3, <1>t DEF StoreEncoding, Handler, RecogTypeOK, RemovalInv
  <2> QED
    BY <1>3, <2>1, <2>2, HandlerKeeps DEF StoreEncoding, Handler
<1>4. CASE EndRemoval \/ RemovalFails
  <2>1. RecogTypeOK'
    BY <1>4, <1>t DEF EndRemoval, RemovalFails, tables, ShutOut, RecogInv, RecogTypeOK, RemovalInv, scanVars
  <2>2. RemovalInv'
    BY <1>4, <1>t DEF EndRemoval, RemovalFails, RecogTypeOK, RemovalInv
  <2> QED
    BY <1>4, <2>1, <2>2, HandlerKeeps DEF EndRemoval, RemovalFails
<1>5. CASE SetConfidence
  BY <1>5, <1>t DEF SetConfidence, RecogInv, RecogTypeOK, ShutInv, IdleInv, RemovalInv, Recognisable, tables, scanVars
<1>6. CASE GrabFace
  <2>1. RecogTypeOK'
    BY <1>6, <1>t DEF GrabFace, RecogTypeOK, tables
  <2>2. Recognisable' = Recognisable
    BY <1>6 DEF GrabFace, tables, Recognisable
  <2>3. decided = Nobody
    BY <1>6 DEF GrabFace, RecogInv, IdleInv
  <2>4. shut' \intersect Recognisable' = {}
    BY <1>6, <2>2 DEF GrabFace
  <2> QED
    BY <1>6, <2>1, <2>3, <2>4 DEF GrabFace, RecogInv, ShutInv, IdleInv, RemovalInv, tables
<1>7. CASE ReadEntries
  <2>1. RecogTypeOK'
    BY <1>7, <1>t DEF ReadEntries, Entries, RecogTypeOK, tables
  <2>2. \A r \in Row : known'[r] \notin shut'
    <3>1. TAKE r \in Row
    <3>2. known'[r] = IF encodes[r] \in enrolled THEN encodes[r] ELSE Nobody
      BY <1>7 DEF ReadEntries, Entries
    <3>3. encodes[r] \in enrolled => encodes[r] \in Recognisable
      BY DEF Recognisable
    <3> QED
      BY <1>7, <1>t, <3>2, <3>3 DEF ReadEntries, RecogInv, ShutInv, RecogTypeOK
  <2>3. Recognisable' = Recognisable
    BY <1>7 DEF ReadEntries, tables, Recognisable
  <2> QED
    BY <1>7, <2>1, <2>2, <2>3 DEF ReadEntries, RecogInv, ShutInv, IdleInv, RemovalInv, tables
<1>8. CASE Conclude
  BY <1>8, <1>t DEF Conclude, RecogInv, RecogTypeOK, ShutInv, IdleInv, RemovalInv, NoRow, tables
<1>9. ASSUME NEW distance \in [Row -> Distance], Compare(distance)
      PROVE  RecogInv'
  <2>1. decided' = Nobody \/ \E r \in Row : decided' = known[r]
    BY <1>9 DEF Compare, Nearest, Read
  <2>2. decided' \in (Member \union {Nobody}) \ shut
    BY <1>9, <1>t, <2>1 DEF Compare, RecogInv, ShutInv, RecogTypeOK
  <2>3. RecogTypeOK'
    BY <1>9, <1>t, <2>2 DEF Compare, RecogTypeOK, tables
  <2>4. Recognisable' = Recognisable
    BY <1>9 DEF Compare, tables, Recognisable
  <2> QED
    BY <1>9, <2>2, <2>3, <2>4 DEF Compare, RecogInv, ShutInv, IdleInv, RemovalInv, tables
<1>10. CASE UNCHANGED recogVars
  BY <1>10, <1>t DEF recogVars, tables, scanVars, RecogInv, RecogTypeOK, ShutInv, IdleInv, RemovalInv, Recognisable
<1> QED
  BY <1>1, <1>2, <1>3, <1>4, <1>5, <1>6, <1>7, <1>8, <1>9, <1>10 DEF RecogNext, Scan

LEMMA RecogInvAlways == RecogSpec => []RecogInv
BY RecogInvInit, RecogInvNext, PTL DEF RecogSpec

-----------------------------------------------------------------------------
(* The theorems.                                                            *)

\* Type correctness: a row of face_encodings always belongs to a member, and
\* only members have completed an enrollment.
THEOREM RecogTypeCorrect == RecogSpec => []RecogTypeOK
<1>1. RecogInv => RecogTypeOK
  BY DEF RecogInv
<1> QED
  BY <1>1, RecogInvAlways, PTL

\* No scan decides for a member who could not have been recognised at any
\* point of it, whatever the handlers did meanwhile.
THEOREM ShutOutIsRefusedAlways == RecogSpec => []ShutOutIsRefused
<1>1. RecogInv => ShutOutIsRefused
  BY DEF RecogInv, ShutInv, ShutOutIsRefused
<1> QED
  BY <1>1, RecogInvAlways, PTL

\* A decision honours the threshold to half a hundredth, both ways.
THEOREM ThresholdHonouredAlways == RecogSpec => ThresholdHonoured
<1> DEFINE Honours(distance) ==
      /\ decided' # Nobody =>
           \E r \in Read : /\ known[r] = decided'
                           /\ 10 * threshold - 5 <= 1000 - distance[r]
                           /\ \A q \in Read : distance[r] <= distance[q]
      /\ (\E r \in Read : 10 * threshold + 5 <= 1000 - distance[r]) => decided' # Nobody
<1>1. ASSUME RecogTypeOK, NEW distance \in [Row -> Distance], Compare(distance)
      PROVE  Honours(distance)
  <2>0. threshold \in Int /\ \A r \in Row : distance[r] \in Int
    <3>1. threshold \in 0..100
      BY <1>1, RecognitionAssumption DEF RecogTypeOK
    <3>2. ASSUME NEW r \in Row PROVE distance[r] \in Nat
      BY RecognitionAssumption
    <3> QED
      BY <3>1, <3>2
  <2>1. CASE Read = {} /\ decided' = Nobody
    BY <2>1
  <2>2. ASSUME NEW r \in Nearest(distance), NEW c \in Confidences(distance[r]),
               decided' = IF Suffices(c) THEN known[r] ELSE Nobody
        PROVE  Honours(distance)
    <3>1. r \in Row /\ r \in Read /\ \A q \in Read : distance[r] <= distance[q]
      BY <2>2 DEF Nearest, Read
    <3>2. known[r] # Nobody
      BY <3>1 DEF Read
    <3>3. /\ c \in Int
          /\ c >= threshold => 10 * threshold - 5 <= 1000 - distance[r]
          /\ 10 * threshold + 5 <= 1000 - distance[r] => c >= threshold
      BY <2>0, <2>2, <3>1, SufficesBound
    <3>4. CASE Suffices(c)
      BY <2>2, <3>1, <3>2, <3>3, <3>4 DEF Suffices
    <3>5. CASE ~Suffices(c)
      <4>1. \A q \in Read : ~(10 * threshold + 5 <= 1000 - distance[q])
        <5> SUFFICES ASSUME NEW q \in Read
                     PROVE  ~(10 * threshold + 5 <= 1000 - distance[q])
          OBVIOUS
        <5>1. q \in Row /\ distance[r] <= distance[q]
          BY <3>1 DEF Read
        <5> QED
          BY <2>0, <3>1, <3>3, <3>5, <5>1 DEF Suffices
      <4> QED
        BY <2>2, <3>5, <4>1
    <3> QED
      BY <3>4, <3>5
  <2> QED
    BY <1>1, <2>1, <2>2 DEF Compare
<1>2. RecogInv /\ [RecogNext]_recogVars
        => [\A distance \in [Row -> Distance] : Compare(distance) => Honours(distance)]_recogVars
  BY <1>1 DEF RecogInv
<1> QED
  BY <1>2, RecogInvAlways, PTL DEF RecogSpec, ThresholdHonoured

-----------------------------------------------------------------------------
(* VisitsScanned, as far as it is safety.                                   *)

\* The next high reading is a rising edge, or is being handled as one.
Primed ==
  \/ thread = "store" /\ ~triggered
  \/ thread \in {"asleep", "top"} /\ ~lastState
  \/ thread = "edge"

\* Nothing stands between a rising edge and a scan.
Ready == Primed /\ detection /\ running /\ gap = Cooldown

\* The cooldown wears off however many edges it swallows.  A low reading primes
\* the thread, whatever it did before, and from then on neither exceptions nor
\* further readings disarm it: only the scan does, or the end of the cooldown's
\* truce by a clock that is set back.
SensorAdvances ==
  /\ gap' < gap => StartScan \/ SetClock
  /\ Tick /\ gap < Cooldown => gap' > gap
  /\ ReadPin /\ ~pin => Primed'
  /\ Ready => Ready' \/ StartScan \/ SetClock \/ ~detection' \/ ~running'
  /\ Ready /\ ReadPin /\ pin => thread' = "edge"
  /\ Ready /\ thread = "edge" /\ PollLoop => StartScan

LEMMA CooldownWearsOff ==
  ASSUME SensorInv, SensorNext
  PROVE  /\ gap' < gap => StartScan \/ SetClock
         /\ Tick /\ gap < Cooldown => gap' > gap
<1>1. gap \in Int /\ Cooldown \in Int /\ gap <= Cooldown
  BY SensorAssumption DEF SensorInv, SensorTypeOK
<1>2. Tick => gap' = IF gap + 1 < Cooldown THEN gap + 1 ELSE Cooldown
  BY DEF Tick, Earlier
<1>3. Tick \/ StartScan \/ SetClock \/ gap' = gap
  BY DEF SensorNext, PollLoop, PinChanges, SetDetection, Cleanup, ReadPin, LeaveLoop, DropEdge,
     EndScan, StoreState, Throw, Wake, ticks
<1> QED
  BY <1>1, <1>2, <1>3

\* Whatever the thread does next, the scan and a dropped edge apart.
LEMMA PrimedKept ==
  ASSUME SensorInv, SensorNext, Primed, running, ~StartScan, ~DropEdge
  PROVE  Primed'
<1>1. CASE PinChanges \/ SetDetection \/ Tick \/ SetClock \/ Cleanup
  BY <1>1 DEF PinChanges, SetDetection, Tick, SetClock, Cleanup, Primed
<1>2. CASE ReadPin
  BY <1>2 DEF ReadPin, Goes, Primed, SensorInv, SensorTypeOK
<1>3. CASE StoreState
  BY <1>3 DEF StoreState, Goes, Primed
<1>4. CASE EndScan \/ Throw \/ Wake
  BY <1>4 DEF EndScan, Throw, Wake, Goes, Primed
<1>5. ~LeaveLoop
  BY DEF LeaveLoop
<1> QED
  BY <1>1, <1>2, <1>3, <1>4, <1>5 DEF SensorNext, PollLoop

\* VisitsScanned up to fairness, for any cooldown: after a low reading, once the
\* cooldown is over, a high reading that raises nothing is an edge and that edge
\* a scan.
THEOREM VisitsScannedByAdvancing == SensorSpec => [][SensorAdvances]_sensorVars
<1>1. SensorInv /\ SensorNext => SensorAdvances
  <2> SUFFICES ASSUME SensorInv, SensorNext
               PROVE  SensorAdvances
    OBVIOUS
  <2>1. ReadPin /\ ~pin => Primed'
    BY DEF ReadPin, Goes, Primed
  <2>2. ASSUME Ready PROVE ~DropEdge
    <3>1. ~(gap < Cooldown)
      BY <2>2, SensorAssumption DEF Ready
    <3> QED
      BY <2>2, <3>1 DEF Ready, DropEdge, CoolingDown
  <2>3. Ready => Ready' \/ StartScan \/ SetClock \/ ~detection' \/ ~running'
    <3> SUFFICES ASSUME Ready, ~StartScan, ~SetClock, detection', running'
                 PROVE  Primed' /\ gap' = Cooldown
      BY DEF Ready
    <3>1. Primed'
      BY <2>2, PrimedKept DEF Ready
    <3>2. gap = Cooldown /\ Cooldown \in Int
      BY SensorAssumption DEF Ready
    <3>3. Tick => gap' = Cooldown
      BY <3>2 DEF Tick, Earlier
    <3>4. Tick \/ gap' = gap
      BY DEF SensorNext, PollLoop, PinChanges, SetDetection, Cleanup, ReadPin, LeaveLoop, DropEdge,
         EndScan, StoreState, Throw, Wake, ticks
    <3> QED
      BY <3>1, <3>2, <3>3, <3>4
  <2>4. Ready /\ ReadPin /\ pin => thread' = "edge"
    BY DEF Ready, Primed, ReadPin, Goes
  <2>5. Ready /\ thread = "edge" /\ PollLoop => StartScan
    BY <2>2 DEF PollLoop, ReadPin, LeaveLoop, EndScan, StoreState, Throw, Wake, Goes
  <2> QED
    BY <2>1, <2>3, <2>4, <2>5, CooldownWearsOff DEF SensorAdvances
<1> QED
  BY <1>1, SensorInvAlways, PTL DEF SensorSpec

-----------------------------------------------------------------------------
(* VisitsScanned itself.                                                    *)

\* NTP leaves the clock alone in the end, and the cooldown ends again and again.
ClockRuns == <>[][~SetClock]_sensorVars /\ []<>(gap = Cooldown)

\* From an edge the thread goes nowhere but into the scan.
LEMMA EdgeWaits ==
  ASSUME [SensorNext]_sensorVars, [SensorAdvances]_sensorVars, [~StartScan]_sensorVars,
         Ready, thread = "edge"
  PROVE  thread' = "edge"
<1>1. CASE PollLoop
  <2>1. CASE UNCHANGED sensorVars
    BY <2>1 DEF sensorVars
  <2>2. CASE SensorAdvances /\ ~StartScan
    BY <1>1, <2>2 DEF SensorAdvances
  <2> QED
    BY <2>1, <2>2
<1>2. CASE PinChanges \/ SetDetection \/ Tick \/ SetClock \/ Cleanup \/ UNCHANGED sensorVars
  BY <1>2 DEF PinChanges, SetDetection, Tick, SetClock, Cleanup, sensorVars
<1> QED
  BY <1>1, <1>2 DEF SensorNext

\* VisitsScanned, for any cooldown and however often the clock was set before.
THEOREM VisitsScannedIfClockRuns == SensorSpec /\ ClockRuns => VisitsScanned
<1> DEFINE Over == gap = Cooldown
<1> DEFINE On == detection /\ running
<1> DEFINE Edge == thread = "edge"
<1> DEFINE Low == ReadPin /\ ~pin
<1> DEFINE High == ReadPin /\ pin
<1>1. /\ SensorInv /\ SensorInv' /\ [SensorAdvances]_sensorVars
      /\ [~StartScan]_sensorVars /\ [~SetClock]_sensorVars /\ Over
      => Over'
  <2> SUFFICES ASSUME SensorInv, SensorInv', SensorAdvances, ~StartScan, ~SetClock, Over
               PROVE  Over'
    BY DEF sensorVars, ticks
  <2>1. gap \in Int /\ gap' \in Int /\ gap' <= Cooldown /\ Cooldown \in Int
    BY SensorAssumption DEF SensorInv, SensorTypeOK
  <2> QED
    BY <2>1 DEF SensorAdvances
<1>2. [SensorAdvances]_sensorVars /\ <<Low>>_sensorVars => Primed'
  BY DEF SensorAdvances
<1>3. /\ [SensorAdvances]_sensorVars /\ [~StartScan]_sensorVars /\ [~SetClock]_sensorVars
      /\ Ready /\ On'
      => Ready'
  BY DEF SensorAdvances, Ready, Primed, sensorVars, ticks
<1>4. Ready <=> Primed /\ Over /\ On
  BY DEF Ready
<1>5. [SensorAdvances]_sensorVars /\ Ready /\ <<High>>_sensorVars => Edge'
  BY DEF SensorAdvances
<1>6. /\ [SensorNext]_sensorVars /\ [SensorAdvances]_sensorVars /\ [~StartScan]_sensorVars
      /\ Ready /\ Edge
      => Edge'
  BY EdgeWaits
<1>7. High => ~Edge
  BY DEF ReadPin, Goes
<1>8. SensorSpec => []SensorInv
  BY SensorInvAlways
<1>9. ClockRuns => <>[][~SetClock]_sensorVars /\ []<>Over
  BY DEF ClockRuns
<1>10. SensorSpec /\ ClockRuns /\ <>[]On /\ []<><<Low>>_sensorVars /\ []<><<High>>_sensorVars
       => []<><<StartScan>>_sensorVars
  <2> HIDE DEF Over, On, Edge, Low, High
  <2> QED
    BY <1>1, <1>2, <1>3, <1>4, <1>5, <1>6, <1>7, <1>8, <1>9, VisitsScannedByAdvancing, PTL DEF SensorSpec
<1> QED
  BY <1>10 DEF VisitsScanned

=============================================================================
