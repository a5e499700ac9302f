-------------------------- MODULE MacCaptureProofs --------------------------
(***************************************************************************)
(* Theorems about MacCapture, for any number of jobs and phones.            *)
(***************************************************************************)
EXTENDS MacCapture, TLAPS

-----------------------------------------------------------------------------
(* Type correctness.                                                        *)

\* What the main thread knows of the photos at each of its steps.
PhotosInv ==
  /\ main.step # "idle" => main.job \in Job
  /\ main.step \notin {"idle", "clear"} => images.of = main.job
  /\ main.step = "open" => images.n = 0
  /\ main.step \in {"announce", "frame"} => images.n < Angles
  /\ main.step = "finish" => images.n = Angles

RequestInv == \A p \in Phone : request[p].step # "none" => request[p].job \in Job

TypeInv == TypeOK /\ PhotosInv /\ RequestInv

LEMMA RequestTypes ==
  ASSUME TypeInv, NEW p \in Phone, RequestStep(p)
  PROVE  TypeInv'
<1> USE MacCaptureAssumption
<1>1. /\ request[p].step # "none" => request[p].job \in Job
      /\ phone[p] \in Phones
  BY DEF TypeInv, TypeOK, RequestInv
<1>2. Away \in Phones /\ [phone[p] EXCEPT !.step = "poll"] \in Phones
  <2>1. Away \in Phones
    BY DEF Away, Phones, Angles
  <2>2. [phone[p] EXCEPT !.step = "poll"] \in Phones
    BY <1>1 DEF Phones
  <2> QED
    BY <2>1, <2>2
<1>3. PhotosInv'
  BY DEF TypeInv, PhotosInv, RequestStep, Refuse, Accept, SetStarting, Put, server
<1>4. /\ UNCHANGED <<asked, images, main>>
      /\ phone' \in [Phone -> Phones]
  BY <1>2 DEF TypeInv, TypeOK, RequestStep, Refuse, Accept, SetStarting, Put, server, Reply
<1>5. /\ request' \in [Phone -> [step : {"none", "check", "set", "put"}, job : Job \union {NoJob}]]
      /\ RequestInv'
  <2> DEFINE R == [step : {"none", "check", "set", "put"}, job : Job \union {NoJob}]
  <2>1. \/ request' = [request EXCEPT ![p] = NoRequest]
        \/ \E k \in {"set", "put"} : request' = [request EXCEPT ![p].step = k]
    BY DEF RequestStep, Refuse, Accept, SetStarting, Put
  <2>2. request[p] \in R /\ request[p].step # "none"
    BY DEF TypeInv, TypeOK, RequestStep, Refuse, Accept, SetStarting, Put
  <2>3. CASE request' = [request EXCEPT ![p] = NoRequest]
    <3>1. NoRequest \in R
      BY DEF NoRequest
    <3> QED
      BY <2>3, <3>1 DEF TypeInv, TypeOK, RequestInv, NoRequest
  <2>4. ASSUME NEW k \in {"set", "put"}, request' = [request EXCEPT ![p].step = k]
        PROVE  request' \in [Phone -> R] /\ RequestInv'
    <3>1. [request[p] EXCEPT !.step = k] \in R /\ [request[p] EXCEPT !.step = k].job = request[p].job
      BY <2>2
    <3> HIDE DEF R
    <3>2. request'[p] = [request[p] EXCEPT !.step = k]
          /\ \A q \in Phone \ {p} : request'[q] = request[q]
      BY <2>4 DEF TypeInv, TypeOK
    <3>3. request' \in [Phone -> R]
      BY <2>4, <3>1, <3>2 DEF TypeInv, TypeOK, R
    <3> QED
      BY <1>1, <2>2, <3>1, <3>2, <3>3 DEF TypeInv, RequestInv
  <2> QED
    BY <2>1, <2>3, <2>4
<1>6. status' \in Status
  BY DEF TypeInv, TypeOK, RequestStep, Refuse, Accept, SetStarting, Put, server, Status, Angles
<1>7. queue' \in Seq(Job)
  <2>1. CASE Put(p)
    <3>1. request[p].job \in Job
      BY <1>1, <2>1 DEF Put
    <3> QED
      BY <2>1, <3>1 DEF TypeInv, TypeOK, Put
  <2>2. CASE ~Put(p)
    BY <2>2 DEF TypeInv, TypeOK, RequestStep, Refuse, Accept, SetStarting, server
  <2> QED
    BY <2>1, <2>2
<1> QED
  BY <1>3, <1>4, <1>5, <1>6, <1>7 DEF TypeInv, TypeOK

LEMMA MainTypes ==
  ASSUME TypeInv, MainStep
  PROVE  TypeInv'
<1> USE MacCaptureAssumption DEF TypeInv, TypeOK, PhotosInv, RequestInv, apps, Status, Images, Main,
        Angles
<1>1. CASE TakeJob
  <2>1. Head(queue) \in Job /\ Tail(queue) \in Seq(Job)
    BY <1>1 DEF TakeJob
  <2> QED
    BY <1>1, <2>1 DEF TakeJob
<1>2. CASE Clear
  BY <1>2 DEF Clear
<1>3. CASE OpenWebcam
  BY <1>3 DEF OpenWebcam
<1>4. CASE Announce
  BY <1>4 DEF Announce
<1>5. CASE StorePhoto
  BY <1>5 DEF StorePhoto
<1>6. CASE Report
  BY <1>6 DEF Report
<1>7. CASE FinishJob
  BY <1>7 DEF FinishJob
<1>8. CASE Fail
  BY <1>8 DEF Fail
<1> QED
  BY <1>1, <1>2, <1>3, <1>4, <1>5, <1>6, <1>7, <1>8 DEF MainStep

LEMMA DownloadTypes ==
  ASSUME TypeOK, NEW p \in Phone, Download(p)
  PROVE  phone' \in [Phone -> Phones]
<1>1. phone[p] \in Phones /\ Away \in Phones
  BY DEF TypeOK, Phones, Away, Angles
<1>2. phone[p].shot + 1 # Angles /\ phone[p].shot < Angles => phone[p].shot + 1 \in 0..Angles
  BY <1>1 DEF Phones, Angles
<1>3. images.n > phone[p].shot => phone[p].shot < Angles
  BY <1>1 DEF TypeOK, Images, Phones, Angles
<1>4. CASE phone' = [phone EXCEPT ![p] = Away]
  BY <1>1, <1>4 DEF TypeOK
<1>5. CASE /\ phone[p].shot + 1 \in 0..Angles
           /\ phone' = [phone EXCEPT ![p] = [phone[p] EXCEPT !.shot = @ + 1]]
  <2>1. [phone[p] EXCEPT !.shot = @ + 1] \in Phones
    BY <1>1, <1>5 DEF Phones
  <2> QED
    BY <1>5, <2>1 DEF TypeOK
<1>6. images.n <= phone[p].shot \/ images.n > phone[p].shot
  BY <1>1 DEF TypeOK, Images, Phones, Angles
<1> QED
  BY <1>2, <1>3, <1>4, <1>5, <1>6 DEF Download

LEMMA PhoneTypes ==
  ASSUME TypeInv, NEW p \in Phone, PhoneStep(p)
  PROVE  TypeInv'
<1> USE MacCaptureAssumption DEF TypeInv, TypeOK, PhotosInv, RequestInv, Phones, Away, server, Angles
<1>1. CASE Post(p)
  BY <1>1 DEF Post
<1>2. CASE GiveUp(p)
  BY <1>2 DEF GiveUp
<1>3. CASE Poll(p)
  <2>1. Away \in Phones /\ [phone[p] EXCEPT !.step = "download"] \in Phones
    OBVIOUS
  <2> HIDE DEF Phones, Away
  <2>2. phone' \in [Phone -> Phones]
    BY <1>3, <2>1 DEF Poll
  <2> QED
    BY <1>3, <2>2 DEF Poll
<1>4. CASE Download(p)
  <2>1. phone' \in [Phone -> Phones]
    BY <1>4, DownloadTypes
  <2> HIDE DEF Phones
  <2> QED
    BY <1>4, <2>1 DEF Download
<1> QED
  BY <1>1, <1>2, <1>3, <1>4 DEF PhoneStep

LEMMA TypeInvAlways == Spec => []TypeInv
<1>1. Init => TypeInv
  BY MacCaptureAssumption DEF Init, TypeInv, TypeOK, PhotosInv, RequestInv, Status, Images, Main, Phones,
     NoRequest, Away, Angles
<1>2. TypeInv /\ [Next]_vars => TypeInv'
  <2> SUFFICES ASSUME TypeInv, [Next]_vars PROVE TypeInv'
    OBVIOUS
  <2>1. CASE UNCHANGED vars
    BY <2>1 DEF vars, TypeInv, TypeOK, PhotosInv, RequestInv
  <2> QED
    BY <2>1, RequestTypes, MainTypes, PhoneTypes DEF Next
<1> QED
  BY <1>1, <1>2, PTL DEF Spec

\* The variables keep their types: no job stores a fourth photo.
THEOREM MacTypeCorrect == Spec => []TypeOK
<1>1. TypeInv => TypeOK
  BY DEF TypeInv
<1> QED
  BY <1>1, TypeInvAlways, PTL

-----------------------------------------------------------------------------
(* Flows that do not overlap.                                               *)

Starting == [is |-> "starting", n |-> 0]

\* The server has at most one job: in a request that was accepted, in the queue
\* or in the main thread; and a status that is not in progress means none.
OneJob ==
  /\ queue # <<>> => (\E j \in Job : queue = <<j>>) /\ main.step = "idle" /\ status = Starting
  /\ \A p \in Phone : request[p].step \in {"set", "put"} => queue = <<>> /\ main.step = "idle"
  /\ \A p \in Phone : request[p].step = "put" => status = Starting
  /\ ~InProgress => queue = <<>> /\ main.step = "idle"
  /\ main.step \in {"clear", "open"} => status = Starting
  /\ main.step \in {"announce", "frame"} => status.n <= images.n
  /\ main.step = "report" => status.n < images.n

Taken(j) == images = [of |-> j, n |-> Angles]

\* Where the job of a phone is that polls or downloads.
Served(p) ==
  /\ phone[p].step = "post" => request[p].step # "none" /\ request[p].job = phone[p].job
  /\ phone[p].step \in {"poll", "download"} => request[p] = NoRequest
  /\ phone[p].step = "poll" =>
       \/ queue = <<phone[p].job>>
       \/ main.step # "idle" /\ main.job = phone[p].job
       \/ /\ main.step = "idle" /\ queue = <<>>
          /\ status.is = "error" \/ (status.is = "captured_all" /\ Taken(phone[p].job))
  /\ phone[p].step = "download" =>
       Taken(phone[p].job) /\ queue = <<>> /\ main.step \in {"finish", "idle"}

SerialInv == OneJob /\ \A p \in Phone : Served(p)

\* While p has a flow, the others have none.
LEMMA OthersAway ==
  ASSUME OneFlow, NEW p \in Phone, Active(p), NEW q \in Phone \ {p}
  PROVE  phone[q] = Away /\ request[q] = NoRequest
  BY DEF OneFlow, Active

LEMMA AwayIsServed ==
  ASSUME NEW q \in Phone, phone'[q] = Away
  PROVE  Served(q)'
  BY DEF Served, Away

LEMMA StatusType ==
  ASSUME TypeInv
  PROVE  status.n \in 0..3 /\ images.n \in 0..3
  BY DEF TypeInv, TypeOK, Status, Images, Angles

LEMMA MainSerial ==
  ASSUME TypeInv, SerialInv, MainStep
  PROVE  SerialInv'
<1> USE DEF SerialInv, OneJob, Served, Taken, apps, InProgress, Starting
<1>0. status.n \in 0..3 /\ images.n \in 0..3
  BY StatusType
<1>1. CASE TakeJob
  <2>1. PICK j \in Job : queue = <<j>> /\ main.step = "idle" /\ status = Starting
    BY <1>1 DEF TakeJob
  <2>2. main' = [step |-> "clear", job |-> j] /\ queue' = <<>>
    BY <1>1, <2>1 DEF TakeJob
  <2>3. OneJob'
    BY <1>1, <2>1, <2>2 DEF TakeJob
  <2>4. ASSUME NEW p \in Phone PROVE Served(p)'
    <3>1. queue = <<phone[p].job>> => j = phone[p].job
      BY <2>1
    <3> QED
      BY <1>1, <2>1, <2>2, <3>1 DEF TakeJob
  <2> QED
    BY <2>3, <2>4
<1>2. CASE Clear
  BY <1>2 DEF Clear, TypeInv, TypeOK, Main
<1>3. CASE OpenWebcam
  BY <1>3 DEF OpenWebcam, TypeInv, TypeOK, Main, PhotosInv
<1>4. CASE Announce
  BY <1>0, <1>4 DEF Announce, TypeInv, TypeOK, Main
<1>5. CASE StorePhoto
  BY <1>0, <1>5 DEF StorePhoto, TypeInv, TypeOK, Main, Images
<1>6. CASE Report
  BY <1>0, <1>6 DEF Report, TypeInv, TypeOK, Main
<1>7. CASE FinishJob
  BY <1>0, <1>7 DEF FinishJob, TypeInv, TypeOK, Main, Images, PhotosInv
<1>8. CASE Fail
  BY <1>8 DEF Fail
<1> QED
  BY <1>1, <1>2, <1>3, <1>4, <1>5, <1>6, <1>7, <1>8 DEF MainStep

LEMMA RequestSerial ==
  ASSUME TypeInv, SerialInv, OneFlow, NEW p \in Phone, RequestStep(p)
  PROVE  SerialInv'
<1>1. request[p].step # "none"
  BY DEF RequestStep, Refuse, Accept, SetStarting, Put
<1>2. \A q \in Phone \ {p} : phone[q] = Away /\ request[q] = NoRequest
  BY <1>1, OthersAway DEF Active, NoRequest
<1>3. \A q \in Phone \ {p} : phone'[q] = Away /\ request'[q] = NoRequest
  BY <1>2 DEF TypeInv, TypeOK, RequestStep, Refuse, Accept, SetStarting, Put, Reply
<1>4. \A q \in Phone \ {p} : Served(q)' /\ request'[q].step = "none"
  BY <1>3, AwayIsServed DEF NoRequest
<1>5. phone[p].step \notin {"poll", "download"}
  BY <1>1 DEF SerialInv, Served, NoRequest
<1>6. CASE Refuse(p)
  <2>1. request'[p] = NoRequest /\ UNCHANGED server
    BY <1>6 DEF TypeInv, TypeOK, Refuse
  <2>2. phone'[p].step \notin {"poll", "download", "post"}
    <3>1. phone[p].step = "post" => phone'[p] = Away
      BY <1>6 DEF TypeInv, TypeOK, Refuse, Reply, SerialInv, Served
    <3>2. phone[p].step # "post" => phone' = phone
      BY <1>6 DEF Refuse, Reply
    <3> QED
      BY <1>5, <3>1, <3>2 DEF Away
  <2>3. Served(p)'
    BY <2>2 DEF Served
  <2>4. OneJob'
    BY <1>4, <2>1 DEF SerialInv, OneJob, InProgress, server, NoRequest
  <2> QED
    BY <1>4, <2>3, <2>4 DEF SerialInv
<1>7. CASE Accept(p)
  <2>1. request'[p].step = "set" /\ request'[p].job = request[p].job /\ UNCHANGED <<server, phone>>
    BY <1>7 DEF TypeInv, TypeOK, Accept
  <2>2. Served(p)'
    BY <1>5, <2>1 DEF SerialInv, Served
  <2>3. queue = <<>> /\ main.step = "idle"
    BY <1>7 DEF Accept, SerialInv, OneJob
  <2>4. OneJob'
    BY <1>4, <2>1, <2>3 DEF SerialInv, OneJob, InProgress, server
  <2> QED
    BY <1>4, <2>2, <2>4 DEF SerialInv
<1>8. CASE SetStarting(p)
  <2>1. /\ request'[p].step = "put" /\ request'[p].job = request[p].job
        /\ status' = Starting
        /\ UNCHANGED <<images, queue, main, phone>>
    BY <1>8 DEF TypeInv, TypeOK, SetStarting, Starting
  <2>2. Served(p)'
    BY <1>5, <2>1 DEF SerialInv, Served
  <2>3. queue = <<>> /\ main.step = "idle"
    BY <1>8 DEF SetStarting, SerialInv, OneJob
  <2>4. OneJob'
    BY <1>4, <2>1, <2>3 DEF SerialInv, OneJob, InProgress, Starting
  <2> QED
    BY <1>4, <2>2, <2>4 DEF SerialInv
<1>9. CASE Put(p)
  <2>1. queue = <<>> /\ main.step = "idle" /\ status = Starting /\ request[p].job \in Job
    BY <1>1, <1>9 DEF Put, SerialInv, OneJob, TypeInv, RequestInv
  <2>2. queue' = <<request[p].job>>
    BY <1>9, <2>1 DEF Put
  <2>3. request'[p] = NoRequest /\ UNCHANGED <<status, images, main>>
    BY <1>9 DEF TypeInv, TypeOK, Put
  <2>4. Served(p)'
    <3>1. CASE phone[p].step = "post"
      <4>1. phone[p] \in Phones /\ phone[p].job = request[p].job
        BY <3>1 DEF TypeInv, TypeOK, SerialInv, Served
      <4>2. phone'[p] = [phone[p] EXCEPT !.step = "poll"]
        BY <1>9, <3>1, <4>1 DEF Put, Reply, TypeInv, TypeOK
      <4>3. phone'[p].step = "poll" /\ phone'[p].job = request[p].job
        BY <4>1, <4>2 DEF Phones
      <4> QED
        BY <2>2, <2>3, <4>3 DEF Served
    <3>2. CASE phone[p].step # "post"
      <4>1. phone' = phone
        BY <1>9, <3>2 DEF Put, Reply
      <4> QED
        BY <1>5, <3>2, <4>1 DEF Served
    <3> QED
      BY <3>1, <3>2
  <2>5. OneJob'
    BY <1>4, <2>1, <2>2, <2>3 DEF SerialInv, OneJob, InProgress, Starting, NoRequest
  <2> QED
    BY <1>4, <2>4, <2>5 DEF SerialInv
<1> QED
  BY <1>6, <1>7, <1>8, <1>9 DEF RequestStep

LEMMA PhoneSerial ==
  ASSUME TypeInv, SerialInv, OneFlow, OneFlow', NEW p \in Phone, PhoneStep(p)
  PROVE  SerialInv'
<1>1. UNCHANGED server /\ \A q \in Phone \ {p} : phone'[q] = phone[q] /\ request'[q] = request[q]
  BY DEF TypeInv, TypeOK, PhoneStep, Post, GiveUp, Poll, Download
<1>2. \A q \in Phone \ {p} : Served(q)'
  BY <1>1 DEF SerialInv, Served, Taken, server
<1>3. OneJob'
  <2>1. request'[p] = request[p] \/ request'[p].step = "check"
    BY DEF TypeInv, TypeOK, PhoneStep, Post, GiveUp, Poll, Download
  <2> QED
    BY <1>1, <2>1 DEF SerialInv, OneJob, InProgress, server
<1>4. Served(p)'
  <2>1. CASE Post(p)
    <3>1. PICK j \in Job : /\ phone'[p] = [step |-> "post", job |-> j, shot |-> 0]
                           /\ request'[p] = [step |-> "check", job |-> j]
      BY <2>1 DEF Post, TypeInv, TypeOK
    <3> QED
      BY <3>1 DEF Served
  <2>2. CASE GiveUp(p)
    BY <2>2, AwayIsServed DEF GiveUp, TypeInv, TypeOK
  <2>3. CASE Poll(p)
    <3>1. CASE phone'[p] = Away
      BY <3>1, AwayIsServed
    <3>2. CASE phone'[p] # Away
      <4> DEFINE j == phone[p].job
      <4>1. /\ phone[p].step = "poll"
            /\ status.is # "error"
            /\ status.n >= Angles \/ status.is = "captured_all"
            /\ phone' = [phone EXCEPT ![p].step = "download"]
        BY <2>3, <3>2 DEF Poll, TypeInv, TypeOK
      <4>2. phone'[p].step = "download" /\ phone'[p].job = j /\ UNCHANGED request
        BY <2>3, <4>1 DEF Poll, TypeInv, TypeOK, Phones
      <4>3. request[p] = NoRequest
        BY <4>1 DEF SerialInv, Served
      <4>4. Taken(j) /\ queue = <<>> /\ main.step \in {"finish", "idle"}
        <5>0. status.n \in 0..3 /\ images.n \in 0..3
          BY StatusType
        <5>1. status # Starting
          BY <4>1 DEF Starting, Angles
        <5>2. queue # <<j>>
          BY <5>1 DEF SerialInv, OneJob
        <5>3. CASE main.step # "idle" /\ main.job = j
          <6>1. status.is # "captured_all" /\ queue = <<>>
            BY <5>3 DEF SerialInv, OneJob, InProgress
          <6>2. status.n >= 3
            BY <4>1, <6>1 DEF Angles
          <6>3. main.step \notin {"clear", "open"}
            BY <5>1 DEF SerialInv, OneJob
          <6>4. main.step \notin {"announce", "frame", "report"}
            BY <5>0, <6>2 DEF SerialInv, OneJob, TypeInv, PhotosInv, Angles
          <6>5. main.step = "finish"
            BY <5>3, <6>3, <6>4 DEF TypeInv, TypeOK, Main
          <6>6. images.of = j /\ images.n = Angles /\ images \in Images
            BY <5>3, <6>5 DEF TypeInv, TypeOK, PhotosInv
          <6> QED
            BY <6>1, <6>5, <6>6 DEF Taken, Images
        <5>4. CASE main.step = "idle" /\ queue = <<>> /\ status.is = "captured_all" /\ Taken(j)
          BY <5>4
        <5> QED
          BY <4>1, <5>2, <5>3, <5>4 DEF SerialInv, Served
      <4> QED
        BY <1>1, <4>2, <4>3, <4>4 DEF Served, Taken, server
    <3> QED
      BY <3>1, <3>2
  <2>4. CASE Download(p)
    <3>1. CASE phone'[p] = Away
      BY <3>1, AwayIsServed
    <3>2. CASE phone'[p] # Away
      <4>1. phone[p].step = "download" /\ phone'[p] = [phone[p] EXCEPT !.shot = @ + 1]
        BY <2>4, <3>2 DEF Download, TypeInv, TypeOK
      <4>2. phone'[p].step = "download" /\ phone'[p].job = phone[p].job /\ UNCHANGED request
        BY <2>4, <4>1 DEF Download, TypeInv, TypeOK, Phones
      <4> QED
        BY <1>1, <4>1, <4>2 DEF SerialInv, Served, Taken, server
    <3> QED
      BY <3>1, <3>2
  <2> QED
    BY <2>1, <2>2, <2>3, <2>4 DEF PhoneStep
<1> QED
  BY <1>2, <1>3, <1>4 DEF SerialInv

\* If no two flows overlap, an app downloads the three photos of its own job,
\* whatever jobs earlier flows have left behind.
THEOREM SerialOwnPhotosAlways == Spec => SerialOwnPhotos
<1>1. Init => SerialInv
  BY DEF Init, SerialInv, OneJob, Served, InProgress, NoRequest, Away
<1>2. TypeInv /\ SerialInv /\ OneFlow /\ OneFlow' /\ [Next]_vars => SerialInv'
  <2> SUFFICES ASSUME TypeInv, SerialInv, OneFlow, OneFlow', [Next]_vars PROVE SerialInv'
    OBVIOUS
  <2>1. CASE UNCHANGED vars
    BY <2>1 DEF vars, SerialInv, OneJob, Served, Taken, InProgress
  <2> QED
    BY <2>1, MainSerial, RequestSerial, PhoneSerial DEF Next
<1>3. SerialInv => OwnPhotos
  BY DEF SerialInv, Served, Taken, OwnPhotos
<1> QED
  BY <1>1, <1>2, <1>3, TypeInvAlways, PTL DEF Spec, SerialOwnPhotos

-----------------------------------------------------------------------------
(* ServerFreed, as far as it is safety.                                     *)

\* Somebody is at work whose steps lead out of the status: a request about to
\* be queued, a job in the queue, or the main thread.
SomebodyWorks ==
  (\E p \in Phone : request[p].step = "put") \/ queue # <<>> \/ main.step # "idle"

BusyMeansWorking == InProgress => SomebodyWorks

LEMMA MainBusy ==
  ASSUME TypeInv, BusyMeansWorking, MainStep
  PROVE  BusyMeansWorking'
<1> USE DEF BusyMeansWorking, SomebodyWorks, InProgress, apps
<1>1. CASE TakeJob
  BY <1>1 DEF TakeJob
<1>2. CASE Clear \/ OpenWebcam \/ Announce \/ StorePhoto \/ Report
  BY <1>2 DEF TypeInv, TypeOK, Main, Clear, OpenWebcam, Announce, StorePhoto, Report
<1>3. CASE FinishJob \/ Fail
  BY <1>3 DEF FinishJob, Fail
<1> QED
  BY <1>1, <1>2, <1>3 DEF MainStep

LEMMA RequestBusy ==
  ASSUME TypeInv, BusyMeansWorking, NEW p \in Phone, RequestStep(p)
  PROVE  BusyMeansWorking'
<1> USE DEF BusyMeansWorking, SomebodyWorks, InProgress
<1>1. CASE Put(p)
  <2>1. queue' # <<>>
    BY <1>1 DEF Put, TypeInv, TypeOK, RequestInv
  <2> QED
    BY <2>1
<1>2. CASE SetStarting(p)
  <2>1. request'[p].step = "put"
    BY <1>2 DEF SetStarting, TypeInv, TypeOK
  <2> QED
    BY <2>1
<1>3. CASE Refuse(p) \/ Accept(p)
  <2>1. request[p].step = "check" /\ UNCHANGED server
    BY <1>3 DEF Refuse, Accept
  <2>2. \A q \in Phone : request[q].step = "put" => request'[q] = request[q]
    BY <1>3, <2>1 DEF Refuse, Accept, TypeInv, TypeOK
  <2> QED
    BY <2>1, <2>2 DEF server
<1> QED
  BY <1>1, <1>2, <1>3 DEF RequestStep

LEMMA PhoneBusy ==
  ASSUME TypeInv, BusyMeansWorking, NEW p \in Phone, PhoneStep(p)
  PROVE  BusyMeansWorking'
<1>1. UNCHANGED server
  BY DEF PhoneStep, Post, GiveUp, Poll, Download
<1>2. \A q \in Phone : request[q].step = "put" => request'[q] = request[q]
  BY DEF PhoneStep, Post, GiveUp, Poll, Download, TypeInv, TypeOK, NoRequest
<1> QED
  BY <1>1, <1>2 DEF BusyMeansWorking, SomebodyWorks, InProgress, server

\* The 409 of start_enrollment is never given for a job that nobody works on,
\* although request threads test and set the status in separate steps, flows
\* overlap, phones give up and jobs crash: while the status is in progress, a
\* request is about to be queued, a job is queued, or the main thread has one.
\* That the work ends (ServerFreed) is then only a matter of scheduling.
THEOREM BusyMeansWorkingAlways == Spec => []BusyMeansWorking
<1>1. Init => BusyMeansWorking
  BY DEF Init, BusyMeansWorking, InProgress
<1>2. TypeInv /\ BusyMeansWorking /\ [Next]_vars => BusyMeansWorking'
  <2> SUFFICES ASSUME TypeInv, BusyMeansWorking, [Next]_vars PROVE BusyMeansWorking'
    OBVIOUS
  <2>1. CASE UNCHANGED vars
    BY <2>1 DEF vars, BusyMeansWorking, SomebodyWorks, InProgress
  <2> QED
    BY <2>1, MainBusy, RequestBusy, PhoneBusy DEF Next
<1> QED
  BY <1>1, <1>2, TypeInvAlways, PTL DEF Spec

\* How far the job of the main thread has come: statements, with the photos taken.
JobRank ==
  CASE main.step = "clear"    -> 0
    [] main.step = "open"     -> 1
    [] main.step = "announce" -> 2 + 3 * images.n
    [] main.step = "frame"    -> 3 + 3 * images.n
    [] main.step = "report"   -> 1 + 3 * images.n
    [] OTHER                  -> 2 + 3 * images.n

JobEnd == 2 + 3 * Angles

\* The main thread's job ends, with the status out of progress, or comes nearer
\* to its end; nobody else moves it.
JobsAdvance ==
  main.step # "idle" =>
    /\ MainStep => \/ main'.step = "idle" /\ ~InProgress'
                   \/ main'.step # "idle" /\ JobRank' > JobRank
    /\ ~MainStep => UNCHANGED <<main, JobRank>>

LEMMA JobRankBound ==
  ASSUME TypeInv, main.step # "idle"
  PROVE  JobRank \in 0..JobEnd
<1>1. images.n \in 0..3
  BY StatusType
<1>2. main.step \in {"announce", "frame"} => images.n < 3
  BY DEF TypeInv, PhotosInv, Angles
<1> QED
  BY <1>1, <1>2 DEF JobRank, JobEnd, Angles

LEMMA JobStep ==
  ASSUME TypeInv, main.step # "idle", MainStep
  PROVE  \/ main'.step = "idle" /\ ~InProgress'
         \/ main'.step # "idle" /\ JobRank' > JobRank
<1>0. images.n \in 0..3
  BY StatusType
<1> USE DEF TypeInv, TypeOK, Main, Images, JobRank, PhotosInv, Angles
<1>1. CASE Clear \/ OpenWebcam
  BY <1>1 DEF Clear, OpenWebcam
<1>2. CASE Announce
  BY <1>0, <1>2 DEF Announce
<1>3. CASE StorePhoto
  BY <1>0, <1>3 DEF StorePhoto
<1>4. CASE Report
  BY <1>0, <1>4 DEF Report
<1>5. CASE FinishJob \/ Fail
  BY <1>5 DEF FinishJob, Fail, InProgress
<1> QED
  BY <1>1, <1>2, <1>3, <1>4, <1>5 DEF MainStep, TakeJob

LEMMA OthersKeepJob ==
  ASSUME [Next]_vars, ~MainStep
  PROVE  UNCHANGED <<main, images>>
  BY DEF Next, vars, RequestStep, Refuse, Accept, SetStarting, Put, PhoneStep, Post, GiveUp, Poll,
     Download, server

\* With BusyMeansWorkingAlways, ServerFreed up to fairness: every statement of
\* the main thread brings its job nearer to an end that takes the status out of
\* progress and is at most JobEnd statements away, whatever requests come in.
THEOREM JobsEndByAdvancing ==
  Spec => [](main.step # "idle" => JobRank \in 0..JobEnd) /\ [][JobsAdvance]_vars
<1>1. TypeInv /\ main.step # "idle" => JobRank \in 0..JobEnd
  BY JobRankBound
<1>2. TypeInv /\ [Next]_vars => [JobsAdvance]_vars
  <2> SUFFICES ASSUME TypeInv, [Next]_vars, main.step # "idle"
               PROVE  /\ MainStep => \/ main'.step = "idle" /\ ~InProgress'
                                     \/ main'.step # "idle" /\ JobRank' > JobRank
                      /\ ~MainStep => UNCHANGED <<main, JobRank>>
    BY DEF JobsAdvance
  <2>1. ~MainStep => UNCHANGED <<main, JobRank>>
    BY OthersKeepJob DEF JobRank
  <2> QED
    BY <2>1, JobStep
<1> QED
  BY <1>1, <1>2, TypeInvAlways, PTL DEF Spec

-----------------------------------------------------------------------------
(* ServerFreed itself.  The bounded rank takes the place of an induction.   *)

MainCan == main.step # "idle" \/ queue # <<>>

\* The main thread goes on while there is a job.
FairMain == []<>~MainCan \/ []<><<MainStep>>_vars

\* So does a request thread that is about to queue its job.
FairPut(p) == []<>~(request[p].step = "put") \/ []<><<Put(p)>>_vars

FairPuts == \A p \in Phone : FairPut(p)

JobAtLeast(r) == main.step # "idle" /\ JobRank >= r

LEMMA JobClimbs ==
  ASSUME NEW r \in 0..JobEnd, NEW s, s = r + 4
  PROVE  []TypeInv /\ [][JobsAdvance]_vars /\ []InProgress
            /\ ([]<>~MainCan \/ []<><<MainStep>>_vars)
         => (JobAtLeast(r) => <>JobAtLeast(s))
<1> DEFINE At0 == main.step # "idle" /\ JobRank = r
<1> DEFINE At1 == main.step # "idle" /\ JobRank = r + 1
<1> DEFINE At2 == main.step # "idle" /\ JobRank = r + 2
<1> DEFINE At3 == main.step # "idle" /\ JobRank = r + 3
<1> DEFINE High == JobAtLeast(s)
<1> DEFINE Low == JobAtLeast(r)
<1>1. TypeInv => (Low <=> At0 \/ At1 \/ At2 \/ At3 \/ High)
  BY JobRankBound DEF JobAtLeast, JobEnd, Angles
<1>2. (At0 \/ At1 \/ At2 \/ At3) => MainCan
  BY DEF MainCan
<1>3. ASSUME TypeInv, TypeInv', [JobsAdvance]_vars, InProgress', main.step # "idle"
      PROVE  \/ main' = main /\ JobRank' = JobRank /\ [~MainStep]_vars
             \/ main'.step # "idle" /\ JobRank' > JobRank
  <2>1. CASE UNCHANGED vars
    BY <2>1 DEF vars, JobRank
  <2>2. CASE JobsAdvance
    BY <1>3, <2>2 DEF JobsAdvance
  <2> QED
    BY <1>3, <2>1, <2>2
<1>4. /\ TypeInv /\ main.step # "idle" => JobRank \in 0..JobEnd
      /\ (TypeInv /\ main.step # "idle" => JobRank \in 0..JobEnd)'
  <2>1. TypeInv /\ main.step # "idle" => JobRank \in 0..JobEnd
    BY JobRankBound
  <2> QED
    BY <2>1, PTL
<1>5. TypeInv /\ TypeInv' /\ [JobsAdvance]_vars /\ InProgress'
      => /\ At0 => (At0' /\ [~MainStep]_vars) \/ At1' \/ At2' \/ At3' \/ High'
         /\ At1 => (At1' /\ [~MainStep]_vars) \/ At2' \/ At3' \/ High'
         /\ At2 => (At2' /\ [~MainStep]_vars) \/ At3' \/ High'
         /\ At3 => (At3' /\ [~MainStep]_vars) \/ High'
  <2> SUFFICES ASSUME TypeInv, TypeInv', [JobsAdvance]_vars, InProgress', main.step # "idle"
               PROVE  /\ At0 => (At0' /\ [~MainStep]_vars) \/ At1' \/ At2' \/ At3' \/ High'
                      /\ At1 => (At1' /\ [~MainStep]_vars) \/ At2' \/ At3' \/ High'
                      /\ At2 => (At2' /\ [~MainStep]_vars) \/ At3' \/ High'
                      /\ At3 => (At3' /\ [~MainStep]_vars) \/ High'
    OBVIOUS
  <2>1. CASE main' = main /\ JobRank' = JobRank /\ [~MainStep]_vars
    BY <2>1
  <2>2. CASE main'.step # "idle" /\ JobRank' > JobRank
    <3>1. JobRank \in Nat /\ JobRank' \in Nat
      BY <1>4, <2>2 DEF JobEnd, Angles
    <3>2. JobRank' = r + 1 \/ JobRank' = r + 2 \/ JobRank' = r + 3 \/ JobRank' >= s \/ JobRank' <= r
      BY <3>1 DEF JobEnd, Angles
    <3>3. JobAtLeast(s)' <=> JobRank' >= s
      BY <2>2 DEF JobAtLeast
    <3> QED
      BY <2>2, <3>1, <3>2, <3>3 DEF JobEnd, Angles
  <2> QED
    BY <1>3, <2>1, <2>2
<1>6. []TypeInv /\ [][JobsAdvance]_vars /\ []InProgress
        /\ ([]<>~MainCan \/ []<><<MainStep>>_vars) /\ Low => <>High
  <2> HIDE DEF At0, At1, At2, At3, High, Low
  <2> QED
    BY <1>1, <1>2, <1>5, PTL
<1> QED
  BY <1>6

LEMMA JobEnds ==
  []TypeInv /\ [][JobsAdvance]_vars /\ []InProgress /\ FairMain => main.step = "idle"
<1> DEFINE Premise == []TypeInv /\ [][JobsAdvance]_vars /\ []InProgress
                        /\ ([]<>~MainCan \/ []<><<MainStep>>_vars)
<1>1. Premise /\ JobAtLeast(0) => <>JobAtLeast(4)
  <2>1. PICK r \in 0..JobEnd, s \in Nat : r = 0 /\ s = 4
    BY DEF JobEnd, Angles
  <2>2. Premise => (JobAtLeast(r) => <>JobAtLeast(s))
    BY <2>1, JobClimbs
  <2>3. (JobAtLeast(0) => JobAtLeast(r)) /\ (JobAtLeast(s) => JobAtLeast(4))
    BY <2>1
  <2> QED
    BY <2>2, <2>3, PTL
<1>2. Premise /\ JobAtLeast(4) => <>JobAtLeast(8)
  <2>1. PICK r \in 0..JobEnd, s \in Nat : r = 4 /\ s = 8
    BY DEF JobEnd, Angles
  <2>2. Premise => (JobAtLeast(r) => <>JobAtLeast(s))
    BY <2>1, JobClimbs
  <2>3. (JobAtLeast(4) => JobAtLeast(r)) /\ (JobAtLeast(s) => JobAtLeast(8))
    BY <2>1
  <2> QED
    BY <2>2, <2>3, PTL
<1>3. Premise /\ JobAtLeast(8) => <>JobAtLeast(12)
  <2>1. PICK r \in 0..JobEnd, s \in Nat : r = 8 /\ s = 12
    BY DEF JobEnd, Angles
  <2>2. Premise => (JobAtLeast(r) => <>JobAtLeast(s))
    BY <2>1, JobClimbs
  <2>3. (JobAtLeast(8) => JobAtLeast(r)) /\ (JobAtLeast(s) => JobAtLeast(12))
    BY <2>1
  <2> QED
    BY <2>2, <2>3, PTL
<1>4. TypeInv => ~JobAtLeast(12) /\ (main.step # "idle" => JobAtLeast(0))
  <2> SUFFICES ASSUME TypeInv, main.step # "idle"
               PROVE  ~(JobRank >= 12) /\ JobRank >= 0
    BY DEF JobAtLeast
  <2> QED
    BY JobRankBound DEF JobEnd, Angles
<1>5. ~(main.step # "idle") => main.step = "idle"
  OBVIOUS
<1> QED
  BY <1>1, <1>2, <1>3, <1>4, <1>5, PTL DEF FairMain

LEMMA QueueIsTaken ==
  []TypeInv /\ [][Next]_vars /\ FairMain /\ queue # <<>> => <>(main.step # "idle")
<1> DEFINE Busy == main.step # "idle"
<1> DEFINE Queued == queue # <<>>
<1>1. TypeInv /\ [Next]_vars /\ Queued /\ ~Busy => Busy' \/ (Queued' /\ [~MainStep]_vars)
  <2> SUFFICES ASSUME TypeInv, [Next]_vars, Queued, ~Busy
               PROVE  Busy' \/ (Queued' /\ [~MainStep]_vars)
    OBVIOUS
  <2>1. CASE MainStep
    BY <2>1 DEF MainStep, TakeJob, Clear, OpenWebcam, Announce, StorePhoto, Report, FinishJob, Fail
  <2>2. ASSUME NEW p \in Phone, Put(p) PROVE Queued'
    BY <2>2 DEF Put, TypeInv, TypeOK, RequestInv
  <2>3. ASSUME NEW p \in Phone, Refuse(p) \/ Accept(p) \/ SetStarting(p) \/ PhoneStep(p)
        PROVE  Queued'
    BY <2>3 DEF Refuse, Accept, SetStarting, PhoneStep, Post, GiveUp, Poll, Download, server
  <2>4. CASE UNCHANGED vars
    BY <2>4 DEF vars
  <2> QED
    BY <2>1, <2>2, <2>3, <2>4 DEF Next, RequestStep
<1>2. Queued => MainCan
  BY DEF MainCan
<1>3. FairMain => []<>~MainCan \/ []<><<MainStep>>_vars
  BY DEF FairMain
<1>4. []TypeInv /\ [][Next]_vars /\ FairMain /\ Queued => <>Busy
  <2> HIDE DEF Busy, Queued
  <2> QED
    BY <1>1, <1>2, <1>3, PTL
<1> QED
  BY <1>4

LEMMA PutIsQueued ==
  ASSUME NEW p \in Phone
  PROVE  []TypeInv /\ [][Next]_vars /\ []~(queue # <<>>)
            /\ ([]<>~(request[p].step = "put") \/ []<><<Put(p)>>_vars)
         => ~(request[p].step = "put")
<1> DEFINE AtPut == request[p].step = "put"
<1> DEFINE Puts == Put(p)
<1> DEFINE Queued == queue # <<>>
<1>1. TypeInv /\ [Next]_vars /\ AtPut => Queued' \/ (AtPut' /\ [~Puts]_vars)
  <2> SUFFICES ASSUME TypeInv, [Next]_vars, AtPut, ~Puts
               PROVE  AtPut'
    <3>1. TypeInv /\ Puts => Queued'
      BY DEF Put, TypeInv, TypeOK, RequestInv
    <3> QED
      BY <3>1
  <2>1. CASE MainStep
    BY <2>1 DEF MainStep, TakeJob, Clear, OpenWebcam, Announce, StorePhoto, Report, FinishJob, Fail, apps
  <2>2. ASSUME NEW q \in Phone, RequestStep(q) PROVE AtPut'
    BY <2>2 DEF RequestStep, Refuse, Accept, SetStarting, Put, TypeInv, TypeOK
  <2>3. ASSUME NEW q \in Phone, PhoneStep(q) PROVE AtPut'
    BY <2>3 DEF PhoneStep, Post, GiveUp, Poll, Download, NoRequest, TypeInv, TypeOK
  <2>4. CASE UNCHANGED vars
    BY <2>4 DEF vars
  <2> QED
    BY <2>1, <2>2, <2>3, <2>4 DEF Next
<1>2. []TypeInv /\ [][Next]_vars /\ []~Queued /\ ([]<>~AtPut \/ []<><<Puts>>_vars) => ~AtPut
  <2> HIDE DEF AtPut, Puts, Queued
  <2> QED
    BY <1>1, PTL
<1> QED
  BY <1>2

LEMMA PutsEnd ==
  []TypeInv /\ [][Next]_vars /\ []~(queue # <<>>) /\ FairPuts
  => ~(\E p \in Phone : request[p].step = "put")
<1> SUFFICES ASSUME []TypeInv, [][Next]_vars, []~(queue # <<>>), FairPuts,
                    NEW p \in Phone, request[p].step = "put"
             PROVE  FALSE
  OBVIOUS
<1>1. []<>~(request[p].step = "put") \/ []<><<Put(p)>>_vars
  BY DEF FairPuts, FairPut
<1> QED
  BY <1>1, PutIsQueued

LEMMA PutsLasting == FairPuts => []FairPuts
<1>1. ASSUME NEW p \in Phone PROVE FairPut(p) => []FairPut(p)
  <2>1. ([]<>~(request[p].step = "put") \/ []<><<Put(p)>>_vars)
        => []([]<>~(request[p].step = "put") \/ []<><<Put(p)>>_vars)
    BY PTL
  <2> QED
    BY <2>1 DEF FairPut
<1>2. (\A p \in Phone : []FairPut(p)) => [](\A p \in Phone : FairPut(p))
  OBVIOUS
<1> QED
  BY <1>1, <1>2 DEF FairPuts

\* ServerFreed, for any number of jobs and phones, if the threads of the server
\* go on while they have something to do.
THEOREM ServerFreedIfFair == Spec /\ FairMain /\ FairPuts => ServerFreed
<1> DEFINE Putting == \E p \in Phone : request[p].step = "put"
<1> DEFINE Queued == queue # <<>>
<1> DEFINE Idle == main.step = "idle"
<1>1. BusyMeansWorking /\ InProgress => Putting \/ Queued \/ ~Idle
  BY DEF BusyMeansWorking, SomebodyWorks
<1>2. []TypeInv /\ [][JobsAdvance]_vars /\ []InProgress /\ FairMain => Idle
  BY JobEnds
<1>3. []TypeInv /\ [][Next]_vars /\ FairMain /\ Queued => <>~Idle
  <2>1. main.step # "idle" => ~Idle
    OBVIOUS
  <2> QED
    BY <2>1, QueueIsTaken, PTL
<1>4. []TypeInv /\ [][Next]_vars /\ []~Queued /\ FairPuts => ~Putting
  BY PutsEnd
<1>5. FairMain => []FairMain
  BY PTL DEF FairMain
<1> HIDE DEF Putting, Queued, Idle
<1> QED
  BY <1>1, <1>2, <1>3, <1>4, <1>5, PutsLasting, TypeInvAlways, BusyMeansWorkingAlways,
     JobsEndByAdvancing, PTL DEF Spec, ServerFreed

=============================================================================
