----------------------------- MODULE MacCapture -----------------------------
(***************************************************************************)
(* enroll_server.py: the webcam server on the MacBook, and the part of      *)
(* handleEnrollFace (src/screens/MembersScreen.tsx) that uses it.  Every    *)
(* HTTP request has a thread of its own; the main thread takes jobs from    *)
(* capture_queue and photographs three angles.  `status` and                *)
(* `captured_images` are shared, each behind a mutex, and there is one of   *)
(* each, whoever asks.                                                      *)
(*                                                                          *)
(* Abstracted: the pictures (a photo is known by the job it was taken for), *)
(* the countdown and the GUI, progress and messages, and the uploads to the *)
(* Pi (module Enrollment) between the downloads.                            *)
(***************************************************************************)
EXTENDS Naturals, Sequences

CONSTANTS Job,    \* enrollments asked for during a run (bound)
          Phone,  \* apps that use this MacBook
          NoJob

ASSUME MacCaptureAssumption == NoJob \notin Job

\* ANGLES
Angles == 3

VARIABLES
  asked,    \* the jobs the apps have asked for
  status,   \* status.status, and the number of its capturedAngles
  images,   \* captured_images: the first n angles, taken for job `of`
  queue,    \* capture_queue
  main,     \* the main thread: its job and its next step
  request,  \* the POST /enroll of each phone: the next step of its thread
  phone     \* the flow of each phone

vars == <<asked, status, images, queue, main, request, phone>>

Status == [is : {"idle", "starting", "capturing", "captured_all", "error"}, n : 0..Angles]

Images == [of : Job \union {NoJob}, n : 0..Angles]

Main == [step : {"idle", "clear", "open", "announce", "frame", "report", "finish"},
         job : Job \union {NoJob}]

Phones == [step : {"idle", "post", "poll", "download"}, job : Job \union {NoJob}, shot : 0..Angles]

TypeOK ==
  /\ asked \subseteq Job
  /\ status \in Status
  /\ images \in Images
  /\ queue \in Seq(Job)
  /\ main \in Main
  /\ request \in [Phone -> [step : {"none", "check", "set", "put"}, job : Job \union {NoJob}]]
  /\ phone \in [Phone -> Phones]

NoRequest == [step |-> "none", job |-> NoJob]

Away == [step |-> "idle", job |-> NoJob, shot |-> 0]

Init ==
  /\ asked = {}
  /\ status = [is |-> "idle", n |-> 0]
  /\ images = [of |-> NoJob, n |-> 0]
  /\ queue = <<>>
  /\ main = [step |-> "idle", job |-> NoJob]
  /\ request = [p \in Phone |-> NoRequest]
  /\ phone = [p \in Phone |-> Away]

-----------------------------------------------------------------------------
(* start_enrollment: three steps of a request thread.                       *)

server == <<status, images, queue, main>>

InProgress == status.is \in {"capturing", "starting"}

\* The phone that waits for the answer of its request goes on as f.
Reply(p, f) ==
  phone' = IF phone[p].step = "post" /\ phone[p].job = request[p].job
           THEN [phone EXCEPT ![p] = f] ELSE phone

Refuse(p) ==
  /\ request[p].step = "check"
  /\ InProgress
  /\ request' = [request EXCEPT ![p] = NoRequest]
  /\ Reply(p, Away)
  /\ UNCHANGED <<asked, server>>

\* Mutant: a job in progress is not refused.
AcceptAlways(p) ==
  /\ request[p].step = "check"
  /\ request' = [request EXCEPT ![p].step = "set"]
  /\ UNCHANGED <<asked, server, phone>>

\* The status is tested here, and set by the next step.
Accept(p) ==
  /\ request[p].step = "check"
  /\ ~InProgress
  /\ request' = [request EXCEPT ![p].step = "set"]
  /\ UNCHANGED <<asked, server, phone>>

SetStarting(p) ==
  /\ request[p].step = "set"
  /\ status' = [is |-> "starting", n |-> 0]
  /\ request' = [request EXCEPT ![p].step = "put"]
  /\ UNCHANGED <<asked, images, queue, main, phone>>

Put(p) ==
  /\ request[p].step = "put"
  /\ queue' = Append(queue, request[p].job)
  /\ request' = [request EXCEPT ![p] = NoRequest]
  /\ Reply(p, [phone[p] EXCEPT !.step = "poll"])
  /\ UNCHANGED <<asked, status, images, main>>

RequestStep(p) == Refuse(p) \/ Accept(p) \/ SetStarting(p) \/ Put(p)

-----------------------------------------------------------------------------
(* main_loop and run_capture.                                               *)

apps == <<asked, request, phone>>

TakeJob ==
  /\ main.step = "idle"
  /\ queue # <<>>
  /\ main' = [step |-> "clear", job |-> Head(queue)]
  /\ queue' = Tail(queue)
  /\ UNCHANGED <<status, images, apps>>

Clear ==
  /\ main.step = "clear"
  /\ images' = [of |-> main.job, n |-> 0]
  /\ main' = [main EXCEPT !.step = "open"]
  /\ UNCHANGED <<status, queue, apps>>

OpenWebcam ==
  /\ main.step = "open"
  /\ main' = [main EXCEPT !.step = "announce"]
  /\ UNCHANGED <<status, images, queue, apps>>

\* The status shows the angle that comes next and those that are done.
Announce ==
  /\ main.step = "announce"
  /\ status' = [is |-> "capturing", n |-> images.n]
  /\ main' = [main EXCEPT !.step = "frame"]
  /\ UNCHANGED <<images, queue, apps>>

StorePhoto ==
  /\ main.step = "frame"
  /\ images' = [images EXCEPT !.n = @ + 1]
  /\ main' = [main EXCEPT !.step = "report"]
  /\ UNCHANGED <<status, queue, apps>>

\* Mutant: another photo after the last angle.
ReportOnceMore ==
  /\ main.step = "report"
  /\ status' = [is |-> "capturing", n |-> images.n]
  /\ main' = [main EXCEPT !.step = IF images.n > Angles THEN "finish" ELSE "announce"]
  /\ UNCHANGED <<images, queue, apps>>

\* "... captured!", with the angles done so far.
Report ==
  /\ main.step = "report"
  /\ status' = [is |-> "capturing", n |-> images.n]
  /\ main' = [main EXCEPT !.step = IF images.n = Angles THEN "finish" ELSE "announce"]
  /\ UNCHANGED <<images, queue, apps>>

FinishJob ==
  /\ main.step = "finish"
  /\ status' = [is |-> "captured_all", n |-> images.n]
  /\ main' = [step |-> "idle", job |-> NoJob]
  /\ UNCHANGED <<images, queue, apps>>

\* Mutant: main_loop survives a crash, but leaves the status alone.
FailQuietly ==
  /\ main.step \in {"open", "frame"}
  /\ main' = [step |-> "idle", job |-> NoJob]
  /\ UNCHANGED <<status, images, queue, apps>>

\* No webcam, no picture, `q` in the window, or an exception: the photos taken
\* so far stay until the next job clears them.
Fail ==
  /\ main.step \in {"open", "frame"}
  /\ status' = [is |-> "error", n |-> 0]
  /\ main' = [step |-> "idle", job |-> NoJob]
  /\ UNCHANGED <<images, queue, apps>>

MainStep ==
  \/ TakeJob \/ Clear \/ OpenWebcam \/ Announce \/ StorePhoto \/ Report
  \/ FinishJob \/ Fail

-----------------------------------------------------------------------------
(* handleEnrollFace, up to the last download.                               *)

\* startMacbookCapture.  A request that its phone has given up may be alive.
Post(p) ==
  /\ phone[p] = Away
  /\ request[p] = NoRequest  \* bound: one request of a phone at a time
  /\ \E j \in Job \ asked :
       /\ asked' = asked \union {j}
       /\ phone' = [phone EXCEPT ![p] = [step |-> "post", job |-> j, shot |-> 0]]
       /\ request' = [request EXCEPT ![p] = [step |-> "check", job |-> j]]
  /\ UNCHANGED server

\* The request's 5 s, the deadline of the polling, or a failed download.
GiveUp(p) ==
  /\ phone[p] # Away
  /\ phone' = [phone EXCEPT ![p] = Away]
  /\ UNCHANGED <<asked, request, server>>

\* pollMacbookCaptureStatus, when the answer ends the loop.
Poll(p) ==
  /\ phone[p].step = "poll"
  /\ \/ /\ status.is # "error"
        /\ status.n >= Angles \/ status.is = "captured_all"
        /\ phone' = [phone EXCEPT ![p].step = "download"]
     \/ /\ status.is = "error"
        /\ phone' = [phone EXCEPT ![p] = Away]
  /\ UNCHANGED <<asked, request, server>>

\* get_capture: 404 for an angle that is not there.
Download(p) ==
  /\ phone[p].step = "download"
  /\ phone' = [phone EXCEPT ![p] =
                 IF images.n <= phone[p].shot \/ phone[p].shot + 1 = Angles THEN Away
                 ELSE [phone[p] EXCEPT !.shot = @ + 1]]
  /\ UNCHANGED <<asked, request, server>>

PhoneStep(p) == Post(p) \/ GiveUp(p) \/ Poll(p) \/ Download(p)

Next == MainStep \/ \E p \in Phone : RequestStep(p) \/ PhoneStep(p)

Spec == Init /\ [][Next]_vars

\* The server's threads run; the webcam delivers, or fails.
FairSpec ==
  Spec /\ WF_vars(MainStep) /\ \A p \in Phone : WF_vars(RequestStep(p))

-----------------------------------------------------------------------------

\* What an app uploads as the photos of its member are the photos taken for
\* that member: while it downloads them, captured_images holds the three of its
\* job ("Do NOT reset status here - the app still needs to download the images").
OwnPhotos ==
  \A p \in Phone :
    phone[p].step = "download" => images = [of |-> phone[p].job, n |-> Angles]

Active(p) == phone[p] # Away \/ request[p] # NoRequest

\* That holds if no two flows overlap, whatever earlier flows left behind: a job
\* whose phone has given up, the status and the photos of a job that failed.
OneFlow == \A p, q \in Phone : Active(p) /\ Active(q) => p = q

SerialOwnPhotos == []OneFlow => []OwnPhotos

\* "Enrollment already in progress" (409) does not last: whatever is refused or
\* fails, and however jobs pile up, the server becomes ready for a new one.
ServerFreed == InProgress ~> ~InProgress

=============================================================================
