----------------------------- MODULE AlertFeed -----------------------------
(***************************************************************************)
(* The alerts of the Pi as one phone sees them: the table and its three     *)
(* operations (database.py), the poller that vibrates on news and keeps the *)
(* badge of the tab bar (AlertContext.tsx), and the Activity screen, whose  *)
(* own copy of the list also writes the badge (ActivityScreen.tsx).         *)
(*                                                                          *)
(* Every GET /alerts is two steps: the Pi reads the rows, the app handles   *)
(* the answer.  The poller asks every 5 s whatever became of the last poll, *)
(* so several answers may be in flight and arrive in any order, or never.   *)
(*                                                                          *)
(* Abstracted: labels, times, the log half of the screen, the 5 s period (a *)
(* poll may happen at any time).  The tab navigator mounts the screen at    *)
(* its first visit and keeps it until the app ends.                         *)
(***************************************************************************)
EXTENDS Naturals, FiniteSets

CONSTANTS MaxAlert,     \* bound: alerts ever posted
          MaxAppStart,  \* bound: restarts of the app
          Poll          \* answers to polls that may be in flight at once

ASSUME AlertAssumption == MaxAlert \in Nat /\ MaxAppStart \in Nat

VARIABLES
  posted,       \* the table holds the ids 1..posted: AUTOINCREMENT, nothing is deleted
  read,         \* the ids whose row has read = 1
  badge,        \* unreadCount
  lastSeen,     \* lastSeenAlertId.current
  initialLoad,  \* initialLoad.current
  poll,         \* the rows each poll's answer carries, NoRows when there is none
  list,         \* the screen's `alerts`, NoRows before its first visit
  loaded,       \* the rows a load of the screen has been sent, NoRows when none runs
  marking,      \* a tap that marks alerts as read and waits for the Pi
  appStarts,    \* counted against MaxAppStart
  heard,        \* history: ids vibrated for, or recorded as old news at the first load
  raced         \* history: a load landed while `Mark All Read` was waiting

feed == <<badge, lastSeen, initialLoad, heard>>
screen == <<list, loaded, marking, raced>>
alertVars == <<posted, read, feed, poll, screen, appStarts>>

\* An answer of GET /alerts: every row, and which of them are read.
Rows == [upTo : 0..MaxAlert, read : SUBSET (1..MaxAlert)]
NoRows == [upTo |-> 0, read |-> {0}]

Unread(rows) == (1..rows.upTo) \ rows.read

NoMark == [all |-> FALSE, of |-> {}, left |-> {}]
Mark == [all : BOOLEAN, of : SUBSET (1..MaxAlert), left : SUBSET (1..MaxAlert)]

AlertTypeOK ==
  /\ posted \in 0..MaxAlert
  /\ read \subseteq 1..posted
  /\ badge \in 0..posted
  /\ lastSeen \in 0..posted
  /\ initialLoad \in BOOLEAN
  /\ poll \in [Poll -> Rows \union {NoRows}]
  /\ list \in Rows \union {NoRows}
  /\ loaded \in Rows \union {NoRows}
  /\ marking \in Mark
  /\ appStarts \in 0..MaxAppStart
  /\ heard \subseteq 1..posted
  /\ raced \in BOOLEAN

Answer == [upTo |-> posted, read |-> read]

AlertInit ==
  /\ posted = 0
  /\ read = {}
  /\ badge = 0
  /\ lastSeen = 0
  /\ initialLoad = TRUE
  /\ poll = [k \in Poll |-> NoRows]
  /\ list = NoRows
  /\ loaded = NoRows
  /\ marking = NoMark
  /\ appStarts = 0
  /\ heard = {}
  /\ raced = FALSE

-----------------------------------------------------------------------------
(* The table.                                                               *)

\* add_alert.
PostAlert ==
  /\ posted < MaxAlert
  /\ posted' = posted + 1
  /\ UNCHANGED <<read, feed, poll, screen, appStarts>>

\* mark_alert_read for another phone, or for a tap whose answer nobody awaits.
ReadElsewhere ==
  /\ \E a \in (1..posted) \ read : read' = read \union {a}
  /\ UNCHANGED <<posted, feed, poll, screen, appStarts>>

-----------------------------------------------------------------------------
(* The poller.                                                              *)

\* The Pi answers a poll of free slot k.
AnswerPoll(k) ==
  /\ poll[k] = NoRows
  /\ poll' = [poll EXCEPT ![k] = Answer]
  /\ UNCHANGED <<posted, read, feed, screen, appStarts>>

\* What pollAlerts takes for new in the rows.
News(rows) == {a \in Unread(rows) : a > lastSeen}

\* Mutant: the newest id is recorded before the rows are searched for news.
RecordThenSearch(rows) ==
  /\ UNCHANGED initialLoad
  /\ lastSeen' = rows.upTo
  /\ heard' = heard \union {a \in Unread(rows) : a > rows.upTo}

\* Mutant: the newest id is recorded whether or not something was new.
RecordAlways(rows) ==
  /\ UNCHANGED initialLoad
  /\ lastSeen' = rows.upTo
  /\ heard' = heard \union News(rows)

\* A load after the first: vibrate once for everything new.
Announce(rows) ==
  /\ UNCHANGED initialLoad
  /\ lastSeen' = IF News(rows) # {} THEN rows.upTo ELSE lastSeen
  /\ heard' = heard \union News(rows)

\* Mutant: the next id is recorded, not the newest.
FirstLoadNextId(rows) ==
  /\ initialLoad' = FALSE
  /\ lastSeen' = rows.upTo + 1
  /\ heard' = heard \union 1..rows.upTo

\* The first load that is not empty: record the newest id, stay silent.
FirstLoad(rows) ==
  /\ initialLoad' = FALSE
  /\ lastSeen' = rows.upTo
  /\ heard' = heard \union 1..rows.upTo

\* Mutant: the badge counts what is new, not what is unread.
CountNews(rows) == badge' = Cardinality(News(rows))

CountUnread(rows) == badge' = Cardinality(Unread(rows))

\* pollAlerts goes on with its answer.
Deliver(k) ==
  /\ poll[k] # NoRows
  /\ poll' = [poll EXCEPT ![k] = NoRows]
  /\ CountUnread(poll[k])
  /\ \/ poll[k].upTo = 0 /\ UNCHANGED <<lastSeen, initialLoad, heard>>
     \/ poll[k].upTo > 0 /\ initialLoad /\ FirstLoad(poll[k])
     \/ poll[k].upTo > 0 /\ ~initialLoad /\ Announce(poll[k])
  /\ UNCHANGED <<posted, read, screen, appStarts>>

\* The answer does not come within 5 s: `Silently fail`.
LosePoll(k) ==
  /\ poll[k] # NoRows
  /\ poll' = [poll EXCEPT ![k] = NoRows]
  /\ UNCHANGED <<posted, read, feed, screen, appStarts>>

-----------------------------------------------------------------------------
(* The Activity screen.                                                     *)

\* The screen's rows change; its effect writes the badge if their unread
\* count has.
ShowRows(rows) ==
  /\ list' = rows
  /\ badge' = IF Cardinality(Unread(rows)) # Cardinality(Unread(list))
              THEN Cardinality(Unread(rows)) ELSE badge

\* The first visit: an empty list, the effect of which clears the badge, and
\* a load, which `refresh` repeats.
MountActivity ==
  /\ list = NoRows
  /\ list' = [upTo |-> 0, read |-> {}]
  /\ badge' = 0
  /\ UNCHANGED <<posted, read, lastSeen, initialLoad, heard, poll, loaded, marking, raced, appStarts>>

\* The Pi answers a load.
AnswerLoad ==
  /\ list # NoRows
  /\ loaded = NoRows
  /\ loaded' = Answer
  /\ UNCHANGED <<posted, read, feed, poll, list, marking, raced, appStarts>>

\* setAlerts(alertData).
FinishLoad ==
  /\ loaded # NoRows
  /\ ShowRows(loaded)
  /\ loaded' = NoRows
  /\ raced' = (raced \/ marking.all)
  /\ UNCHANGED <<posted, read, lastSeen, initialLoad, heard, poll, marking, appStarts>>

\* One of the load's two requests fails: Promise.all rejects.
FailLoad ==
  /\ loaded # NoRows
  /\ loaded' = NoRows
  /\ UNCHANGED <<posted, read, feed, poll, list, marking, raced, appStarts>>

StartMark(all, of) ==
  /\ list # NoRows
  /\ marking = NoMark
  /\ marking' = [all |-> all, of |-> of, left |-> of]
  /\ UNCHANGED <<posted, read, feed, poll, list, loaded, raced, appStarts>>

\* A tap on an unread alert.
ReadAlert == \E a \in Unread(list) : StartMark(FALSE, {a})

\* The button, which is only there while something is unread.
MarkAllAlertsRead == Unread(list) # {} /\ StartMark(TRUE, Unread(list))

\* The Pi handles one of the tap's posts.
MarkLands ==
  /\ \E a \in marking.left :
       /\ read' = read \union {a}
       /\ marking' = [marking EXCEPT !.left = @ \ {a}]
  /\ UNCHANGED <<posted, feed, poll, list, loaded, raced, appStarts>>

\* Mutant: the tap marks the alerts of the button's list, and does not wait.
FinishMarkEarly ==
  /\ marking # NoMark
  /\ ShowRows([list EXCEPT !.read = IF marking.all THEN 1..list.upTo ELSE @ \union marking.of])
  /\ marking' = NoMark
  /\ UNCHANGED <<posted, read, lastSeen, initialLoad, heard, poll, loaded, raced, appStarts>>

\* Every post was answered: the list as it now is is marked, all of it after
\* `Mark All Read`.
FinishMark ==
  /\ marking # NoMark
  /\ marking.left = {}
  /\ ShowRows([list EXCEPT !.read = IF marking.all THEN 1..list.upTo
                                    ELSE @ \union (marking.of \intersect 1..list.upTo)])
  /\ marking' = NoMark
  /\ UNCHANGED <<posted, read, lastSeen, initialLoad, heard, poll, loaded, raced, appStarts>>

\* A post fails, or its answer is lost: the list stays.
FailMark ==
  /\ marking # NoMark
  /\ marking' = NoMark
  /\ UNCHANGED <<posted, read, feed, poll, list, loaded, raced, appStarts>>

-----------------------------------------------------------------------------

\* The app is started anew; what it was waiting for is gone.
AppStart ==
  /\ appStarts < MaxAppStart
  /\ appStarts' = appStarts + 1
  /\ badge' = 0
  /\ lastSeen' = 0
  /\ initialLoad' = TRUE
  /\ poll' = [k \in Poll |-> NoRows]
  /\ list' = NoRows
  /\ loaded' = NoRows
  /\ marking' = NoMark
  /\ raced' = FALSE
  /\ UNCHANGED <<posted, read, heard>>

EndPoll(k) == Deliver(k) \/ LosePoll(k)
EndLoad == FinishLoad \/ FailLoad
EndMark == FinishMark \/ FailMark

Screen ==
  \/ MountActivity \/ AnswerLoad \/ EndLoad
  \/ ReadAlert \/ MarkAllAlertsRead \/ MarkLands \/ EndMark

AlertNext ==
  \/ PostAlert \/ ReadElsewhere \/ AppStart \/ Screen
  \/ \E k \in Poll : AnswerPoll(k) \/ EndPoll(k)

AlertSpec == AlertInit /\ [][AlertNext]_alertVars

-----------------------------------------------------------------------------
(* Properties.                                                              *)

\* No alert is announced that was announced before, or was old news at the
\* first load: neither polls that are answered out of order nor a restart of
\* the app (lastSeenAlertId is kept in memory only) vibrate for it again.
AnnouncedOnce ==
  [][\A k \in Poll : Deliver(k) /\ ~initialLoad => News(poll[k]) \intersect heard = {}]_alertVars

\* Every alert is announced in the end, unless it is read first or was in the
\* first list that was not empty: no order of posts, polls and restarts loses
\* one (lastSeenAlertId never moves past an unread alert in silence).
EventuallyHandled ==
  \A a \in 1..MaxAlert : (a <= posted) ~> (a \in heard \union read)

\* The badge ends up as the number of unread rows once the table stays as it
\* is, although the poller and the Activity screen both write it, each from
\* rows of its own age.
BadgeSettles == <>[](badge = posted - Cardinality(read))

\* The Activity screen shows an alert as read that is not only if a load
\* landed while `Mark All Read` waited: it marks the rows it finds at the end.
OnlyRacedLoadHidesAlerts ==
  list # NoRows /\ ~raced => list.read \subseteq read

=============================================================================
