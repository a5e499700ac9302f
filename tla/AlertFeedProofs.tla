-------------------------- MODULE AlertFeedProofs --------------------------
(***************************************************************************)
(* Theorems about AlertFeed, for any number of alerts, restarts and polls   *)
(* in flight.                                                               *)
(***************************************************************************)
EXTENDS AlertFeed, FiniteSetTheorems, TLAPS

-----------------------------------------------------------------------------
(* Rows.                                                                    *)

\* The absence of rows is told from rows.
LEMMA NoRowsIsNone == NoRows \notin Rows /\ Unread(NoRows) = {} /\ NoRows.upTo = 0
BY AlertAssumption DEF NoRows, Rows, Unread

\* The unread rows are counted between 0 and all.
LEMMA UnreadCount ==
  ASSUME NEW rows, NEW n \in Nat, rows.upTo = n
  PROVE  Cardinality(Unread(rows)) \in 0..n
<1>1. IsFiniteSet(1..n) /\ Cardinality(1..n) = IF 1 > n THEN 0 ELSE n - 1 + 1
  BY FS_Interval
<1>2. Unread(rows) \in SUBSET (1..n)
  BY DEF Unread
<1>3. IsFiniteSet(Unread(rows)) /\ Cardinality(Unread(rows)) <= Cardinality(1..n)
  BY <1>1, <1>2, FS_Subset
<1>4. Cardinality(Unread(rows)) \in Nat /\ Cardinality(1..n) \in Nat
  BY <1>1, <1>3, FS_CardinalityType
<1> QED
  BY <1>1, <1>3, <1>4

\* The same rows, others of them read.
LEMMA RowsMarked ==
  ASSUME NEW rows \in Rows, NEW S \in SUBSET (1..rows.upTo)
  PROVE  LET marked == [rows EXCEPT !.read = S]
         IN  marked \in Rows /\ marked.upTo = rows.upTo /\ marked.read = S
BY AlertAssumption DEF Rows

-----------------------------------------------------------------------------
(* The invariant.                                                           *)

\* Rows that were in the table once, as far as their ids go.
Known(rows) == rows = NoRows \/ (rows \in Rows /\ rows.upTo <= posted /\ rows.read \subseteq 1..rows.upTo)

\* An answer on its way may lag behind the table, but is not ahead of it.
Sent(rows) == Known(rows) /\ (rows # NoRows => rows.read \subseteq read)

TableInv ==
  /\ posted \in 0..MaxAlert
  /\ read \subseteq 1..posted
  /\ appStarts \in 0..MaxAppStart

AnswersInv ==
  /\ DOMAIN poll = Poll
  /\ poll = [k \in Poll |-> poll[k]]
  /\ \A k \in Poll : Sent(poll[k])
  /\ Sent(loaded)

BadgeInv == badge \in 0..posted

\* Nothing at or above the newest id recorded was heard of; before the first
\* load, every answer on its way carries all that was.
HeardInv ==
  /\ initialLoad \in BOOLEAN
  /\ lastSeen \in 0..posted
  /\ heard \subseteq 1..posted
  /\ ~initialLoad => heard \subseteq 1..lastSeen
  /\ initialLoad => \A k \in Poll : poll[k] # NoRows => heard \subseteq 1..poll[k].upTo

\* The screen is there whenever it waits for something.  What a tap has had
\* answered is read; and while no load lands, `Mark All Read` posts for all
\* that is unread on the screen.
ListInv ==
  /\ Known(list)
  /\ loaded # NoRows => list # NoRows
  /\ marking \in Mark
  /\ marking # NoMark => list # NoRows
  /\ marking.left \subseteq 1..posted
  /\ marking.of \ marking.left \subseteq read
  /\ raced \in BOOLEAN
  /\ marking.all /\ ~raced => Unread(list) \subseteq marking.of
  /\ OnlyRacedLoadHidesAlerts

AlertInv == TableInv /\ AnswersInv /\ BadgeInv /\ HeardInv /\ ListInv

LEMMA InvIsTyped == AlertInv => AlertTypeOK
<1> SUFFICES ASSUME AlertInv PROVE AlertTypeOK
  OBVIOUS
<1>1. poll \in [Poll -> Rows \union {NoRows}] /\ loaded \in Rows \union {NoRows}
  BY DEF AlertInv, AnswersInv, Sent, Known
<1>2. list \in Rows \union {NoRows}
  BY DEF AlertInv, ListInv, Known
<1> QED
  BY <1>1, <1>2 DEF AlertInv, TableInv, BadgeInv, HeardInv, ListInv, AlertTypeOK

LEMMA AlertInvInit == AlertInit => AlertInv
<1> SUFFICES ASSUME AlertInit PROVE AlertInv
  OBVIOUS
<1> USE AlertAssumption DEF AlertInit
<1>1. TableInv /\ BadgeInv
  BY DEF TableInv, BadgeInv
<1>2. AnswersInv
  BY DEF AnswersInv, Sent, Known
<1>3. HeardInv
  <2>1. initialLoad \in BOOLEAN /\ initialLoad
    OBVIOUS
  <2> QED
    BY <2>1 DEF HeardInv
<1>4. ListInv
  <2>1. raced \in BOOLEAN
    OBVIOUS
  <2>2. marking \in Mark /\ ~marking.all /\ marking.of = {} /\ marking.left = {}
    BY DEF NoMark, Mark
  <2>3. list = NoRows /\ loaded = NoRows /\ marking = NoMark
    OBVIOUS
  <2> QED
    BY <2>1, <2>2, <2>3 DEF ListInv, Known, OnlyRacedLoadHidesAlerts
<1> QED
  BY <1>1, <1>2, <1>3, <1>4 DEF AlertInv

-----------------------------------------------------------------------------
(* One part of the invariant at a time.                                     *)

\* The table only grows.
LEMMA TableGrows ==
  ASSUME AlertInv, AlertNext
  PROVE  TableInv' /\ posted <= posted' /\ read \subseteq read'
<1> USE AlertAssumption DEF AlertInv, TableInv
<1>1. CASE PostAlert
  BY <1>1 DEF PostAlert
<1>2. CASE ReadElsewhere
  BY <1>2 DEF ReadElsewhere
<1>3. CASE AppStart
  BY <1>3 DEF AppStart
<1>4. CASE MarkLands
  BY <1>4 DEF MarkLands, ListInv
<1>5. CASE MountActivity \/ AnswerLoad \/ EndLoad
  <2>1. UNCHANGED <<posted, read, appStarts>>
    BY <1>5, Zenon DEF MountActivity, AnswerLoad, EndLoad, FinishLoad, FailLoad
  <2> QED
    BY <2>1
<1>6. CASE ReadAlert \/ MarkAllAlertsRead \/ EndMark
  BY <1>6 DEF ReadAlert, MarkAllAlertsRead, StartMark, EndMark, FinishMark, FailMark
<1>7. ASSUME NEW k \in Poll, AnswerPoll(k) \/ EndPoll(k)
      PROVE  TableInv' /\ posted <= posted' /\ read \subseteq read'
  <2>1. UNCHANGED <<posted, read, appStarts>>
    BY <1>7, Zenon DEF AnswerPoll, EndPoll, Deliver, LosePoll
  <2> QED
    BY <2>1
<1> QED
  BY <1>1, <1>2, <1>3, <1>4, <1>5, <1>6, <1>7 DEF AlertNext, Screen

\* So rows stay known, and answers stay behind the table.
LEMMA RowsAge ==
  ASSUME AlertInv, AlertNext, NEW rows
  PROVE  /\ Known(rows) => Known(rows)'
         /\ Sent(rows) => Sent(rows)'
<1>1. posted \in Nat /\ posted' \in Nat /\ posted <= posted' /\ read \subseteq read'
  BY TableGrows, AlertAssumption DEF AlertInv, TableInv
<1>2. ASSUME rows \in Rows, rows.upTo <= posted
      PROVE  rows.upTo <= posted'
  BY <1>1, <1>2, AlertAssumption DEF Rows
<1> QED
  BY <1>1, <1>2 DEF Known, Sent

\* What the Pi answers now.
LEMMA AnswerIsSent == AlertInv => Sent(Answer) /\ Answer \in Rows
<1> SUFFICES ASSUME AlertInv PROVE Sent(Answer) /\ Answer \in Rows
  OBVIOUS
<1>1. posted \in 0..MaxAlert /\ read \subseteq 1..posted
  BY DEF AlertInv, TableInv
<1>2. Answer.upTo = posted /\ Answer.read = read
  BY DEF Answer
<1>3. Answer \in Rows
  BY <1>1, AlertAssumption DEF Answer, Rows
<1> QED
  BY <1>1, <1>2, <1>3, AlertAssumption DEF Sent, Known

LEMMA AnswersKept ==
  ASSUME AlertInv, AlertNext
  PROVE  AnswersInv'
<1> USE DEF AlertInv, AnswersInv
<1> DEFINE Replaced == /\ poll' = [k \in Poll |-> poll'[k]]
                       /\ \A k \in Poll : poll'[k] \in {poll[k], NoRows, Answer}
                       /\ loaded' \in {loaded, NoRows, Answer}
<1>1. Replaced
  <2>1. CASE PostAlert \/ ReadElsewhere \/ AppStart
    BY <2>1 DEF PostAlert, ReadElsewhere, AppStart, screen
  <2>2. CASE MarkLands \/ MountActivity \/ AnswerLoad \/ EndLoad
    BY <2>2 DEF MarkLands, MountActivity, AnswerLoad, EndLoad, FinishLoad, FailLoad
  <2>3. CASE ReadAlert \/ MarkAllAlertsRead \/ EndMark
    BY <2>3 DEF ReadAlert, MarkAllAlertsRead, StartMark, EndMark, FinishMark, FailMark
  <2>4. ASSUME NEW k \in Poll, AnswerPoll(k) \/ EndPoll(k)
        PROVE  Replaced
    BY <2>4 DEF AnswerPoll, EndPoll, Deliver, LosePoll, screen
  <2> QED
    BY <2>1, <2>2, <2>3, <2>4 DEF AlertNext, Screen
<1>2. \A rows : Sent(rows) => Sent(rows)'
  BY RowsAge
<1>3. Sent(NoRows) /\ Sent(Answer)
  BY AnswerIsSent DEF Sent, Known
<1> QED
  BY <1>1, <1>2, <1>3

\* The rows the screen shows at the end of a tap: only what the Pi has read is
\* read in them, unless a load raced with `Mark All Read`.
LEMMA MarkedScreen ==
  ASSUME AlertInv, FinishMark
  PROVE  \E rows : /\ rows # NoRows /\ Known(rows) /\ ShowRows(rows)
                   /\ ~raced => rows.read \subseteq read
<1> DEFINE S == IF marking.all THEN 1..list.upTo
                ELSE list.read \union (marking.of \intersect 1..list.upTo)
           marked == [list EXCEPT !.read = S]
<1>1. list \in Rows /\ list.upTo <= posted /\ list.read \subseteq 1..list.upTo
  BY DEF FinishMark, AlertInv, ListInv, Known
<1>2. marked \in Rows /\ marked.upTo = list.upTo /\ marked.read = S
  <2>1. S \in SUBSET (1..list.upTo)
    BY <1>1
  <2> HIDE DEF S
  <2> QED
    BY <1>1, <2>1, RowsMarked
<1>3. marking.of \subseteq read
  BY DEF FinishMark, AlertInv, ListInv
<1>4. ~raced => S \subseteq read
  <2>1. ~raced => list.read \subseteq read
    BY <1>1, NoRowsIsNone DEF AlertInv, ListInv, OnlyRacedLoadHidesAlerts
  <2>2. ~raced /\ marking.all => 1..list.upTo \subseteq list.read \union marking.of
    BY DEF AlertInv, ListInv, Unread
  <2> QED
    BY <1>3, <2>1, <2>2
<1>5. ShowRows(marked)
  BY DEF FinishMark
<1>6. S \subseteq 1..list.upTo
  BY <1>1
<1> HIDE DEF S, marked
<1>7. marked # NoRows /\ Known(marked)
  BY <1>1, <1>2, <1>6, NoRowsIsNone DEF Known
<1> QED
  BY <1>2, <1>4, <1>5, <1>7

\* The badge never counts more alerts than there are.
LEMMA BadgeKept ==
  ASSUME AlertInv, AlertNext
  PROVE  BadgeInv'
<1>1. posted \in Nat /\ posted' \in Nat /\ posted <= posted' /\ badge \in 0..posted
  BY TableGrows, AlertAssumption DEF AlertInv, TableInv, BadgeInv
<1>2. ASSUME NEW rows, Known(rows)
      PROVE  Cardinality(Unread(rows)) \in 0..posted
  <2>1. rows.upTo \in Nat /\ rows.upTo <= posted
    BY <1>1, <1>2, NoRowsIsNone, AlertAssumption DEF Known, Rows
  <2> QED
    BY <1>1, <2>1, UnreadCount
<1>3. badge' \in 0..posted
  <2>1. CASE PostAlert \/ ReadElsewhere \/ AppStart \/ MarkLands \/ MountActivity
    BY <1>1, <2>1 DEF PostAlert, ReadElsewhere, AppStart, MarkLands, MountActivity, feed
  <2>2. CASE AnswerLoad \/ ReadAlert \/ MarkAllAlertsRead \/ FailMark \/ FailLoad
    BY <1>1, <2>2 DEF AnswerLoad, ReadAlert, MarkAllAlertsRead, StartMark, FailMark, FailLoad, feed
  <2>3. CASE FinishLoad
    <3>1. Cardinality(Unread(loaded)) \in 0..posted
      BY <1>2 DEF AlertInv, AnswersInv, Sent
    <3>2. badge' \in {Cardinality(Unread(loaded)), badge}
      BY <2>3, Zenon DEF FinishLoad, ShowRows
    <3> QED
      BY <1>1, <3>1, <3>2
  <2>4. CASE FinishMark
    <3>1. PICK rows : Known(rows) /\ ShowRows(rows)
      BY <2>4, MarkedScreen
    <3>2. Cardinality(Unread(rows)) \in 0..posted
      BY <1>2, <3>1
    <3> QED
      BY <1>1, <3>1, <3>2 DEF ShowRows
  <2>5. ASSUME NEW k \in Poll, Deliver(k)
        PROVE  badge' \in 0..posted
    BY <1>2, <2>5 DEF Deliver, CountUnread, AlertInv, AnswersInv, Sent
  <2>6. ASSUME NEW k \in Poll, AnswerPoll(k) \/ LosePoll(k)
        PROVE  badge' \in 0..posted
    BY <1>1, <2>6 DEF AnswerPoll, LosePoll, feed
  <2> QED
    BY <2>1, <2>2, <2>3, <2>4, <2>5, <2>6 DEF AlertNext, Screen, EndPoll, EndLoad, EndMark
<1> QED
  BY <1>1, <1>3 DEF BadgeInv

\* News is only recorded once heard.
LEMMA HeardKept ==
  ASSUME AlertInv, AlertNext
  PROVE  HeardInv'
<1> USE DEF AlertInv, HeardInv
<1>1. posted \in Nat /\ posted' \in Nat /\ posted <= posted' /\ AnswersInv'
  BY TableGrows, AnswersKept, AlertAssumption DEF TableInv
<1>2. ASSUME UNCHANGED <<initialLoad, lastSeen, heard>>,
             \A k \in Poll : poll'[k] \in {poll[k], NoRows, Answer}
      PROVE  HeardInv'
  <2>1. Answer.upTo = posted
    BY DEF Answer
  <2> QED
    BY <1>1, <1>2, <2>1
<1>3. CASE AppStart
  <2>1. initialLoad' \in BOOLEAN /\ initialLoad'
    BY <1>3, Zenon DEF AppStart
  <2> QED
    BY <1>1, <1>3, <2>1 DEF AppStart
<1>4. ASSUME NEW k \in Poll, Deliver(k)
      PROVE  HeardInv'
  <2> DEFINE rows == poll[k]
  <2>1. /\ rows \in Rows /\ rows.upTo \in Nat /\ rows.upTo <= posted
        /\ posted' = posted /\ DOMAIN poll = Poll
        /\ poll' = [poll EXCEPT ![k] = NoRows]
    BY <1>4, AlertAssumption DEF Deliver, AnswersInv, Sent, Known, Rows
  <2>2. CASE rows.upTo = 0
    BY <1>2, <1>4, <2>1, <2>2 DEF Deliver
  <2>3. ASSUME ~initialLoad', initialLoad' \in BOOLEAN,
               lastSeen' \in 0..posted, heard' \subseteq 1..lastSeen'
        PROVE  HeardInv'
    <3>1. 1..lastSeen' \subseteq 1..posted'
      BY <1>1, <2>1, <2>3
    <3> QED
      BY <2>1, <2>3, <3>1
  <2>4. CASE rows.upTo > 0 /\ initialLoad /\ FirstLoad(rows)
    <3>1. initialLoad' \in BOOLEAN /\ ~initialLoad'
      BY <2>4 DEF FirstLoad
    <3>2. heard \subseteq 1..rows.upTo
      BY <1>4, <2>4 DEF Deliver
    <3>3. lastSeen' = rows.upTo /\ heard' = heard \union 1..rows.upTo
      BY <2>4 DEF FirstLoad
    <3>4. lastSeen' \in 0..posted /\ heard' \subseteq 1..lastSeen'
      <4>1. heard' \subseteq 1..rows.upTo
        BY <3>2, <3>3
      <4>2. rows.upTo \in 0..posted
        BY <1>1, <2>1
      <4> QED
        BY <3>3, <4>1, <4>2
    <3> QED
      BY <2>3, <3>1, <3>4
  <2>5. CASE rows.upTo > 0 /\ ~initialLoad /\ Announce(rows)
    <3>1. initialLoad' \in BOOLEAN /\ ~initialLoad'
      BY <2>5 DEF Announce
    <3>2. heard \subseteq 1..lastSeen /\ lastSeen \in 0..posted
      BY <2>5
    <3>3. \A a \in News(rows) : a \in 1..rows.upTo /\ a > lastSeen
      BY DEF News, Unread
    <3>4. CASE News(rows) = {}
      BY <2>3, <2>5, <3>1, <3>2, <3>4 DEF Announce
    <3>5. CASE News(rows) # {}
      <4>1. lastSeen < rows.upTo
        BY <2>1, <3>2, <3>3, <3>5
      <4>2. lastSeen' = rows.upTo /\ heard' = heard \union News(rows)
        BY <2>5, <3>5 DEF Announce
      <4>3. heard' \subseteq 1..rows.upTo
        <5>1. 1..lastSeen \subseteq 1..rows.upTo
          BY <1>1, <2>1, <3>2, <4>1
        <5>2. News(rows) \subseteq 1..rows.upTo
          BY <3>3
        <5> QED
          BY <3>2, <4>2, <5>1, <5>2
      <4> QED
        BY <1>1, <2>1, <2>3, <3>1, <4>2, <4>3
    <3> QED
      BY <3>4, <3>5
  <2> QED
    BY <1>4, <2>2, <2>4, <2>5 DEF Deliver
<1>5. ASSUME NEW k \in Poll, AnswerPoll(k) \/ LosePoll(k)
      PROVE  HeardInv'
  BY <1>2, <1>5 DEF AnswerPoll, LosePoll, feed, AnswersInv
<1>6. CASE PostAlert \/ ReadElsewhere \/ MarkLands \/ MountActivity \/ AnswerLoad \/ FailLoad
  BY <1>2, <1>6 DEF PostAlert, ReadElsewhere, MarkLands, MountActivity, AnswerLoad, FailLoad, feed
<1>7. CASE ReadAlert \/ MarkAllAlertsRead \/ FailMark
  BY <1>2, <1>7 DEF ReadAlert, MarkAllAlertsRead, StartMark, FailMark, feed
<1>8. CASE FinishLoad \/ FinishMark
  <2>1. UNCHANGED <<initialLoad, lastSeen, heard, poll>>
    BY <1>8, Zenon DEF FinishLoad, FinishMark
  <2> QED
    BY <1>2, <2>1
<1> QED
  BY <1>3, <1>4, <1>5, <1>6, <1>7, <1>8 DEF AlertNext, Screen, EndPoll, EndLoad, EndMark

\* What the screen shows as read stays behind the table.
LEMMA ListKept ==
  ASSUME AlertInv, AlertNext
  PROVE  ListInv'
<1> USE DEF AlertInv, ListInv, OnlyRacedLoadHidesAlerts
<1>1. /\ posted \in Nat /\ posted' \in Nat /\ posted <= posted' /\ read \subseteq read'
      /\ 1..posted \subseteq 1..posted' /\ posted \in 0..MaxAlert
  BY TableGrows, AlertAssumption DEF TableInv
<1>2. \A rows : Known(rows) => Known(rows)'
  BY RowsAge
<1>3. ASSUME UNCHANGED <<list, raced, marking>>, loaded' # NoRows => list # NoRows
      PROVE  ListInv'
  BY <1>1, <1>2, <1>3
<1>4. CASE PostAlert \/ ReadElsewhere
  BY <1>3, <1>4 DEF PostAlert, ReadElsewhere, screen
<1>5. CASE AnswerLoad \/ FailLoad
  BY <1>3, <1>5 DEF AnswerLoad, FailLoad
<1>6. ASSUME NEW k \in Poll, AnswerPoll(k) \/ EndPoll(k)
      PROVE  ListInv'
  <2>1. UNCHANGED screen
    BY <1>6, Zenon DEF AnswerPoll, EndPoll, Deliver, LosePoll
  <2> QED
    BY <1>3, <2>1 DEF screen
<1>7. NoMark \in Mark /\ ~NoMark.all /\ NoMark.of = {} /\ NoMark.left = {}
  BY DEF NoMark, Mark
<1>8. ASSUME marking' = NoMark, raced' \in BOOLEAN, Known(list)', loaded' # NoRows => list' # NoRows,
             list' # NoRows /\ ~raced' => list'.read \subseteq read'
      PROVE  ListInv'
  BY <1>1, <1>7, <1>8
<1>9. CASE AppStart
  <2>1. raced' \in BOOLEAN
    BY <1>9 DEF AppStart
  <2>2. list' = NoRows /\ loaded' = NoRows /\ marking' = NoMark
    BY <1>9, Zenon DEF AppStart
  <2> QED
    BY <1>8, <2>1, <2>2 DEF Known
<1>10. CASE MountActivity
  <2>1. [upTo |-> 0, read |-> {}] \in Rows
    BY AlertAssumption DEF Rows
  <2>2. Known(list)' /\ list'.read = {} /\ list' # NoRows
    BY <1>1, <1>10, <2>1, NoRowsIsNone DEF MountActivity, Known
  <2>3. marking = NoMark /\ UNCHANGED <<loaded, marking, raced>>
    BY <1>10 DEF MountActivity
  <2> QED
    BY <1>8, <2>2, <2>3
<1>11. CASE FinishLoad
  <2>1. /\ list' = loaded /\ loaded # NoRows /\ loaded' = NoRows
        /\ UNCHANGED marking /\ raced' = (raced \/ marking.all)
    BY <1>11, Zenon DEF FinishLoad, ShowRows
  <2>2. raced' \in BOOLEAN /\ (~raced' => ~raced /\ ~marking.all)
    BY <2>1
  <2>3. Known(list)' /\ list'.read \subseteq read'
    BY <1>1, <1>2, <2>1 DEF AnswersInv, Sent
  <2>4. marking.all /\ ~raced' => Unread(list)' \subseteq marking.of
    BY <2>2
  <2> QED
    BY <1>1, <2>1, <2>2, <2>3, <2>4
<1>12. ASSUME NEW all \in BOOLEAN, NEW of \in SUBSET Unread(list), StartMark(all, of),
              all => of = Unread(list)
       PROVE  ListInv'
  <2>1. list \in Rows /\ list.upTo \in 0..posted
    BY <1>1, <1>12, AlertAssumption DEF StartMark, Known, Rows
  <2>2. of \subseteq 1..posted
    BY <1>1, <2>1 DEF Unread
  <2>3. /\ marking' \in Mark /\ marking'.all = all /\ marking'.of = of /\ marking'.left = of
        /\ UNCHANGED <<list, loaded, raced>>
    BY <1>1, <1>12, <2>2, AlertAssumption DEF StartMark, Mark
  <2> QED
    BY <1>1, <1>2, <1>12, <2>2, <2>3 DEF Unread, StartMark
<1>13. CASE ReadAlert
  <2>1. PICK a \in Unread(list) : StartMark(FALSE, {a})
    BY <1>13 DEF ReadAlert
  <2> QED
    BY <1>12, <2>1
<1>14. CASE MarkAllAlertsRead
  BY <1>12, <1>14 DEF MarkAllAlertsRead
<1>15. CASE MarkLands
  <2>1. PICK a \in marking.left : /\ read' = read \union {a}
                                  /\ marking' = [marking EXCEPT !.left = marking.left \ {a}]
    BY <1>15 DEF MarkLands
  <2>2. /\ marking' \in Mark /\ marking'.all = marking.all /\ marking'.of = marking.of
        /\ marking'.left = marking.left \ {a}
    BY <2>1 DEF Mark
  <2>3. UNCHANGED <<list, loaded, raced>> /\ marking # NoMark
    BY <1>7, <1>15, <2>1 DEF MarkLands, screen
  <2> QED
    BY <1>1, <1>2, <2>1, <2>2, <2>3 DEF Unread
<1>16. CASE FinishMark
  <2>1. PICK rows : /\ rows # NoRows /\ Known(rows) /\ ShowRows(rows)
                    /\ ~raced => rows.read \subseteq read
    BY <1>16, MarkedScreen
  <2>2. marking' = NoMark /\ UNCHANGED <<loaded, raced>>
    BY <1>16, Zenon DEF FinishMark
  <2> QED
    BY <1>1, <1>2, <1>8, <2>1, <2>2 DEF ShowRows
<1>17. CASE FailMark
  BY <1>1, <1>2, <1>8, <1>17 DEF FailMark
<1> QED
  BY <1>4, <1>5, <1>6, <1>9, <1>10, <1>11, <1>13, <1>14, <1>15, <1>16, <1>17
     DEF AlertNext, Screen, EndLoad, EndMark

LEMMA AlertInvNext == AlertInv /\ [AlertNext]_alertVars => AlertInv'
<1>1. ASSUME AlertInv, AlertNext PROVE AlertInv'
  BY <1>1, TableGrows, AnswersKept, BadgeKept, HeardKept, ListKept DEF AlertInv
<1>2. ASSUME AlertInv, UNCHANGED alertVars PROVE AlertInv'
  BY <1>2 DEF alertVars, feed, screen, AlertInv, TableInv, AnswersInv, Sent, Known, BadgeInv,
              HeardInv, ListInv, Unread, OnlyRacedLoadHidesAlerts
<1> QED
  BY <1>1, <1>2

LEMMA AlertInvAlways == AlertSpec => []AlertInv
BY AlertInvInit, AlertInvNext, PTL DEF AlertSpec

-----------------------------------------------------------------------------
(* The theorems.                                                            *)

\* Type correctness: neither the table nor an app that was restarted shows
\* more alerts than were posted, in the list or in the badge.
THEOREM AlertTypeCorrect == AlertSpec => []AlertTypeOK
BY AlertInvAlways, InvIsTyped, PTL

\* No alert is announced twice, for any number of polls in flight and of
\* restarts of the app.
THEOREM AnnouncedOnceAlways == AlertSpec => AnnouncedOnce
<1>1. AlertInv /\ [AlertNext]_alertVars
        => [\A k \in Poll : Deliver(k) /\ ~initialLoad => News(poll[k]) \intersect heard = {}]_alertVars
  <2> SUFFICES ASSUME AlertInv, NEW k \in Poll, ~initialLoad
               PROVE  News(poll[k]) \intersect heard = {}
    OBVIOUS
  <2>1. heard \subseteq 1..lastSeen /\ lastSeen \in Nat
    BY AlertAssumption DEF AlertInv, HeardInv, TableInv
  <2>2. ASSUME NEW a \in 1..lastSeen PROVE ~(a > lastSeen)
    BY <2>1
  <2> QED
    BY <2>1, <2>2 DEF News
<1> QED
  BY <1>1, AlertInvAlways, PTL DEF AlertSpec, AnnouncedOnce

\* The screen hides an alert only after a load raced with `Mark All Read`.
THEOREM OnlyRacedLoadHidesAlertsAlways == AlertSpec => []OnlyRacedLoadHidesAlerts
<1>1. AlertInv => OnlyRacedLoadHidesAlerts
  BY DEF AlertInv, ListInv
<1> QED
  BY <1>1, AlertInvAlways, PTL

-----------------------------------------------------------------------------
(* Nothing is passed over.                                                  *)

\* lastSeenAlertId never moves past an alert in silence: what it has passed was
\* vibrated for, was in the first list, or had been read.
SkipsNothing == ~initialLoad => 1..lastSeen \subseteq heard \union read

LEMMA SkipsNothingKept ==
  ASSUME AlertInv, SkipsNothing, AlertNext
  PROVE  SkipsNothing'
<1>1. read \subseteq read'
  BY TableGrows
<1>2. CASE UNCHANGED <<initialLoad, lastSeen, heard>>
  BY <1>1, <1>2 DEF SkipsNothing
<1>3. CASE AppStart
  <2>1. initialLoad'
    BY <1>3 DEF AppStart
  <2> QED
    BY <2>1 DEF SkipsNothing
<1>4. ASSUME NEW k \in Poll, Deliver(k) PROVE SkipsNothing'
  <2> DEFINE rows == poll[k]
  <2>1. /\ rows.upTo \in Nat /\ rows.upTo <= posted /\ rows.read \subseteq read
        /\ posted \in Nat /\ lastSeen \in 0..posted
    BY <1>4, AlertAssumption DEF Deliver, AlertInv, TableInv, AnswersInv, HeardInv, Sent, Known, Rows
  <2>2. CASE rows.upTo > 0 /\ initialLoad /\ FirstLoad(rows)
    BY <2>2 DEF FirstLoad, SkipsNothing
  <2>3. CASE rows.upTo > 0 /\ ~initialLoad /\ Announce(rows) /\ News(rows) # {}
    \* What lies between the old and the new lastSeen is in the rows: read, or news.
    <3>1. \A a \in 1..rows.upTo : a > lastSeen => a \in News(rows) \union read
      BY <2>1 DEF News, Unread
    <3>2. \A a \in 1..rows.upTo : a > lastSeen \/ a \in 1..lastSeen
      BY <2>1
    <3>3. lastSeen' = rows.upTo /\ heard' = heard \union News(rows)
      BY <2>3 DEF Announce
    <3>4. 1..lastSeen \subseteq heard \union read
      BY <2>3 DEF SkipsNothing
    <3>5. 1..rows.upTo \subseteq heard' \union read'
      BY <1>1, <3>1, <3>2, <3>3, <3>4
    <3> QED
      BY <3>3, <3>5 DEF SkipsNothing
  <2>4. CASE ~initialLoad /\ Announce(rows) /\ News(rows) = {}
    <3>1. UNCHANGED initialLoad /\ lastSeen' = lastSeen /\ heard \subseteq heard'
      BY <2>4 DEF Announce
    <3> QED
      BY <1>1, <3>1 DEF SkipsNothing
  <2> QED
    BY <1>2, <1>4, <2>2, <2>3, <2>4 DEF Deliver
<1>5. ASSUME NEW k \in Poll, AnswerPoll(k) \/ LosePoll(k) PROVE SkipsNothing'
  BY <1>2, <1>5 DEF AnswerPoll, LosePoll, feed
<1>6. CASE PostAlert \/ ReadElsewhere \/ MarkLands \/ MountActivity \/ AnswerLoad \/ FailLoad
  BY <1>2, <1>6 DEF PostAlert, ReadElsewhere, MarkLands, MountActivity, AnswerLoad, FailLoad, feed
<1>7. CASE ReadAlert \/ MarkAllAlertsRead \/ FailMark
  BY <1>2, <1>7 DEF ReadAlert, MarkAllAlertsRead, StartMark, FailMark, feed
<1>8. CASE FinishLoad \/ FinishMark
  <2>1. UNCHANGED <<initialLoad, lastSeen, heard>>
    BY <1>8, Zenon DEF FinishLoad, FinishMark
  <2> QED
    BY <1>2, <2>1
<1> QED
  BY <1>3, <1>4, <1>5, <1>6, <1>7, <1>8 DEF AlertNext, Screen, EndPoll, EndLoad, EndMark

\* For any number of polls in flight, answered in any order: no alert is lost.
\* With the liveness of polling (EventuallyHandled) each one is announced.
THEOREM SkipsNothingAlways == AlertSpec => []SkipsNothing
<1>1. AlertInit => SkipsNothing
  BY DEF AlertInit, SkipsNothing
<1>2. AlertInv /\ SkipsNothing /\ [AlertNext]_alertVars => SkipsNothing'
  BY SkipsNothingKept DEF SkipsNothing, alertVars, feed
<1> QED
  BY <1>1, <1>2, AlertInvAlways, PTL DEF AlertSpec

-----------------------------------------------------------------------------
(* BadgeSettles, as far as it is safety.                                    *)

BadgeRight == badge = posted - Cardinality(read)

\* Answers in flight that are older than the table.
StalePolls == {k \in Poll : poll[k] \notin {NoRows, Answer}}

StaleLoad == loaded \notin {NoRows, Answer}

\* The screen shows fewer alerts as unread.
Fewer == Unread(list)' \subseteq Unread(list) /\ Unread(list)' # Unread(list)

\* While the table stays as it is, no answer goes stale, a poll that is answered
\* afresh sets the badge right, and only these put it wrong again: the
\* stale answers, which grow fewer, a start of the app, the first visit of the
\* Activity screen, which it keeps until the app ends, and the end of a tap that
\* marks alerts, after which the screen counts fewer unread ones.
BadgeAdvances ==
  UNCHANGED <<posted, read>> =>
    /\ StalePolls' \subseteq StalePolls /\ (StaleLoad' => StaleLoad)
    /\ \A k \in Poll : EndPoll(k) => k \notin StalePolls'
    /\ EndLoad => ~StaleLoad'
    /\ \A k \in Poll \ StalePolls : Deliver(k) => BadgeRight'
    /\ BadgeRight /\ ~BadgeRight' =>
         \/ \E k \in StalePolls : Deliver(k)
         \/ StaleLoad /\ FinishLoad
         \/ AppStart \/ MountActivity
         \/ FinishMark /\ Fewer

\* The badge that fresh rows give.
LEMMA FreshCount == AlertInv => Cardinality(Unread(Answer)) = posted - Cardinality(read)
<1> SUFFICES ASSUME AlertInv PROVE Cardinality(Unread(Answer)) = posted - Cardinality(read)
  OBVIOUS
<1>1. posted \in Nat /\ read \subseteq 1..posted
  BY AlertAssumption DEF AlertInv, TableInv
<1>2. IsFiniteSet(1..posted) /\ Cardinality(1..posted) = posted
  BY <1>1, FS_Interval
<1>3. Unread(Answer) = (1..posted) \ read
  BY DEF Unread, Answer
<1>4. (1..posted) \intersect read = read
  BY <1>1
<1>5. Cardinality((1..posted) \ read) = Cardinality(1..posted) - Cardinality((1..posted) \intersect read)
  BY <1>2, FS_Difference
<1> QED
  BY <1>2, <1>3, <1>4, <1>5

\* Answers in flight, while the table stays as it is.
LEMMA NothingGoesStale ==
  ASSUME AlertInv, AlertNext, UNCHANGED <<posted, read>>
  PROVE  /\ StalePolls' \subseteq StalePolls /\ (StaleLoad' => StaleLoad)
         /\ \A k \in Poll : EndPoll(k) => k \notin StalePolls'
         /\ EndLoad => ~StaleLoad'
<1>0. Answer' = Answer /\ DOMAIN poll = Poll
  BY DEF Answer, AlertInv, AnswersInv
<1>1. \A k \in Poll : poll'[k] \in {poll[k], NoRows, Answer}
  BY <1>0 DEF AlertNext, Screen, PostAlert, ReadElsewhere, AppStart, MountActivity, AnswerLoad,
     EndLoad, FinishLoad, FailLoad, ReadAlert, MarkAllAlertsRead, StartMark, MarkLands, EndMark,
     FinishMark, FailMark, AnswerPoll, EndPoll, Deliver, LosePoll
<1>2. loaded' \in {loaded, NoRows, Answer}
  BY DEF AlertNext, Screen, PostAlert, ReadElsewhere, AppStart, MountActivity, AnswerLoad,
     EndLoad, FinishLoad, FailLoad, ReadAlert, MarkAllAlertsRead, StartMark, MarkLands, EndMark,
     FinishMark, FailMark, AnswerPoll, EndPoll, Deliver, LosePoll, screen
<1>3. \A k \in Poll : EndPoll(k) => poll'[k] = NoRows
  BY <1>0 DEF EndPoll, Deliver, LosePoll
<1>4. EndLoad => loaded' = NoRows
  BY DEF EndLoad, FinishLoad, FailLoad
<1> QED
  BY <1>0, <1>1, <1>2, <1>3, <1>4 DEF StalePolls, StaleLoad

\* A tap that ends marks some of what the screen showed as unread, and nothing
\* else; without a change of their number the badge stays.
LEMMA MarkShrinks ==
  ASSUME AlertInv, FinishMark, badge' # badge
  PROVE  Fewer
<1> DEFINE S == IF marking.all THEN 1..list.upTo
                ELSE list.read \union (marking.of \intersect 1..list.upTo)
<1>1. PICK rows : rows = [list EXCEPT !.read = S] /\ ShowRows(rows)
  BY DEF FinishMark
<1>2. list' = rows /\ Unread(rows) # Unread(list)
  BY <1>1 DEF ShowRows
<1>3. rows.upTo = list.upTo /\ rows.read = S
  <2>1. list \in Rows /\ list.read \subseteq 1..list.upTo
    BY DEF FinishMark, AlertInv, ListInv, Known
  <2>2. S \in SUBSET (1..list.upTo)
    BY <2>1
  <2> HIDE DEF S
  <2> QED
    BY <1>1, <2>1, <2>2, RowsMarked
<1>4. Unread(rows) \subseteq Unread(list)
  BY <1>3 DEF Unread
<1>5. Unread(list)' = Unread(rows)
  BY <1>2 DEF Unread
<1> QED
  BY <1>2, <1>4, <1>5 DEF Fewer

\* Whatever else happens leaves a right badge right.
LEMMA BadgeStays ==
  ASSUME AlertInv, AlertNext, UNCHANGED <<posted, read>>, BadgeRight, ~BadgeRight'
  PROVE  \/ \E k \in StalePolls : Deliver(k)
         \/ StaleLoad /\ FinishLoad
         \/ AppStart \/ MountActivity \/ FinishMark
<1>1. badge' # badge
  BY DEF BadgeRight
<1>2. badge = Cardinality(Unread(Answer)) /\ badge' # Cardinality(Unread(Answer))
  BY FreshCount DEF BadgeRight
<1>3. ASSUME NEW k \in Poll, Deliver(k) PROVE k \in StalePolls
  BY <1>2, <1>3 DEF Deliver, CountUnread, StalePolls
<1>4. FinishLoad => StaleLoad
  BY <1>2 DEF FinishLoad, ShowRows, StaleLoad
<1>5. \/ AppStart \/ MountActivity \/ FinishLoad \/ FinishMark
      \/ \E k \in Poll : Deliver(k)
  BY <1>1 DEF AlertNext, Screen, PostAlert, ReadElsewhere, AnswerLoad, EndLoad, FailLoad, ReadAlert,
     MarkAllAlertsRead, StartMark, MarkLands, EndMark, FailMark, AnswerPoll, EndPoll, LosePoll, feed
<1> QED
  BY <1>3, <1>4, <1>5

\* BadgeSettles up to fairness and to the bound on what the user does, for any
\* number of polls in flight: while the table stays as it is, every poll that is
\* answered afresh sets the badge right, and the writes that put it wrong run
\* out.
THEOREM BadgeSettlesByAdvancing == AlertSpec => [][BadgeAdvances]_alertVars
<1>1. AlertInv /\ AlertNext => BadgeAdvances
  <2> SUFFICES ASSUME AlertInv, AlertNext, UNCHANGED <<posted, read>>
               PROVE  /\ \A k \in Poll \ StalePolls : Deliver(k) => BadgeRight'
                      /\ BadgeRight /\ ~BadgeRight' =>
                           \/ \E k \in StalePolls : Deliver(k)
                           \/ StaleLoad /\ FinishLoad
                           \/ AppStart \/ MountActivity
                           \/ FinishMark /\ Fewer
    BY NothingGoesStale DEF BadgeAdvances
  <2>1. ASSUME NEW k \in Poll \ StalePolls, Deliver(k) PROVE BadgeRight'
    <3>1. poll[k] = Answer /\ badge' = Cardinality(Unread(poll[k]))
      BY <2>1 DEF Deliver, CountUnread, StalePolls
    <3> QED
      BY <3>1, FreshCount DEF BadgeRight
  <2>2. BadgeRight /\ ~BadgeRight' => badge' # badge
    BY DEF BadgeRight
  <2> QED
    BY <2>1, <2>2, BadgeStays, MarkShrinks
<1> QED
  BY <1>1, AlertInvAlways, PTL DEF AlertSpec

-----------------------------------------------------------------------------
(* EventuallyHandled itself.                                                *)

\* The app handles an answer that the Pi gave after alert a was posted.
Told(a) == \E k \in Poll : Deliver(k) /\ a <= poll[k].upTo

\* Whatever became of earlier polls, some answer gets through again and again
\* that was not given before the alert was posted.
FairTelling(a) == []<>~(a <= posted) \/ []<><<Told(a)>>_alertVars

FairTellings == \A a \in 1..MaxAlert : FairTelling(a)

\* Such an answer settles the matter: the alert is read in it, or the first news,
\* or above the mark and announced, or below it and settled before.
LEMMA ToldIsHandled ==
  ASSUME AlertInv, SkipsNothing, NEW a \in 1..MaxAlert, Told(a)
  PROVE  a \in heard' \union read'
<1>1. PICK k \in Poll : Deliver(k) /\ a <= poll[k].upTo
  BY DEF Told
<1> DEFINE rows == poll[k]
<1>2. rows \in Rows /\ rows.read \subseteq read
  BY <1>1 DEF Deliver, AlertInv, AnswersInv, Sent, Known
<1>3. a \in 1..rows.upTo /\ rows.upTo > 0
  <2>1. rows.upTo \in Nat /\ a \in Nat /\ a >= 1 /\ a <= rows.upTo
    BY <1>1, <1>2, AlertAssumption DEF Rows
  <2> QED
    BY <2>1
<1>4. read' = read
  BY <1>1 DEF Deliver
<1>5. CASE initialLoad
  <2>1. rows.upTo # 0
    BY <1>3
  <2>2. FirstLoad(rows)
    BY <1>1, <1>5, <2>1, Zenon DEF Deliver
  <2>3. heard' = heard \union 1..rows.upTo
    BY <2>2 DEF FirstLoad
  <2> QED
    BY <1>3, <2>3
<1>6. CASE ~initialLoad
  <2>1. heard' = heard \union News(rows)
    BY <1>1, <1>3, <1>6 DEF Deliver, Announce
  <2>2. CASE a \in rows.read
    BY <1>2, <1>4, <2>2
  <2>3. CASE a \notin rows.read /\ a > lastSeen
    BY <1>3, <2>1, <2>3 DEF News, Unread
  <2>4. CASE ~(a > lastSeen)
    <3>1. a \in 1..lastSeen
      BY <2>4, AlertAssumption DEF AlertInv, HeardInv, TableInv
    <3> QED
      BY <1>4, <1>6, <2>1, <3>1 DEF SkipsNothing
  <2> QED
    BY <2>2, <2>3, <2>4
<1> QED
  BY <1>5, <1>6

\* EventuallyHandled, for any number of alerts, of restarts of the app and of
\* polls answered out of order or lost.
THEOREM EventuallyHandledIfFair == AlertSpec /\ FairTellings => EventuallyHandled
<1>1. ASSUME NEW a \in 1..MaxAlert
      PROVE  AlertSpec /\ FairTelling(a) => ((a <= posted) ~> (a \in heard \union read))
  <2> DEFINE Posted == a <= posted
  <2> DEFINE Handled == a \in heard \union read
  <2> DEFINE Tells == Told(a)
  <2>1. AlertInv /\ [AlertNext]_alertVars /\ Posted => Posted'
    <3> SUFFICES ASSUME AlertInv, [AlertNext]_alertVars, a <= posted PROVE a <= posted'
      OBVIOUS
    <3>1. CASE AlertNext
      BY <3>1, TableGrows, AlertAssumption DEF AlertInv, TableInv
    <3>2. CASE UNCHANGED alertVars
      BY <3>2 DEF alertVars
    <3> QED
      BY <3>1, <3>2
  <2>2. AlertInv /\ SkipsNothing /\ Tells => Handled'
    BY ToldIsHandled
  <2>3. FairTelling(a) => []<>~Posted \/ []<><<Tells>>_alertVars
    BY DEF FairTelling
  <2>4. AlertSpec /\ FairTelling(a) => (Posted ~> Handled)
    <3> HIDE DEF Posted, Handled, Tells
    <3> QED
      BY <2>1, <2>2, <2>3, AlertInvAlways, SkipsNothingAlways, PTL DEF AlertSpec
  <2> QED
    BY <2>4
<1> QED
  BY <1>1 DEF FairTellings, EventuallyHandled

-----------------------------------------------------------------------------
(* BadgeSettles itself.                                                     *)

\* Nobody posts an alert, reads one or starts the app.
Undisturbed == ~PostAlert /\ ~ReadElsewhere /\ ~AppStart /\ ~ReadAlert /\ ~MarkAllAlertsRead

\* Every request of the app ends within its timeout.
FairMark == []<>(marking = NoMark) \/ []<><<EndMark>>_alertVars

FairLoad == []<>(loaded = NoRows) \/ []<><<EndLoad>>_alertVars

FairPoll(k) == []<>(poll[k] = NoRows) \/ []<><<EndPoll(k)>>_alertVars

\* The network lets the answer of some poll through again and again.
FairDelivery == []<><<\E k \in Poll : Deliver(k)>>_alertVars

FairFeed == FairMark /\ FairLoad /\ (\A k \in Poll : FairPoll(k)) /\ FairDelivery

\* The app polls every 5 s with a timeout of 5 s: two polls are in flight at
\* most, and the one at the start.
ThreePolls == \E a, b, c : Poll = {a, b, c}

Mounted == list # NoRows

\* The table and the app stay as they are, but for the app's requests.
AtRest == /\ UNCHANGED <<posted, read>>
          /\ BadgeAdvances
          /\ ~AppStart /\ ~FinishMark
          /\ Mounted => Mounted'

LEMMA RestsWhenUndisturbed ==
  ASSUME AlertInv, AlertNext, BadgeAdvances, Undisturbed, marking = NoMark
  PROVE  AtRest /\ marking' = NoMark
<1>1. ~MarkLands /\ ~EndMark
  BY DEF MarkLands, EndMark, FinishMark, FailMark, NoMark
<1>2. CASE MountActivity \/ AnswerLoad
  BY <1>1, <1>2 DEF MountActivity, AnswerLoad, AtRest, EndMark, Mounted, NoRows, Undisturbed
<1>3. CASE EndLoad
  <2>1. UNCHANGED <<posted, read, marking>>
    BY <1>3 DEF EndLoad, FinishLoad, FailLoad
  <2>2. (list' = loaded /\ loaded # NoRows) \/ list' = list
    BY <1>3 DEF EndLoad, FinishLoad, FailLoad, ShowRows
  <2> QED
    BY <1>1, <2>1, <2>2 DEF AtRest, EndMark, Mounted, Undisturbed
<1>4. CASE \E k \in Poll : AnswerPoll(k) \/ EndPoll(k)
  <2>1. UNCHANGED <<posted, read, marking, list>>
    BY <1>4 DEF AnswerPoll, EndPoll, Deliver, LosePoll, screen
  <2> QED
    BY <1>1, <2>1 DEF AtRest, EndMark, Mounted, Undisturbed
<1> QED
  BY <1>1, <1>2, <1>3, <1>4 DEF AlertNext, Screen, Undisturbed

\* A tap ends, and none begins.
LEMMA RestInTheEnd ==
  AlertSpec /\ FairMark /\ <>[][Undisturbed]_alertVars => <>[][AtRest]_alertVars
<1> DEFINE Untapped == marking = NoMark
<1>1. AlertInv /\ [AlertNext]_alertVars /\ [BadgeAdvances]_alertVars /\ [Undisturbed]_alertVars
        /\ Untapped
      => Untapped' /\ [AtRest]_alertVars
  <2>1. CASE UNCHANGED alertVars
    BY <2>1 DEF alertVars, screen
  <2> QED
    BY <2>1, RestsWhenUndisturbed
<1>2. EndMark => Untapped'
  BY DEF EndMark, FinishMark, FailMark
<1>3. FairMark => []<>Untapped \/ []<><<EndMark>>_alertVars
  BY DEF FairMark
<1> HIDE DEF Untapped
<1> QED
  BY <1>1, <1>2, <1>3, AlertInvAlways, BadgeSettlesByAdvancing, PTL DEF AlertSpec

\* The stale answers end.
LEMMA StalePollEnds ==
  ASSUME NEW k \in Poll
  PROVE  [][AtRest]_alertVars /\ ([]<>(poll[k] = NoRows) \/ []<><<EndPoll(k)>>_alertVars)
         => <>[](k \notin StalePolls)
<1> DEFINE Fresh == k \notin StalePolls
<1> DEFINE None == poll[k] = NoRows
<1> DEFINE Ends == EndPoll(k)
<1>1. [AtRest]_alertVars /\ Fresh => Fresh'
  <2>1. CASE UNCHANGED alertVars
    BY <2>1 DEF alertVars, StalePolls, Answer
  <2>2. CASE AtRest /\ Fresh
    BY <2>2 DEF AtRest, BadgeAdvances
  <2> QED
    BY <2>1, <2>2
<1>2. [AtRest]_alertVars /\ <<Ends>>_alertVars => Fresh'
  BY DEF AtRest, BadgeAdvances
<1>3. None => Fresh
  BY DEF StalePolls
<1>4. [][AtRest]_alertVars /\ ([]<>None \/ []<><<Ends>>_alertVars) => <>[]Fresh
  <2> HIDE DEF Fresh, None, Ends
  <2> QED
    BY <1>1, <1>2, <1>3, PTL
<1> QED
  BY <1>4

LEMMA StalePollsEnd ==
  ASSUME ThreePolls
  PROVE  [][AtRest]_alertVars /\ (\A k \in Poll : FairPoll(k)) => <>[](StalePolls = {})
<1>1. PICK a, b, c : Poll = {a, b, c}
  BY DEF ThreePolls
<1> DEFINE Rests == [][AtRest]_alertVars /\ (\A k \in Poll : FairPoll(k))
<1>2. ASSUME NEW k \in Poll PROVE Rests => <>[](k \notin StalePolls)
  <2>1. Rests => []<>(poll[k] = NoRows) \/ []<><<EndPoll(k)>>_alertVars
    BY DEF FairPoll
  <2>2. [][AtRest]_alertVars /\ ([]<>(poll[k] = NoRows) \/ []<><<EndPoll(k)>>_alertVars)
        => <>[](k \notin StalePolls)
    BY StalePollEnds
  <2> QED
    BY <2>1, <2>2
<1>3. Rests => <>[](a \notin StalePolls)
  <2>1. PICK k \in Poll : k = a
    BY <1>1
  <2>2. Rests => <>[](k \notin StalePolls)
    BY <1>2
  <2>3. k \notin StalePolls => a \notin StalePolls
    BY <2>1
  <2> HIDE DEF Rests
  <2> QED
    BY <2>2, <2>3, PTL
<1>4. Rests => <>[](b \notin StalePolls)
  <2>1. PICK k \in Poll : k = b
    BY <1>1
  <2>2. Rests => <>[](k \notin StalePolls)
    BY <1>2
  <2>3. k \notin StalePolls => b \notin StalePolls
    BY <2>1
  <2> HIDE DEF Rests
  <2> QED
    BY <2>2, <2>3, PTL
<1>5. Rests => <>[](c \notin StalePolls)
  <2>1. PICK k \in Poll : k = c
    BY <1>1
  <2>2. Rests => <>[](k \notin StalePolls)
    BY <1>2
  <2>3. k \notin StalePolls => c \notin StalePolls
    BY <2>1
  <2> HIDE DEF Rests
  <2> QED
    BY <2>2, <2>3, PTL
<1>6. a \notin StalePolls /\ b \notin StalePolls /\ c \notin StalePolls => StalePolls = {}
  BY <1>1 DEF StalePolls
<1> HIDE DEF Rests
<1>7. Rests => <>[](StalePolls = {})
  BY <1>3, <1>4, <1>5, <1>6, PTL
<1> QED
  BY <1>7 DEF Rests

\* A stale load ends, and the screen is mounted once at most.
LEMMA ScreenComesToRest ==
  [][AtRest]_alertVars /\ FairLoad => <>[]~StaleLoad /\ <>[][~MountActivity]_alertVars
<1> DEFINE None == loaded = NoRows
<1>1. [AtRest]_alertVars => (StaleLoad' => StaleLoad) /\ (<<EndLoad>>_alertVars => ~StaleLoad')
  <2>1. CASE UNCHANGED alertVars
    BY <2>1 DEF alertVars, screen, StaleLoad, Answer
  <2>2. CASE AtRest
    BY <2>2 DEF AtRest, BadgeAdvances
  <2> QED
    BY <2>1, <2>2
<1>2. [AtRest]_alertVars /\ Mounted => Mounted'
  BY DEF AtRest, alertVars, screen, Mounted
<1>3. MountActivity => ~Mounted /\ Mounted'
  BY DEF MountActivity, Mounted, NoRows
<1>4. None => ~StaleLoad
  BY DEF StaleLoad
<1>5. FairLoad => []<>None \/ []<><<EndLoad>>_alertVars
  BY DEF FairLoad
<1> HIDE DEF None
<1> QED
  BY <1>1, <1>2, <1>3, <1>4, <1>5, PTL

\* BadgeSettles, for any number of alerts, if nobody disturbs the app in the
\* end, its requests end and some polls get through.
THEOREM BadgeSettlesIfFair ==
  ASSUME ThreePolls
  PROVE  AlertSpec /\ FairFeed /\ <>[][Undisturbed]_alertVars => BadgeSettles
<1> DEFINE Delivers == \E k \in Poll : Deliver(k)
<1> DEFINE Fresh == StalePolls = {}
<1> DEFINE Polls == \A k \in Poll : FairPoll(k)
<1>1. [AtRest]_alertVars /\ Fresh /\ <<Delivers>>_alertVars => BadgeRight'
  BY DEF AtRest, BadgeAdvances
<1>2. /\ [AtRest]_alertVars /\ [~MountActivity]_alertVars /\ Fresh /\ ~StaleLoad /\ BadgeRight
      => BadgeRight'
  <2>1. CASE UNCHANGED alertVars
    BY <2>1 DEF alertVars, feed, BadgeRight
  <2> QED
    BY <2>1 DEF AtRest, BadgeAdvances
<1>3. FairFeed => FairMark /\ FairLoad /\ Polls /\ []<><<Delivers>>_alertVars
  BY DEF FairFeed, FairDelivery
<1>4. FairLoad => []FairLoad
  BY PTL DEF FairLoad
<1>5. Polls => []Polls
  <2>1. ASSUME NEW k \in Poll PROVE FairPoll(k) => []FairPoll(k)
    BY PTL DEF FairPoll
  <2>2. (\A k \in Poll : []FairPoll(k)) => [](\A k \in Poll : FairPoll(k))
    OBVIOUS
  <2> QED
    BY <2>1, <2>2
<1>6. [][AtRest]_alertVars /\ Polls => <>[]Fresh
  BY StalePollsEnd
<1>7. AlertSpec /\ FairFeed /\ <>[][Undisturbed]_alertVars => <>[]BadgeRight
  <2> HIDE DEF Delivers, Fresh, Polls
  <2> QED
    BY <1>1, <1>2, <1>3, <1>4, <1>5, <1>6, RestInTheEnd, ScreenComesToRest, PTL
<1> QED
  BY <1>7 DEF BadgeSettles, BadgeRight

=============================================================================
