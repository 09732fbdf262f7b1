------------------------- MODULE SessionMemory_proofs -------------------------
(***************************************************************************)
(* What SessionMemory keeps for any handlers and limits: a user event is   *)
(* lost to the queue's limit or to an overlapping run only, the three      *)
(* accounts of the pending interrupt agree, and what the memory lists lack *)
(* of the queued events gave way to better items.                          *)
(*                                                                         *)
(* The last rests on KeptList, which is proved of one list and one event   *)
(* after the other.  The hard case is a full list of better items: the     *)
(* whole queue is merged each time, so each of its older events gets in    *)
(* again and drives out the next one.  Once round, the list is what it was *)
(* (GoesRound).                                                            *)
(***************************************************************************)
EXTENDS SessionMemory, Subsequences_proofs

Fields == {"interrupt", "copy", "question", "queue", "corrections", "evidence", "compacted"}

Events == [id : Nat, type : EventTypes, consumed : BOOLEAN]

\* A queue that can be put into the row when n events have been posted: each of its
\* events is followed by newer ones only, and each one it lacks is excused.
QueueOK(q, n, lost) ==
  /\ q \in Seq(Events)
  /\ \A i \in 1..Len(q) : q[i].id + (Len(q) - i) <= n
  /\ \A e \in 1..n : (\E i \in 1..Len(q) : q[i].id = e) \/ e \in lost \/ n - e >= QueueLimit

RowOK(row, n, lost) == DOMAIN row = Fields /\ QueueOK(row.queue, n, lost)

\* Lists and their compaction apart, two rows are the same.
SameButLists(new, old) ==
  /\ DOMAIN new = Fields
  /\ new.interrupt = old.interrupt /\ new.copy = old.copy
  /\ new.question = old.question /\ new.queue = old.queue

-----------------------------------------------------------------------------
(* The operators.                                                          *)

LEMMA EventIds ==
  ASSUME NEW q \in Seq(Events)
  PROVE  \A i \in 1..Len(q) : q[i] \in Events /\ q[i].id \in Nat
<1>1. \A i \in 1..Len(q) : q[i] \in Events
  OBVIOUS
<1>2. \A x \in Events : x.id \in Nat
  BY DEF Events
<1> QED
  BY <1>1, <1>2

LEMMA EventAppended ==
  ASSUME NEW n \in Nat, NEW lost, NEW q, QueueOK(q, n, lost), NEW type \in EventTypes
  PROVE  QueueOK(LastEvents(Append(q, [id |-> n + 1, type |-> type, consumed |-> FALSE])), n + 1, lost)
<1> DEFINE event == [id |-> n + 1, type |-> type, consumed |-> FALSE]
           long == Append(q, event)
           cut == SubSeq(long, Len(long) - QueueLimit + 1, Len(long))
<1>1. event \in Events /\ event.id = n + 1
  BY DEF Events
<1> HIDE DEF event
<1>2. q \in Seq(Events) /\ Len(q) \in Nat /\ QueueLimit \in Nat \ {0}
  BY SessionMemoryAssumptions DEF QueueOK
<1>3. /\ long \in Seq(Events) /\ Len(long) = Len(q) + 1
      /\ \A i \in 1..Len(q) : long[i] = q[i]
      /\ long[Len(q) + 1] = event
  BY <1>1, <1>2
<1>4. \A i \in 1..Len(long) : long[i].id \in Nat
  BY <1>3, EventIds
<1>5. QueueOK(long, n + 1, lost)
  <2>1. \A i \in 1..Len(long) : long[i].id + (Len(long) - i) <= n + 1
    <3> SUFFICES ASSUME NEW i \in 1..Len(long)
                 PROVE  long[i].id + (Len(long) - i) <= n + 1
      OBVIOUS
    <3>1. CASE i = Len(q) + 1
      BY <1>1, <1>2, <1>3, <3>1
    <3>2. CASE i \in 1..Len(q)
      <4>1. q[i].id + (Len(q) - i) <= n /\ long[i].id = q[i].id
        BY <1>3, <3>2 DEF QueueOK
      <4> QED
        BY <1>2, <1>3, <1>4, <4>1
    <3> QED
      BY <1>2, <1>3, <3>1, <3>2
  <2>2. ASSUME NEW e \in 1..(n + 1)
        PROVE  (\E i \in 1..Len(long) : long[i].id = e) \/ e \in lost \/ (n + 1) - e >= QueueLimit
    <3>1. CASE e = n + 1
      BY <1>1, <1>2, <1>3, <3>1
    <3>2. CASE e \in 1..n
      <4>1. (\E i \in 1..Len(q) : q[i].id = e) \/ e \in lost \/ n - e >= QueueLimit
        BY <3>2 DEF QueueOK
      <4>2. n - e >= QueueLimit => (n + 1) - e >= QueueLimit
        BY <1>2
      <4>3. (\E i \in 1..Len(q) : q[i].id = e) => \E i \in 1..Len(long) : long[i].id = e
        BY <1>2, <1>3
      <4> QED
        BY <4>1, <4>2, <4>3
    <3> QED
      BY <3>1, <3>2
  <2> QED
    BY <1>3, <2>1, <2>2 DEF QueueOK
<1> HIDE DEF long
<1>6. CASE Len(long) <= QueueLimit
  BY <1>5, <1>6 DEF LastEvents, Newest, long, event
<1>7. CASE ~(Len(long) <= QueueLimit)
  <2> DEFINE gone == Len(long) - QueueLimit
  <2>1. gone \in Nat /\ Len(long) \in Nat /\ Len(long) = gone + QueueLimit
    BY <1>2, <1>3, <1>7
  <2>2. /\ cut \in Seq(Events) /\ Len(cut) = QueueLimit
        /\ \A k \in 1..QueueLimit : cut[k] = long[gone + k]
    BY <1>2, <1>3, <2>1
  <2> HIDE DEF gone, cut
  <2>3. \A k \in 1..Len(cut) : cut[k].id + (Len(cut) - k) <= n + 1
    <3> SUFFICES ASSUME NEW k \in 1..QueueLimit
                 PROVE  cut[k].id + (QueueLimit - k) <= n + 1
      BY <2>2
    <3>1. gone + k \in 1..Len(long)
      BY <1>2, <2>1
    <3>2. long[gone + k].id + (Len(long) - (gone + k)) <= n + 1 /\ long[gone + k].id \in Nat
      BY <1>4, <1>5, <3>1 DEF QueueOK
    <3> QED
      BY <1>2, <2>1, <2>2, <3>2
  <2>4. ASSUME NEW e \in 1..(n + 1)
        PROVE  (\E k \in 1..Len(cut) : cut[k].id = e) \/ e \in lost \/ (n + 1) - e >= QueueLimit
    <3>1. (\E i \in 1..Len(long) : long[i].id = e) \/ e \in lost \/ (n + 1) - e >= QueueLimit
      BY <1>5 DEF QueueOK
    <3>2. ASSUME NEW i \in 1..Len(long), long[i].id = e
          PROVE  (\E k \in 1..Len(cut) : cut[k].id = e) \/ (n + 1) - e >= QueueLimit
      <4>1. CASE i <= gone
        <5>1. e + (Len(long) - i) <= n + 1
          BY <1>5, <3>2 DEF QueueOK
        <5> QED
          BY <1>2, <2>1, <4>1, <5>1
      <4>2. CASE i > gone
        <5>1. i - gone \in 1..QueueLimit /\ gone + (i - gone) = i
          BY <1>2, <2>1, <4>2
        <5>2. cut[i - gone] = long[i]
          BY <2>2, <5>1
        <5> QED
          BY <2>2, <3>2, <5>1, <5>2
      <4> QED
        BY <2>1, <4>1, <4>2
    <3> QED
      BY <3>1, <3>2
  <2>5. QueueOK(cut, n + 1, lost)
    BY <2>2, <2>3, <2>4 DEF QueueOK
  <2>6. LastEvents(long) = cut
    BY <1>7 DEF LastEvents, Newest, cut
  <2> QED
    BY <2>5, <2>6 DEF long, event
<1> QED
  BY <1>6, <1>7

\* A queue that does not know the newest event stays good when that event is excused.
LEMMA EventOverlapped ==
  ASSUME NEW n \in Nat, NEW lost, NEW q, QueueOK(q, n, lost)
  PROVE  QueueOK(q, n + 1, lost \cup {n + 1})
<1>1. /\ q \in Seq(Events) /\ Len(q) \in Nat /\ QueueLimit \in Nat
      /\ \A i \in 1..Len(q) : q[i].id \in Nat
  BY SessionMemoryAssumptions, EventIds DEF QueueOK
<1>2. \A i \in 1..Len(q) : q[i].id + (Len(q) - i) <= n + 1
  <2> SUFFICES ASSUME NEW i \in 1..Len(q)
               PROVE  q[i].id + (Len(q) - i) <= n + 1
    OBVIOUS
  <2>1. q[i].id + (Len(q) - i) <= n /\ q[i].id \in Nat
    BY <1>1 DEF QueueOK
  <2> QED
    BY <1>1, <2>1
<1>3. ASSUME NEW e \in 1..(n + 1)
      PROVE  \/ \E i \in 1..Len(q) : q[i].id = e
             \/ e \in lost \cup {n + 1} \/ (n + 1) - e >= QueueLimit
  <2>1. CASE e \in 1..n
    <3>1. (\E i \in 1..Len(q) : q[i].id = e) \/ e \in lost \/ n - e >= QueueLimit
      BY <2>1 DEF QueueOK
    <3> QED
      BY <1>1, <3>1
  <2> QED
    BY <2>1
<1> QED
  BY <1>1, <1>2, <1>3 DEF QueueOK

LEMMA MoreExcused ==
  ASSUME NEW n, NEW lost, NEW more, lost \subseteq more, NEW q, QueueOK(q, n, lost)
  PROVE  QueueOK(q, n, more)
BY DEF QueueOK

LEMMA EventMarked ==
  ASSUME NEW n, NEW lost, NEW q, QueueOK(q, n, lost), NEW at
  PROVE  QueueOK([i \in DOMAIN q |-> IF i \in at THEN [q[i] EXCEPT !.consumed = TRUE] ELSE q[i]], n, lost)
<1> DEFINE new == [i \in DOMAIN q |-> IF i \in at THEN [q[i] EXCEPT !.consumed = TRUE] ELSE q[i]]
<1>1. q \in Seq(Events) /\ Len(q) \in Nat /\ DOMAIN q = 1..Len(q)
  BY DEF QueueOK
<1>2. \A i \in 1..Len(q) : new[i] \in Events /\ new[i].id = q[i].id
  <2>1. \A x \in Events : [x EXCEPT !.consumed = TRUE] \in Events
                          /\ [x EXCEPT !.consumed = TRUE].id = x.id
    BY DEF Events
  <2> QED
    BY <1>1, <2>1, EventIds
<1>3. new \in Seq(Events) /\ Len(new) = Len(q)
  <2>1. DOMAIN new = 1..Len(q)
    BY <1>1
  <2> QED
    BY <1>1, <1>2, <2>1
<1> QED
  BY <1>1, <1>2, <1>3 DEF QueueOK

LEMMA ListsWritten ==
  ASSUME NEW row, DOMAIN row = Fields, NEW corrections, NEW evidence, NEW compacted
  PROVE  /\ SameButLists([row EXCEPT !.corrections = corrections, !.evidence = evidence], row)
         /\ SameButLists([row EXCEPT !.evidence = evidence], row)
         /\ SameButLists([row EXCEPT !.corrections = corrections, !.evidence = evidence,
                                     !.compacted = compacted], row)
BY DEF SameButLists, Fields

LEMMA EventsMerged ==
  ASSUME NEW row, DOMAIN row = Fields, NEW queue
  PROVE  SameButLists(MergeSessionEvents(row, queue), row)
BY ListsWritten DEF MergeSessionEvents

LEMMA RowCompacted ==
  ASSUME NEW row, DOMAIN row = Fields, NEW new \in Compactions(row)
  PROVE  SameButLists(new, row)
<1>1. SameButLists(Compacted(row), row)
  BY ListsWritten DEF Compacted
<1>2. SameButLists(row, row)
  BY DEF SameButLists
<1> QED
  BY <1>1, <1>2 DEF Compactions

LEMMA UpdatesApplied ==
  ASSUME NEW row, DOMAIN row = Fields, NEW items
  PROVE  SameButLists(ApplyUpdates(row, items), row)
BY ListsWritten DEF ApplyUpdates

\* The handlers that change the pending interrupt change the row and the memory alike.
LEMMA PendingWritten ==
  ASSUME NEW row, DOMAIN row = Fields, NEW pending
  PROVE  LET new == WithPending([row EXCEPT !.interrupt = pending], pending) IN
         /\ DOMAIN new = Fields
         /\ new.interrupt = pending /\ new.copy = pending
         /\ new.queue = row.queue
         /\ new.question => pending # "none"
<1> DEFINE half == [row EXCEPT !.interrupt = pending]
           open == pending = "clarification" \/ (pending # "none" /\ half.question)
<1>1. DOMAIN half = Fields /\ half.interrupt = pending /\ half.queue = row.queue
  BY DEF Fields
<1>2. WithPending(half, pending) = [half EXCEPT !.copy = pending, !.question = open]
  BY DEF WithPending
<1>3. open => pending # "none"
  OBVIOUS
<1> HIDE DEF half, open
<1> DEFINE new == [half EXCEPT !.copy = pending, !.question = open]
<1>4. /\ DOMAIN new = Fields /\ new.interrupt = half.interrupt /\ new.copy = pending
      /\ new.queue = half.queue /\ new.question = open
  BY <1>1 DEF Fields
<1> HIDE DEF new
<1>5. new.question => pending # "none"
  BY <1>3, <1>4, Zenon
<1>6. WithPending(half, pending) = new
  BY <1>2 DEF new
<1> QED
  BY <1>1, <1>4, <1>5, <1>6 DEF half

-----------------------------------------------------------------------------
(* The inductive invariant.                                                *)

Reading(h) == handler[h].at \in {"running", "approving"}

\* The rows that runs have read can be written back at any time: what is queued
\* beside them is excused.
IInv ==
  /\ posted \in Nat /\ memoryDeaths \in Nat /\ runFailures \in Nat
  /\ DOMAIN handler = Handlers
  /\ \A h \in Handlers : DOMAIN handler[h] = {"at", "event", "seen"}
  /\ RowOK(session, posted, overlapped)
  /\ \A h \in Handlers : Reading(h) => RowOK(handler[h].seen, posted, overlapped)
  /\ InterruptCopiesAgree

LEMMA InvImplies == IInv => EventsLostOnlyToOverlap /\ InterruptCopiesAgree
<1> SUFFICES ASSUME IInv, NEW e \in 1..posted
             PROVE  e \in Queued \/ e \in overlapped \/ posted - e >= QueueLimit
  BY DEF IInv, EventsLostOnlyToOverlap
<1>1. /\ session.queue \in Seq(Events)
      /\ (\E i \in 1..Len(session.queue) : session.queue[i].id = e)
         \/ e \in overlapped \/ posted - e >= QueueLimit
  BY DEF IInv, RowOK, QueueOK
<1>2. DOMAIN session.queue = 1..Len(session.queue)
  BY <1>1
<1> QED
  BY <1>1, <1>2 DEF Queued

LEMMA InitEstablishes == SessionMemoryInit => IInv
<1> SUFFICES ASSUME SessionMemoryInit PROVE IInv
  OBVIOUS
<1>1. /\ session = NewSessionRow /\ posted = 0 /\ overlapped = {}
      /\ memoryDeaths = 0 /\ runFailures = 0
      /\ handler = [h \in Handlers |-> NoHandler]
  BY DEF SessionMemoryInit
<1>2. QueueOK(<<>>, 0, {})
  BY DEF QueueOK
<1>3. RowOK(session, posted, overlapped)
  BY <1>1, <1>2 DEF RowOK, NewSessionRow, Fields
<1>4. InterruptCopiesAgree
  BY <1>1 DEF InterruptCopiesAgree, NewSessionRow
<1> QED
  BY <1>1, <1>3, <1>4 DEF IInv, Reading, NoHandler

-----------------------------------------------------------------------------
(* The steps.  A row that is written agrees with its memory on the         *)
(* interrupt, unless a death or a failure explains it.                     *)

Agrees(row, excused) ==
  /\ row.interrupt # "none" => row.copy = row.interrupt
  /\ row.copy # row.interrupt => excused
  /\ row.question => row.copy # "none"

LEMMA AgreesWhatever ==
  ASSUME NEW row, NEW new, NEW excused, Agrees(row, excused), SameButLists(new, row)
  PROVE  Agrees(new, excused)
BY Zenon DEF Agrees, SameButLists

LEMMA QueueWhatever ==
  ASSUME NEW row, NEW new, NEW n, NEW lost, QueueOK(row.queue, n, lost), SameButLists(new, row)
  PROVE  RowOK(new, n, lost)
BY DEF RowOK, SameButLists

Excused == memoryDeaths > 0 \/ runFailures > 0

\* What a step leaves to be shown: the row it writes, and that no run has newly read one.
LEMMA RowWritten ==
  ASSUME IInv,
         RowOK(session', posted, overlapped), Agrees(session', Excused'),
         posted' = posted, overlapped' = overlapped,
         memoryDeaths' \in Nat, runFailures' \in Nat,
         DOMAIN handler' = Handlers,
         \A h \in Handlers : DOMAIN handler'[h] = {"at", "event", "seen"},
         \A h \in Handlers : Reading(h)' =>
           RowOK(handler'[h].seen, posted, overlapped)
  PROVE  IInv'
BY Zenon DEF IInv, InterruptCopiesAgree, Agrees, Excused

\* One handler is replaced; the rows that were read are still good.
LEMMA HandlerWritten ==
  ASSUME IInv, NEW h \in Handlers, NEW x, DOMAIN x = {"at", "event", "seen"},
         handler' = [handler EXCEPT ![h] = x],
         x.at \in {"running", "approving"} => RowOK(x.seen, posted, overlapped)
  PROVE  /\ DOMAIN handler' = Handlers
         /\ \A g \in Handlers : DOMAIN handler'[g] = {"at", "event", "seen"}
         /\ \A g \in Handlers : Reading(g)' => RowOK(handler'[g].seen, posted, overlapped)
BY DEF IInv, Reading

LEMMA AllHandlersDie ==
  ASSUME handler' = [g \in Handlers |-> NoHandler]
  PROVE  /\ DOMAIN handler' = Handlers
         /\ \A g \in Handlers : DOMAIN handler'[g] = {"at", "event", "seen"}
         /\ \A g \in Handlers : Reading(g)' => RowOK(handler'[g].seen, posted, overlapped)
BY DEF NoHandler, Reading

LEMMA SessionFacts ==
  ASSUME IInv
  PROVE  /\ DOMAIN session = Fields
         /\ QueueOK(session.queue, posted, overlapped)
         /\ Agrees(session, Excused)
BY DEF IInv, RowOK, Agrees, InterruptCopiesAgree, Excused

LEMMA ResetWrites ==
  ASSUME NEW row, DOMAIN row = Fields, NEW excused, Agrees(row, excused), NEW reset \in BOOLEAN,
         reset => row.interrupt = "none", NEW queue
  PROVE  LET base == IF reset THEN ResetMemory(row) ELSE row
             new == [base EXCEPT !.queue = queue]
         IN DOMAIN new = Fields /\ new.queue = queue /\ Agrees(new, excused)
<1> DEFINE base == IF reset THEN ResetMemory(row) ELSE row
<1>1. /\ DOMAIN base = Fields
      /\ base.interrupt = row.interrupt
      /\ \/ base.copy = row.copy /\ base.question = row.question
         \/ base.interrupt = "none" /\ base.copy = "none" /\ base.question = FALSE
  BY DEF ResetMemory, Fields
<1>2. Agrees(base, excused)
  BY <1>1 DEF Agrees
<1> HIDE DEF base
<1> DEFINE new == [base EXCEPT !.queue = queue]
<1>3. /\ DOMAIN new = Fields /\ new.queue = queue /\ new.interrupt = base.interrupt
      /\ new.copy = base.copy /\ new.question = base.question
  BY <1>1 DEF Fields
<1> HIDE DEF new
<1>4. Agrees(new, excused)
  BY <1>2, <1>3, Zenon DEF Agrees
<1> QED
  BY <1>3, <1>4 DEF new, base

LEMMA EventQueued ==
  ASSUME IInv, NEW h \in Handlers, Idle(h), NEW row, NEW type \in EventTypes, NEW reset \in BOOLEAN,
         reset => row.interrupt = "none", DOMAIN row = Fields, QueueOK(row.queue, posted, overlapped), Agrees(row, Excused),
         QueueEvent(h, row, type, reset), UNCHANGED <<runFailures, memoryDeaths>>
  PROVE  IInv'
<1> DEFINE x == [NoHandler EXCEPT !.at = "queued", !.event = posted']
           queue == LastEvents(Append(row.queue, [id |-> posted', type |-> type, consumed |-> FALSE]))
           base == IF reset THEN ResetMemory(row) ELSE row
           half == [base EXCEPT !.queue = queue]
           new == MergeSessionEvents(half, queue)
<1>1. /\ posted' = posted + 1 /\ posted \in Nat
      /\ overlapped' = IF Running = {} THEN overlapped ELSE overlapped \cup {posted'}
      /\ session' \in Compactions(new)
      /\ handler' = [handler EXCEPT ![h] = x]
  BY DEF QueueEvent, QueuedEvent, IInv
<1>2. DOMAIN x = {"at", "event", "seen"} /\ x.at = "queued"
  BY DEF NoHandler
<1>3. QueueOK(queue, posted', overlapped')
  BY <1>1, EventAppended, MoreExcused
<1>4. DOMAIN half = Fields /\ half.queue = queue /\ Agrees(half, Excused)
  BY ResetWrites
<1> HIDE DEF queue, half, x
<1>5. SameButLists(new, half)
  BY <1>4, EventsMerged
<1>6. DOMAIN new = Fields /\ new.queue = queue
  BY <1>4, <1>5 DEF SameButLists
<1> HIDE DEF new
<1>7. Agrees(new, Excused)
  BY <1>4, <1>5, AgreesWhatever
<1>8. SameButLists(session', new)
  BY <1>1, <1>6, RowCompacted
<1>9. RowOK(session', posted', overlapped')
  BY <1>3, <1>6, <1>8, QueueWhatever
<1>10. Agrees(session', Excused)
  BY <1>7, <1>8, AgreesWhatever
<1>11. ASSUME NEW g \in Handlers, Reading(g)'
       PROVE  RowOK(handler'[g].seen, posted', overlapped')
  <2>1. g # h /\ handler'[g] = handler[g]
    BY <1>1, <1>2, <1>11 DEF IInv, Reading
  <2>2. Reading(g) /\ RowOK(handler[g].seen, posted, overlapped)
    BY <1>11, <2>1 DEF IInv, Reading
  <2>3. overlapped' = overlapped \cup {posted + 1}
    BY <1>1, <2>2 DEF Running, Reading
  <2> QED
    BY <1>1, <2>1, <2>2, <2>3, EventOverlapped DEF RowOK
<1>12. /\ DOMAIN handler' = Handlers
       /\ \A g \in Handlers : DOMAIN handler'[g] = {"at", "event", "seen"}
  BY <1>1, <1>2 DEF IInv
<1>13. InterruptCopiesAgree' /\ posted' \in Nat /\ memoryDeaths' \in Nat /\ runFailures' \in Nat
  BY <1>1, <1>10 DEF IInv, InterruptCopiesAgree, Agrees, Excused
<1> QED
  BY <1>9, <1>11, <1>12, <1>13 DEF IInv

\* The row once the pending interrupt is superseded or answered.
LEMMA Superseded ==
  ASSUME IInv
  PROVE  LET row == WithPending([session EXCEPT !.interrupt = "none"], "none") IN
         DOMAIN row = Fields /\ QueueOK(row.queue, posted, overlapped) /\ Agrees(row, Excused)
<1>1. DOMAIN session = Fields /\ QueueOK(session.queue, posted, overlapped)
  BY SessionFacts
<1> DEFINE row == WithPending([session EXCEPT !.interrupt = "none"], "none")
<1>2. /\ DOMAIN row = Fields /\ row.interrupt = "none" /\ row.copy = "none"
      /\ row.queue = session.queue /\ ~row.question
  BY <1>1, PendingWritten
<1> HIDE DEF row
<1>3. QueueOK(row.queue, posted, overlapped)
  BY <1>1, <1>2
<1>4. Agrees(row, Excused)
  BY <1>2, Zenon DEF Agrees
<1> QED
  BY <1>2, <1>3, <1>4 DEF row

\* The row is written, compacted or not, and the handlers are replaced as shown.
LEMMA CompactedRowWritten ==
  ASSUME IInv, NEW row, DOMAIN row = Fields, QueueOK(row.queue, posted, overlapped),
         Agrees(row, Excused'), session' \in Compactions(row),
         posted' = posted, overlapped' = overlapped,
         memoryDeaths' \in Nat, runFailures' \in Nat,
         DOMAIN handler' = Handlers,
         \A h \in Handlers : DOMAIN handler'[h] = {"at", "event", "seen"},
         \A h \in Handlers : Reading(h)' =>
           RowOK(handler'[h].seen, posted, overlapped)
  PROVE  IInv'
<1>1. SameButLists(session', row)
  BY RowCompacted
<1>2. RowOK(session', posted, overlapped)
  BY <1>1, QueueWhatever
<1>3. PICK excused : excused = Excused'
  OBVIOUS
<1>4. Agrees(session', Excused')
  BY <1>1, <1>3, AgreesWhatever
<1> QED
  BY <1>2, <1>4, RowWritten

\* A run or an approval reads the row.
LEMMA ReadingKeeps ==
  ASSUME IInv, NEW h \in Handlers, NEW at,
         handler' = [handler EXCEPT ![h].at = at, ![h].seen = session],
         UNCHANGED <<session, posted, overlapped, runFailures, memoryDeaths>>
  PROVE  IInv'
<1>1. RowOK(session, posted, overlapped) /\ InterruptCopiesAgree
  BY DEF IInv
<1>2. DOMAIN handler = Handlers /\ \A g \in Handlers : DOMAIN handler[g] = {"at", "event", "seen"}
  BY DEF IInv
<1> DEFINE x == [[handler[h] EXCEPT !.at = at] EXCEPT !.seen = session]
<1>3. handler' = [handler EXCEPT ![h] = x]
  <2> DEFINE g == [handler EXCEPT ![h].at = at]
  <2>1. g[h] = [handler[h] EXCEPT !.at = at] /\ g = [handler EXCEPT ![h] = [handler[h] EXCEPT !.at = at]]
    BY <1>2
  <2>2. handler' = [g EXCEPT ![h] = [g[h] EXCEPT !.seen = session]]
    OBVIOUS
  <2> HIDE DEF g
  <2>3. handler' = [g EXCEPT ![h] = x]
    BY <2>1, <2>2
  <2> HIDE DEF x
  <2> QED
    BY <1>2, <2>1, <2>3
<1>4. DOMAIN x = {"at", "event", "seen"} /\ x.seen = session
  BY <1>2
<1> HIDE DEF x
<1>5. /\ DOMAIN handler' = Handlers
      /\ \A g \in Handlers : DOMAIN handler'[g] = {"at", "event", "seen"}
      /\ \A g \in Handlers : Reading(g)' => RowOK(handler'[g].seen, posted, overlapped)
  BY <1>1, <1>3, <1>4, HandlerWritten
<1>6. posted' \in Nat /\ memoryDeaths' \in Nat /\ runFailures' \in Nat /\ InterruptCopiesAgree'
  BY <1>1 DEF IInv, InterruptCopiesAgree
<1> QED
  BY <1>1, <1>5, <1>6, Zenon DEF IInv

LEMMA LoadSessionKeeps ==
  ASSUME IInv, NEW h \in Handlers, LoadSession(h)
  PROVE  IInv'
BY ReadingKeeps DEF LoadSession

LEMMA HandlerRests ==
  ASSUME IInv, NEW h \in Handlers, handler' = [handler EXCEPT ![h] = NoHandler]
  PROVE  /\ DOMAIN handler' = Handlers
         /\ \A g \in Handlers : DOMAIN handler'[g] = {"at", "event", "seen"}
         /\ \A g \in Handlers : Reading(g)' => RowOK(handler'[g].seen, posted, overlapped)
<1>1. DOMAIN NoHandler = {"at", "event", "seen"} /\ NoHandler.at = "idle"
  BY DEF NoHandler
<1> QED
  BY <1>1, HandlerWritten

LEMMA EventConsumed ==
  ASSUME NEW row, DOMAIN row = Fields, NEW n, NEW lost, QueueOK(row.queue, n, lost), NEW id,
         NEW new, new = ConsumedEvent(row, id) \/ new = row
  PROVE  /\ DOMAIN new = Fields /\ QueueOK(new.queue, n, lost)
         /\ new.interrupt = row.interrupt /\ new.copy = row.copy /\ new.question = row.question
<1> DEFINE at == {i \in DOMAIN row.queue : row.queue[i].id = id /\ ~row.queue[i].consumed}
           queue == [i \in DOMAIN row.queue |->
                       IF i \in at THEN [row.queue[i] EXCEPT !.consumed = TRUE] ELSE row.queue[i]]
           half == [row EXCEPT !.queue = queue]
<1>1. CASE new = row
  BY <1>1
<1>2. CASE new = MergeSessionEvents(half, queue)
  <2>1. QueueOK(queue, n, lost)
    <3> HIDE DEF at
    <3> QED
      BY EventMarked
  <2> HIDE DEF queue
  <2>2. /\ DOMAIN half = Fields /\ half.queue = queue /\ half.interrupt = row.interrupt
        /\ half.copy = row.copy /\ half.question = row.question
    BY DEF Fields
  <2> HIDE DEF half
  <2>3. SameButLists(new, half)
    BY <1>2, <2>2, EventsMerged
  <2> QED
    BY <2>1, <2>2, <2>3 DEF SameButLists
<1> QED
  BY <1>1, <1>2 DEF ConsumedEvent

LEMMA RunMemoryFacts ==
  ASSUME NEW row, DOMAIN row = Fields, NEW n, NEW lost, QueueOK(row.queue, n, lost),
         NEW items, NEW pending, NEW new, new = RunMemory(row, items, pending)
  PROVE  /\ DOMAIN new = Fields /\ QueueOK(new.queue, n, lost)
         /\ new.interrupt = pending /\ new.copy = pending
         /\ new.question => pending # "none"
<1> DEFINE half == WithPending([row EXCEPT !.interrupt = pending], pending)
<1>1. /\ DOMAIN half = Fields /\ half.interrupt = pending /\ half.copy = pending
      /\ half.queue = row.queue /\ (half.question => pending # "none")
  BY PendingWritten
<1>2. new = ApplyUpdates(half, items)
  BY DEF RunMemory
<1> HIDE DEF half
<1>3. SameButLists(new, half)
  BY <1>1, <1>2, UpdatesApplied
<1> QED
  BY <1>1, <1>3, Zenon DEF SameButLists

LEMMA PostUserMessageKeeps ==
  ASSUME IInv, NEW h \in Handlers, PostUserMessage(h)
  PROVE  IInv'
<1> PICK type \in EventTypes, reset \in BOOLEAN :
      /\ TakeTurn(h)
      /\ LET row == IF session.interrupt = "none" THEN session
                    ELSE WithPending([session EXCEPT !.interrupt = "none"], "none")
         IN QueueEvent(h, row, type, reset)
      /\ UNCHANGED <<runFailures, memoryDeaths>>
  BY Zenon DEF PostUserMessage
<1> PICK row : row = IF session.interrupt = "none" THEN session
                     ELSE WithPending([session EXCEPT !.interrupt = "none"], "none")
  OBVIOUS
<1>1. DOMAIN row = Fields /\ QueueOK(row.queue, posted, overlapped) /\ Agrees(row, Excused)
  BY SessionFacts, Superseded
<1>2. QueueEvent(h, row, type, reset)
  OBVIOUS
<1>3. Idle(h) /\ UNCHANGED <<runFailures, memoryDeaths>>
  BY DEF TakeTurn
<1>4. row.interrupt = "none"
  BY SessionFacts, PendingWritten DEF Fields
<1> QED
  BY <1>1, <1>2, <1>3, <1>4, EventQueued

LEMMA DieSupersedingKeeps ==
  ASSUME IInv, NEW h \in Handlers, DieSuperseding(h)
  PROVE  IInv'
<1> PICK row : row = WithPending([session EXCEPT !.interrupt = "none"], "none")
  OBVIOUS
<1>1. /\ session' \in Compactions(row)
      /\ handler' = [g \in Handlers |-> NoHandler]
      /\ memoryDeaths' = memoryDeaths + 1
      /\ UNCHANGED <<posted, overlapped, runFailures>>
  BY DEF DieSuperseding
<1>2. DOMAIN row = Fields /\ QueueOK(row.queue, posted, overlapped) /\ Agrees(row, Excused)
  BY Superseded
<1>3. memoryDeaths' \in Nat /\ runFailures' \in Nat /\ (Excused => Excused')
  BY <1>1 DEF IInv, Excused
<1>4. Agrees(row, Excused')
  BY <1>2, <1>3, Zenon DEF Agrees
<1> QED
  BY <1>1, <1>2, <1>3, <1>4, AllHandlersDie, CompactedRowWritten

LEMMA ResumeConversationKeeps ==
  ASSUME IInv, NEW h \in Handlers, ResumeConversation(h)
  PROVE  IInv'
<1> PICK row : row = WithPending([session EXCEPT !.interrupt = "none"], "none")
  OBVIOUS
<1>1. DOMAIN row = Fields /\ QueueOK(row.queue, posted, overlapped) /\ Agrees(row, Excused)
  BY Superseded
<1>2. /\ Idle(h) /\ UNCHANGED <<runFailures, memoryDeaths>>
      /\ memoryDeaths' \in Nat /\ runFailures' \in Nat /\ Excused' = Excused
  BY DEF ResumeConversation, TakeTurn, IInv, Excused
<1>3. Agrees(row, Excused')
  BY <1>1, <1>2
<1>4. CASE QueueEvent(h, row, "correction", FALSE)
  <2>1. "correction" \in EventTypes /\ FALSE \in BOOLEAN
    BY DEF EventTypes
  <2> QED
    BY <1>1, <1>2, <1>4, <2>1, EventQueued
<1>5. CASE /\ session' \in Compactions(row)
           /\ handler' = [handler EXCEPT ![h] = [NoHandler EXCEPT !.at = "queued"]]
           /\ UNCHANGED <<posted, overlapped>>
  <2> DEFINE x == [NoHandler EXCEPT !.at = "queued"]
  <2>1. DOMAIN x = {"at", "event", "seen"} /\ x.at = "queued"
    BY DEF NoHandler
  <2> HIDE DEF x
  <2>2. handler' = [handler EXCEPT ![h] = x]
    BY <1>5 DEF x
  <2>3. /\ DOMAIN handler' = Handlers
        /\ \A g \in Handlers : DOMAIN handler'[g] = {"at", "event", "seen"}
        /\ \A g \in Handlers : Reading(g)' => RowOK(handler'[g].seen, posted, overlapped)
    BY <2>1, <2>2, HandlerWritten
  <2> QED
    BY <1>1, <1>2, <1>3, <1>5, <2>3, CompactedRowWritten
<1>6. CASE session' \in Compactions(row) /\ UNCHANGED <<handler, posted, overlapped>>
  <2>1. /\ DOMAIN handler' = Handlers
        /\ \A g \in Handlers : DOMAIN handler'[g] = {"at", "event", "seen"}
        /\ \A g \in Handlers : Reading(g)' => RowOK(handler'[g].seen, posted, overlapped)
    BY <1>6 DEF IInv, Reading
  <2> QED
    BY <1>1, <1>2, <1>3, <1>6, <2>1, CompactedRowWritten
<1>7. CASE /\ handler' = [handler EXCEPT ![h].at = "approving", ![h].seen = session]
           /\ UNCHANGED <<session, posted, overlapped>>
  BY <1>2, <1>7, ReadingKeeps
<1> QED
  BY <1>4, <1>5, <1>6, <1>7 DEF ResumeConversation

\* Each row a run writes agrees with itself on the interrupt, but for the second one,
\* which only a death leaves standing.
LEMMA RunRows ==
  ASSUME NEW h, NEW pending, NEW items, NEW writes \in 1..4, NEW n, NEW lost,
         DOMAIN handler[h].seen = Fields, QueueOK(handler[h].seen.queue, n, lost)
  PROVE  LET row == RowAfter(h, pending, items, writes) IN
         /\ DOMAIN row = Fields /\ QueueOK(row.queue, n, lost)
         /\ Agrees(row, writes < 4)
<1> PICK seen, row1, row2, row3, row4 :
      /\ seen = handler[h].seen
      /\ row1 = RunMemory(seen, items, pending)
      /\ row2 = [ApplyUpdates(row1, items) EXCEPT !.interrupt = "none"]
      /\ row3 = IF pending = "clarification" THEN row1 ELSE ThirdWrite(row2, pending)
      /\ row4 = IF handler[h].event = 0 THEN row3 ELSE ConsumedEvent(row3, handler[h].event)
  BY Zenon
<1> PICK row : row = IF writes = 1 THEN row1 ELSE IF writes = 2 THEN row2
                     ELSE IF writes = 3 THEN row3 ELSE row4
  OBVIOUS
<1>0. RowAfter(h, pending, items, writes) = row
  BY Zenon DEF RowAfter
<1>1. /\ DOMAIN row1 = Fields /\ QueueOK(row1.queue, n, lost)
      /\ row1.interrupt = pending /\ row1.copy = pending
      /\ row1.question => pending # "none"
  BY RunMemoryFacts
<1>2. /\ DOMAIN row2 = Fields /\ QueueOK(row2.queue, n, lost)
      /\ row2.interrupt = "none" /\ row2.copy = pending
      /\ row2.question => pending # "none"
  <2> DEFINE half == ApplyUpdates(row1, items)
  <2>1. SameButLists(half, row1)
    BY <1>1, UpdatesApplied
  <2> HIDE DEF half
  <2>2. row2 = [half EXCEPT !.interrupt = "none"]
    BY DEF half
  <2>3. /\ DOMAIN row2 = Fields /\ row2.interrupt = "none" /\ row2.copy = half.copy
        /\ row2.question = half.question /\ row2.queue = half.queue
    BY <2>1, <2>2 DEF SameButLists, Fields
  <2> QED
    BY <1>1, <2>1, <2>3, Zenon DEF SameButLists
<1>3. /\ DOMAIN row3 = Fields /\ QueueOK(row3.queue, n, lost)
      /\ row3.interrupt = pending /\ row3.copy = pending
      /\ row3.question => pending # "none"
  <2>1. CASE pending = "clarification"
    BY <1>1, <2>1
  <2>2. CASE pending # "clarification"
    <3>1. row3 = [row2 EXCEPT !.interrupt = pending]
      BY <2>2 DEF ThirdWrite
    <3>2. /\ DOMAIN row3 = Fields /\ row3.interrupt = pending /\ row3.copy = row2.copy
          /\ row3.question = row2.question /\ row3.queue = row2.queue
      BY <1>2, <3>1 DEF Fields
    <3> QED
      BY <1>2, <3>2, Zenon
  <2> QED
    BY <2>1, <2>2
<1>4. /\ DOMAIN row4 = Fields /\ QueueOK(row4.queue, n, lost)
      /\ row4.interrupt = pending /\ row4.copy = pending
      /\ row4.question => pending # "none"
  <2>1. /\ DOMAIN row4 = Fields /\ QueueOK(row4.queue, n, lost)
        /\ row4.interrupt = row3.interrupt /\ row4.copy = row3.copy /\ row4.question = row3.question
    BY <1>3, EventConsumed
  <2> QED
    BY <1>3, <2>1, Zenon
<1>5. row = row1 \/ (row = row2 /\ writes < 4) \/ row = row3 \/ row = row4
  OBVIOUS
<1>6. Agrees(row, writes < 4)
  <2>1. ASSUME NEW x, x.interrupt = pending, x.copy = pending, x.question => pending # "none"
        PROVE  Agrees(x, writes < 4)
    BY <2>1, Zenon DEF Agrees
  <2>2. CASE row = row1
    BY <1>1, <2>1, <2>2, Zenon
  <2>3. CASE row = row3
    BY <1>3, <2>1, <2>3, Zenon
  <2>4. CASE row = row4
    BY <1>4, <2>1, <2>4, Zenon
  <2>5. CASE row = row2 /\ writes < 4
    <3>1. row.interrupt = "none" /\ row.copy = pending /\ (row.question => pending # "none")
      BY <1>2, <2>5, Zenon
    <3> QED
      BY <2>5, <3>1, Zenon DEF Agrees
  <2> QED
    BY <1>5, <2>2, <2>3, <2>4, <2>5, Zenon
<1>7. DOMAIN row = Fields /\ QueueOK(row.queue, n, lost)
  BY <1>1, <1>2, <1>3, <1>4, <1>5, Zenon
<1> QED
  BY <1>0, <1>6, <1>7, Zenon

LEMMA FinishRunKeeps ==
  ASSUME IInv, NEW h \in Handlers, FinishRun(h)
  PROVE  IInv'
<1> PICK pending \in Interrupts :
      \E items \in IF pending = "clarification" THEN {<<>>} ELSE RunItems(turns) :
        \E writes \in IF pending = "clarification" THEN {1, 4} ELSE 1..4 :
          /\ handler[h].at = "running"
          /\ memoryDeaths' = IF writes < 4 THEN memoryDeaths + 1 ELSE memoryDeaths
          /\ session' \in Compactions(RowAfter(h, pending, items, writes))
          /\ handler' = IF writes < 4 THEN [g \in Handlers |-> NoHandler]
                        ELSE [handler EXCEPT ![h] = NoHandler]
          /\ UNCHANGED <<turns, posted, overlapped, runFailures>>
  BY Zenon DEF FinishRun
<1> PICK items \in IF pending = "clarification" THEN {<<>>} ELSE RunItems(turns) :
      \E writes \in IF pending = "clarification" THEN {1, 4} ELSE 1..4 :
        /\ handler[h].at = "running"
        /\ memoryDeaths' = IF writes < 4 THEN memoryDeaths + 1 ELSE memoryDeaths
        /\ session' \in Compactions(RowAfter(h, pending, items, writes))
        /\ handler' = IF writes < 4 THEN [g \in Handlers |-> NoHandler]
                      ELSE [handler EXCEPT ![h] = NoHandler]
        /\ UNCHANGED <<turns, posted, overlapped, runFailures>>
  BY Zenon
<1> PICK writes \in IF pending = "clarification" THEN {1, 4} ELSE 1..4 :
      /\ handler[h].at = "running"
      /\ memoryDeaths' = IF writes < 4 THEN memoryDeaths + 1 ELSE memoryDeaths
      /\ session' \in Compactions(RowAfter(h, pending, items, writes))
      /\ handler' = IF writes < 4 THEN [g \in Handlers |-> NoHandler]
                    ELSE [handler EXCEPT ![h] = NoHandler]
      /\ UNCHANGED <<turns, posted, overlapped, runFailures>>
  OBVIOUS
<1>1. writes \in 1..4
  OBVIOUS
<1>2. DOMAIN handler[h].seen = Fields /\ QueueOK(handler[h].seen.queue, posted, overlapped)
  BY DEF IInv, Reading, RowOK
<1> PICK row : row = RowAfter(h, pending, items, writes)
  OBVIOUS
<1>3. /\ DOMAIN row = Fields /\ QueueOK(row.queue, posted, overlapped)
      /\ Agrees(row, writes < 4)
  BY <1>1, <1>2, RunRows
<1>4. memoryDeaths' \in Nat /\ runFailures' \in Nat /\ (writes < 4 => Excused')
  BY DEF IInv, Excused
<1>5. Agrees(row, Excused')
  BY <1>3, <1>4, Zenon DEF Agrees
<1>6. /\ DOMAIN handler' = Handlers
      /\ \A g \in Handlers : DOMAIN handler'[g] = {"at", "event", "seen"}
      /\ \A g \in Handlers : Reading(g)' => RowOK(handler'[g].seen, posted, overlapped)
  <2>1. CASE writes < 4
    BY <2>1, AllHandlersDie
  <2>2. CASE ~(writes < 4)
    BY <2>2, HandlerRests
  <2> QED
    BY <2>1, <2>2
<1> QED
  BY <1>3, <1>4, <1>5, <1>6, CompactedRowWritten

LEMMA FailRunKeeps ==
  ASSUME IInv, NEW h \in Handlers, FailRun(h)
  PROVE  IInv'
<1>1. /\ session' = [session EXCEPT !.interrupt = "none"]
      /\ handler' = [handler EXCEPT ![h] = NoHandler]
      /\ runFailures' = runFailures + 1
      /\ UNCHANGED <<posted, overlapped, memoryDeaths>>
  BY DEF FailRun
<1>2. DOMAIN session = Fields /\ QueueOK(session.queue, posted, overlapped) /\ Agrees(session, Excused)
  BY SessionFacts
<1>3. /\ DOMAIN session' = Fields /\ session'.interrupt = "none" /\ session'.copy = session.copy
      /\ session'.question = session.question /\ session'.queue = session.queue
  BY <1>1, <1>2 DEF Fields
<1>4. memoryDeaths' \in Nat /\ runFailures' \in Nat /\ Excused'
  BY <1>1 DEF IInv, Excused
<1>5. RowOK(session', posted, overlapped)
  BY <1>2, <1>3 DEF RowOK
<1>6. Agrees(session', Excused')
  BY <1>2, <1>3, <1>4, Zenon DEF Agrees
<1> QED
  BY <1>1, <1>4, <1>5, <1>6, HandlerRests, RowWritten

LEMMA FinishApprovalKeeps ==
  ASSUME IInv, NEW h \in Handlers, FinishApproval(h)
  PROVE  IInv'
<1> PICK pending \in {"none", "feedback"} :
      /\ session' \in Compactions(WithPending([handler[h].seen EXCEPT !.interrupt = pending], pending))
      /\ handler' = [handler EXCEPT ![h] = NoHandler]
  BY DEF FinishApproval
<1> PICK seen : seen = handler[h].seen
  OBVIOUS
<1> PICK row : row = WithPending([seen EXCEPT !.interrupt = pending], pending)
  OBVIOUS
<1>1. /\ session' \in Compactions(row)
      /\ UNCHANGED <<posted, overlapped, memoryDeaths, runFailures>>
  BY DEF FinishApproval
<1>2. DOMAIN seen = Fields /\ QueueOK(seen.queue, posted, overlapped)
  BY DEF FinishApproval, IInv, Reading, RowOK
<1>3. /\ DOMAIN row = Fields /\ QueueOK(row.queue, posted, overlapped)
      /\ row.interrupt = pending /\ row.copy = pending /\ (row.question => pending # "none")
  BY <1>2, PendingWritten
<1>4. Agrees(row, Excused')
  BY <1>3, Zenon DEF Agrees
<1>5. memoryDeaths' \in Nat /\ runFailures' \in Nat
  BY <1>1 DEF IInv
<1> QED
  BY <1>1, <1>3, <1>4, <1>5, HandlerRests, CompactedRowWritten

LEMMA NextKeeps ==
  ASSUME IInv, [SessionMemoryNext]_sessionMemoryVars
  PROVE  IInv'
<1>1. ASSUME NEW h \in Handlers,
             \/ PostUserMessage(h) \/ DieSuperseding(h) \/ ResumeConversation(h) \/ LoadSession(h)
             \/ FinishRun(h) \/ FailRun(h) \/ FinishApproval(h)
      PROVE  IInv'
  BY <1>1, PostUserMessageKeeps, DieSupersedingKeeps, ResumeConversationKeeps, LoadSessionKeeps,
     FinishRunKeeps, FailRunKeeps, FinishApprovalKeeps
<1>2. CASE UNCHANGED sessionMemoryVars
  <2>1. UNCHANGED <<session, handler, turns, posted, overlapped, runFailures, memoryDeaths>>
    BY <1>2 DEF sessionMemoryVars
  <2> QED
    BY <2>1, Zenon DEF IInv, RowOK, Reading, InterruptCopiesAgree
<1> QED
  BY <1>1, <1>2 DEF SessionMemoryNext

-----------------------------------------------------------------------------
(* The theorems.                                                           *)

LEMMA InvAlways == SessionMemorySpec => []IInv
BY InitEstablishes, NextKeeps, PTL DEF SessionMemorySpec

\* Whatever requests overlap and wherever the process dies, an event of the user leaves
\* the queue only behind QueueLimit newer ones or under a run that had read the row before.
THEOREM QueueLosesOnlyToOverlap == SessionMemorySpec => []EventsLostOnlyToOverlap
BY InvAlways, InvImplies, PTL

\* The row's pending interrupt, the memory's account of it and the open question agree,
\* but for what a death or a failed run leaves behind.
THEOREM InterruptAccountsAgree == SessionMemorySpec => []InterruptCopiesAgree
BY InvAlways, InvImplies, PTL

-----------------------------------------------------------------------------
(* The lists: items appended one after the other.                          *)

Items == [of : Nat, rank : {DerivedRank, ReportedRank, ObservedRank}]

Item(s, rank) == [of |-> s, rank |-> rank]

LEMMA RanksOfItems ==
  ASSUME NEW x \in Items
  PROVE  /\ x.of \in Nat /\ x.rank \in 1..3
         /\ x = Item(x.of, x.rank)
BY DEF Items, Item, DerivedRank, ReportedRank, ObservedRank

\* f[k] is the list when the first k of new are merged into it.
Merging(f, items, new, m) ==
  /\ f[0] = items
  /\ \A k \in 1..m : f[k] = AppendUniqueItem(f[k - 1], new[k])

\* Merging is what its recursive definition says.
LEMMA MergeSteps ==
  ASSUME NEW items, NEW new, NEW m \in Nat, Len(new) = m
  PROVE  \E f : Merging(f, items, new, m) /\ AppendUniqueItems(items, new) = f[m]
<1> DEFINE Rec(f, n) == f = [k \in 0..n |-> IF k = 0 THEN items
                                             ELSE AppendUniqueItem(f[k - 1], new[k])]
           bad == {n \in Nat : ~\E f : Rec(f, n)}
<1>1. \E f : Rec(f, 0)
  <2> DEFINE f == [k \in 0..0 |-> items]
  <2>1. Rec(f, 0)
    OBVIOUS
  <2> QED
    BY <2>1
<1>2. ASSUME NEW n \in Nat, NEW f, Rec(f, n)
      PROVE  \E g : Rec(g, n + 1)
  <2> DEFINE last == AppendUniqueItem(f[n], new[n + 1])
             g == [k \in 0..(n + 1) |-> IF k \in 0..n THEN f[k] ELSE last]
             h == [k \in 0..(n + 1) |-> IF k = 0 THEN items ELSE AppendUniqueItem(g[k - 1], new[k])]
  <2>1. ASSUME NEW k \in 0..(n + 1) PROVE g[k] = h[k]
    <3>1. CASE k = 0
      <4>1. f[0] = items
        BY <1>2
      <4> QED
        BY <3>1, <4>1
    <3>2. CASE k \in 1..n
      <4>1. f[k] = AppendUniqueItem(f[k - 1], new[k])
        BY <1>2, <3>2
      <4>2. g[k] = f[k] /\ g[k - 1] = f[k - 1]
        BY <3>2
      <4>3. h[k] = AppendUniqueItem(g[k - 1], new[k])
        BY <3>2
      <4> QED
        BY <4>1, <4>2, <4>3
    <3>3. CASE k = n + 1
      <4>1. g[n + 1] = last /\ g[n] = f[n]
        OBVIOUS
      <4>2. k # 0 /\ k - 1 = n
        BY <3>3
      <4> QED
        BY <3>3, <4>1, <4>2
    <3> QED
      BY <3>1, <3>2, <3>3
  <2>2. g = h
    BY <2>1
  <2>3. Rec(g, n + 1)
    BY <2>2
  <2> QED
    BY <2>3
<1>3. \E f : Rec(f, m)
  <2> HIDE DEF Rec
  <2> SUFFICES ASSUME m \in bad PROVE FALSE
    OBVIOUS
  <2>1. PICK n \in bad : \A l \in bad : n <= l
    BY LeastNumber
  <2>2. n \in Nat /\ n # 0
    BY <1>1, <2>1
  <2>3. n - 1 \in Nat /\ n - 1 \notin bad /\ (n - 1) + 1 = n
    BY <2>1, <2>2
  <2>4. \E f : Rec(f, n - 1)
    BY <2>3
  <2> QED
    BY <1>2, <2>1, <2>3, <2>4
<1> DEFINE after == CHOOSE f : Rec(f, m)
<1>4. Rec(after, m)
  BY <1>3
<1>5. AppendUniqueItems(items, new) = after[m]
  BY DEF AppendUniqueItems
<1> HIDE DEF after
<1>6. after[0] = items
  BY <1>4
<1>7. \A k \in 1..m : after[k] = AppendUniqueItem(after[k - 1], new[k])
  <2> SUFFICES ASSUME NEW k \in 1..m PROVE after[k] = AppendUniqueItem(after[k - 1], new[k])
    OBVIOUS
  <2>1. k \in 0..m /\ k # 0
    OBVIOUS
  <2> QED
    BY <1>4, <2>1
<1> QED
  BY <1>5, <1>6, <1>7 DEF Merging

\* The position of the one to give way first.
LowestAt(items, d) ==
  /\ d \in 1..Len(items)
  /\ \A j \in 1..Len(items) : j # d =>
       items[j].rank > items[d].rank \/ (items[j].rank = items[d].rank /\ j > d)

LEMMA SomeGivesWay ==
  ASSUME NEW items \in Seq(Items), Len(items) # 0
  PROVE  \E d : LowestAt(items, d)
<1> DEFINE n == Len(items)
           ranks == {items[i].rank : i \in 1..n}
<1>1. n \in Nat /\ \A i \in 1..n : items[i] \in Items
  OBVIOUS
<1>2. \A i \in 1..n : items[i].rank \in Nat
  BY <1>1, RanksOfItems
<1>3. ranks \in SUBSET Nat /\ items[1].rank \in ranks
  BY <1>1, <1>2
<1>4. PICK r \in ranks : \A t \in ranks : r <= t
  <2> HIDE DEF ranks
  <2> QED
    BY <1>3, LeastNumber
<1> DEFINE at == {i \in 1..n : items[i].rank = r}
<1>5. at \in SUBSET Nat /\ at # {}
  BY <1>1, <1>4
<1>6. PICK d \in at : \A j \in at : d <= j
  <2> HIDE DEF at
  <2> QED
    BY <1>5, LeastNumber
<1>7. d \in 1..n /\ items[d].rank = r
  OBVIOUS
<1>8. \A j \in 1..n : j # d => items[j].rank > r \/ (items[j].rank = r /\ j > d)
  <2> SUFFICES ASSUME NEW j \in 1..n, j # d
               PROVE  items[j].rank > r \/ (items[j].rank = r /\ j > d)
    OBVIOUS
  <2>1. items[j].rank \in ranks /\ items[j].rank \in Nat /\ r \in Nat
    BY <1>2, <1>3
  <2>2. r <= items[j].rank
    BY <1>4, <2>1
  <2>3. items[j].rank = r => d <= j
    BY <1>6
  <2> QED
    BY <1>1, <1>7, <2>1, <2>2, <2>3
<1> QED
  BY <1>7, <1>8 DEF LowestAt

\* Where an element of a list without its element at d stood in the list.
From(d, j) == IF j < d THEN j ELSE j + 1

LEMMA FromBefore ==
  ASSUME NEW n \in Nat, NEW d \in 1..(n + 1)
  PROVE  /\ \A j \in 1..n : From(d, j) \in 1..(n + 1) /\ From(d, j) # d
         /\ \A i, j \in 1..n : i < j => From(d, i) < From(d, j)
         /\ \A i \in 1..(n + 1) : i # d => \E j \in 1..n : From(d, j) = i
<1>1. \A j \in 1..n : From(d, j) \in 1..(n + 1) /\ From(d, j) # d
  BY DEF From
<1>2. \A i, j \in 1..n : i < j => From(d, i) < From(d, j)
  BY DEF From
<1>3. ASSUME NEW i \in 1..(n + 1), i # d
      PROVE  \E j \in 1..n : From(d, j) = i
  <2>1. CASE i < d
    <3>1. i \in 1..n /\ From(d, i) = i
      BY <2>1 DEF From
    <3> QED
      BY <3>1
  <2>2. CASE i > d
    <3>1. i - 1 \in 1..n /\ From(d, i - 1) = i
      BY <2>2 DEF From
    <3> QED
      BY <3>1
  <2> QED
    BY <1>3, <2>1, <2>2
<1> QED
  BY <1>1, <1>2, <1>3

\* new is the list without its element at d.
Without(items, d, new) ==
  /\ Len(new) + 1 = Len(items)
  /\ \A j \in 1..Len(new) : new[j] = items[From(d, j)]

LEMMA OneLess ==
  ASSUME NEW S, IsFiniteSet(S), NEW c \in Nat, Cardinality(S) = c + 1, NEW x \in S
  PROVE  IsFiniteSet(S \ {x}) /\ Cardinality(S \ {x}) = c
<1>1. Cardinality(S \ {x}) = (c + 1) - 1 /\ IsFiniteSet(S \ {x})
  BY FS_RemoveElement
<1> QED
  BY <1>1

LEMMA OthersCounted ==
  ASSUME NEW n \in Nat, NEW d \in 1..(n + 1), NEW I, I = (1..(n + 1)) \ {d}, NEW j \in 1..n
  PROVE  Cardinality(I) = n /\ Counted(I, From(d, j)) = j
<1>1. IsFiniteSet(1..(n + 1)) /\ Cardinality(1..(n + 1)) = n + 1
  BY FS_Interval
<1>2. Cardinality(I) = n
  <2>1. Cardinality((1..(n + 1)) \ {d}) = n
    BY <1>1, OneLess
  <2> QED
    BY <2>1
<1>3. CASE j < d
  <2>1. {l \in I : l <= From(d, j)} = 1..j
    BY <1>3 DEF From
  <2>2. Cardinality(1..j) = j
    BY FS_Interval
  <2> QED
    BY <1>2, <2>1, <2>2 DEF Counted
<1>4. CASE ~(j < d)
  <2>1. {l \in I : l <= From(d, j)} = (1..(j + 1)) \ {d}
    BY <1>4 DEF From
  <2>2. IsFiniteSet(1..(j + 1)) /\ Cardinality(1..(j + 1)) = j + 1
    BY FS_Interval
  <2>3. d \in 1..(j + 1) /\ j \in Nat
    BY <1>4
  <2>4. Cardinality((1..(j + 1)) \ {d}) = j
    BY <2>2, <2>3, OneLess
  <2> QED
    BY <1>2, <2>1, <2>4 DEF Counted
<1> QED
  BY <1>3, <1>4

\* A list that is one too long loses the lowest.
LEMMA LowestGivesWay ==
  ASSUME NEW items \in Seq(Items), NEW n \in Nat \ {0}, Len(items) = n + 1, NEW d, LowestAt(items, d)
  PROVE  /\ SelectMemoryItems(items, n) \in Seq(Items)
         /\ Len(SelectMemoryItems(items, n)) = n
         /\ Without(items, d, SelectMemoryItems(items, n))
<1> DEFINE outranks(i, j) == items[i].rank > items[j].rank \/ (items[i].rank = items[j].rank /\ i > j)
           O(i) == {j \in 1..(n + 1) : outranks(j, i)}
           D == 1..(n + 1)
           kept == {i \in D : Cardinality(O(i)) < n}
<1>1. DOMAIN items = 1..(n + 1) /\ d \in D /\ \A i \in D : items[i].rank \in Nat
  <2>1. \A i \in D : items[i] \in Items
    OBVIOUS
  <2> QED
    BY <2>1, RanksOfItems DEF LowestAt
<1>2. IsFiniteSet(D) /\ Cardinality(D) = n + 1
  BY FS_Interval
<1>3. O(d) = D \ {d}
  <2>1. \A j \in D : j # d => outranks(j, d)
    BY DEF LowestAt
  <2>2. ~outranks(d, d)
    BY <1>1
  <2> QED
    BY <2>1, <2>2
<1>4. \A i \in D : i # d => O(i) \subseteq (D \ {d}) \ {i}
  <2> SUFFICES ASSUME NEW i \in D, i # d PROVE ~outranks(d, i) /\ ~outranks(i, i)
    OBVIOUS
  <2>1. outranks(i, d)
    BY DEF LowestAt
  <2> QED
    BY <1>1, <2>1
<1>5. SelectMemoryItems(items, n) = Selected(items, {i \in DOMAIN items : Cardinality({j \in DOMAIN items : outranks(j, i)}) < n})
  BY DEF SelectMemoryItems
<1>6. SelectMemoryItems(items, n) = Selected(items, kept)
  BY <1>1, <1>5
<1> HIDE DEF O
<1>7. kept = D \ {d}
  <2>1. Cardinality(D \ {d}) = n /\ IsFiniteSet(D \ {d})
    BY <1>1, <1>2, OneLess
  <2>2. Cardinality(O(d)) = n
    BY <1>3, <2>1
  <2>3. ASSUME NEW i \in D, i # d PROVE Cardinality(O(i)) < n
    <3>1. IsFiniteSet((D \ {d}) \ {i}) /\ Cardinality((D \ {d}) \ {i}) = n - 1
      <4>1. PICK F, m : F = D \ {d} /\ m = n - 1
        OBVIOUS
      <4>2. i \in F /\ m \in Nat /\ IsFiniteSet(F) /\ Cardinality(F) = m + 1
        BY <2>1, <2>3, <4>1
      <4> HIDE DEF D
      <4>3. IsFiniteSet(F \ {i}) /\ Cardinality(F \ {i}) = m
        BY <4>2, OneLess
      <4> QED
        BY <4>1, <4>3
    <3>2. Cardinality(O(i)) <= n - 1 /\ Cardinality(O(i)) \in Nat
      BY <1>4, <2>3, <3>1, FS_Subset, FS_CardinalityType
    <3> QED
      BY <3>2
  <2> QED
    BY <2>2, <2>3
<1> HIDE DEF kept
<1>8. Cardinality(kept) = n /\ \A j \in 1..n : Counted(kept, From(d, j)) = j
  <2>1. kept = (1..(n + 1)) \ {d} /\ d \in 1..(n + 1) /\ n \in 1..n /\ n \in Nat
    BY <1>1, <1>7
  <2> HIDE DEF D
  <2>2. ASSUME NEW j \in 1..n PROVE Cardinality(kept) = n /\ Counted(kept, From(d, j)) = j
    BY <2>1, OthersCounted
  <2> QED
    BY <2>1, <2>2
<1>9. n + 1 \in Nat /\ kept \in SUBSET (1..(n + 1)) /\ kept \in SUBSET DOMAIN items
  BY <1>1, <1>7
<1> DEFINE new == Selected(items, kept)
<1>10. new \in Seq(Items) /\ Len(new) = n
  BY <1>8, <1>9, SelectedIsSeq, SelectedElements
<1>11. ASSUME NEW j \in 1..n PROVE new[j] = items[From(d, j)]
  <2>1. From(d, j) \in kept
    BY <1>1, <1>7, FromBefore
  <2>2. Selected(items, kept)[Counted(kept, From(d, j))] = items[From(d, j)]
    <3> HIDE DEF D, outranks
    <3> PICK N, i : N = n + 1 /\ i = From(d, j)
      OBVIOUS
    <3>1. N \in Nat /\ kept \in SUBSET (1..N) /\ i \in kept
      BY <1>9, <2>1
    <3>2. Selected(items, kept)[Counted(kept, i)] = items[i]
      BY <3>1, SelectedAt
    <3> QED
      BY <3>2
  <2> QED
    BY <1>8, <2>2
<1> HIDE DEF new
<1>12. Without(items, d, new)
  BY <1>10, <1>11 DEF Without
<1> QED
  BY <1>6, <1>10, <1>12 DEF new

Extended(items, item, new) ==
  /\ new \in Seq(Items) /\ Len(new) = Len(items) + 1
  /\ new[Len(new)] = item /\ \A i \in 1..Len(items) : new[i] = items[i]

LEMMA ItemExtends ==
  ASSUME NEW items \in Seq(Items), NEW item \in Items
  PROVE  Extended(items, item, Append(items, item))
<1> DEFINE new == Append(items, item)
           n == Len(items)
<1>1. n \in Nat /\ new \in Seq(Items) /\ Len(new) = n + 1
  OBVIOUS
<1>2. new[n + 1] = item /\ \A i \in 1..n : new[i] = items[i]
  BY <1>1
<1> QED
  BY <1>1, <1>2 DEF Extended

\* The lowest of the extended list gives way.
GivesWay(items, item, new) ==
  \E long, d : Extended(items, item, long) /\ LowestAt(long, d) /\ Without(long, d, new)

\* An item is there, or it is appended, or it is appended and the lowest gives way.
LEMMA ItemAppended ==
  ASSUME NEW items \in Seq(Items), Len(items) <= MaxItems, NEW item \in Items,
         NEW new, new = AppendUniqueItem(items, item)
  PROVE  /\ new \in Seq(Items) /\ Len(new) <= MaxItems
         /\ \/ Among(item, items) /\ new = items
            \/ ~Among(item, items) /\ Len(items) < MaxItems /\ Extended(items, item, new)
            \/ /\ ~Among(item, items) /\ Len(items) = MaxItems /\ Len(new) = MaxItems
               /\ GivesWay(items, item, new)
<1>0. MaxItems \in Nat \ {0} /\ Len(items) \in Nat
  BY SessionMemoryAssumptions
<1>1. CASE Among(item, items)
  BY <1>1 DEF AppendUniqueItem
<1> PICK long : long = Append(items, item)
  OBVIOUS
<1>2. long \in Seq(Items) /\ Len(long) = Len(items) + 1 /\ Extended(items, item, long)
  BY ItemExtends
<1>3. ~Among(item, items) => new = SelectMemoryItems(long, MaxItems)
  BY DEF AppendUniqueItem
<1>4. CASE ~Among(item, items) /\ Len(items) < MaxItems
  <2>1. Len(long) <= MaxItems
    BY <1>0, <1>2, <1>4
  <2>2. new = long
    BY <1>3, <1>4, <2>1 DEF SelectMemoryItems
  <2> QED
    BY <1>2, <1>4, <2>1, <2>2
<1>5. CASE ~Among(item, items) /\ Len(items) = MaxItems
  <2>1. Len(long) = MaxItems + 1 /\ Len(long) # 0
    BY <1>0, <1>2, <1>5
  <2>2. PICK d : LowestAt(long, d)
    BY <1>2, <2>1, SomeGivesWay
  <2>3. LET left == SelectMemoryItems(long, MaxItems) IN
        left \in Seq(Items) /\ Len(left) = MaxItems /\ Without(long, d, left)
    BY <1>0, <1>2, <2>1, <2>2, LowestGivesWay
  <2>4. new = SelectMemoryItems(long, MaxItems)
    BY <1>3, <1>5
  <2>5. new \in Seq(Items) /\ Len(new) = MaxItems /\ Without(long, d, new)
    BY <2>3, <2>4
  <2> QED
    BY <1>0, <1>2, <1>5, <2>2, <2>5 DEF GivesWay
<1> QED
  BY <1>0, <1>1, <1>4, <1>5

-----------------------------------------------------------------------------
(* What holds of a list that events of rank R are merged into.             *)

OnceEach(items) == \A i, j \in 1..Len(items) : items[i] = items[j] => i = j

InOrder(items, R) ==
  \A i, j \in 1..Len(items) :
    i < j /\ items[i].rank = R /\ items[j].rank = R => items[i].of < items[j].of

OfBelow(items, R, b) == \A i \in 1..Len(items) : items[i].rank = R => items[i].of < b

Below(S, b) == \A s \in S : s \in Nat /\ s < b

\* The list skips no event of S but the oldest.
SkipsNone(items, R, S) ==
  \A i \in 1..Len(items) : \A s \in S :
    items[i].rank = R /\ items[i].of > s => items[i].of \in S

Better(item, s, R) == item.rank > R \/ (item.rank = R /\ item.of > s)

\* What is missing had to give way to better items.
GaveWay(items, R, S) ==
  \A s \in S : ~Among(Item(s, R), items) =>
    Len(items) = MaxItems /\ \A i \in 1..Len(items) : Better(items[i], s, R)

KeptList(items, R, S, b) ==
  /\ items \in Seq(Items) /\ Len(items) <= MaxItems
  /\ OnceEach(items) /\ InOrder(items, R) /\ OfBelow(items, R, b)
  /\ Below(S, b) /\ SkipsNone(items, R, S) /\ GaveWay(items, R, S)

LEMMA AmongPlaces ==
  ASSUME NEW items \in Seq(Items), NEW item
  PROVE  Among(item, items) <=> \E i \in 1..Len(items) : items[i] = item
BY DEF Among

\* An item that is appended is of another rank, or of the event that comes next.
Follows(R, S, b, item, S1, b1) ==
  \/ item.rank # R /\ S1 = S /\ b1 = b
  \/ item.rank = R /\ S1 = S \cup {item.of} /\ b <= item.of /\ b1 = item.of + 1

\* The extended list has all that a list should have but its length.
LEMMA ExtendedKeeps ==
  ASSUME NEW items, NEW R \in 1..3, NEW S, NEW b \in Nat, KeptList(items, R, S, b),
         NEW item \in Items, NEW S1, NEW b1, Follows(R, S, b, item, S1, b1),
         ~Among(item, items), NEW long, Extended(items, item, long)
  PROVE  /\ OnceEach(long) /\ InOrder(long, R) /\ OfBelow(long, R, b1)
         /\ Below(S1, b1) /\ b1 \in Nat /\ SkipsNone(long, R, S1)
         /\ \A s \in S1 : ~Among(Item(s, R), long) =>
              s \in S /\ ~Among(Item(s, R), items)
<1> PICK n : n = Len(items)
  OBVIOUS
<1>1. /\ n \in Nat /\ Len(long) = n + 1 /\ long[n + 1] = item
      /\ \A i \in 1..n : long[i] = items[i]
      /\ items \in Seq(Items) /\ long \in Seq(Items)
  BY DEF Extended, KeptList
<1>2. /\ \A i \in 1..n : items[i].of \in Nat /\ items[i].rank \in 1..3 /\ items[i] # item
      /\ item.of \in Nat /\ item.rank \in 1..3
  <2>1. \A i \in 1..n : items[i] \in Items
    BY <1>1
  <2> QED
    BY <1>1, <2>1, RanksOfItems, AmongPlaces
<1>3. \A i \in 1..(n + 1) : i \in 1..n \/ i = n + 1
  BY <1>1
<1>4. item.rank = R => \A i \in 1..n : items[i].rank = R => items[i].of < item.of
  <2> SUFFICES ASSUME item.rank = R, NEW i \in 1..n, items[i].rank = R PROVE items[i].of < item.of
    OBVIOUS
  <2>1. items[i].of < b /\ b <= item.of
    BY DEF KeptList, OfBelow, Follows
  <2> QED
    BY <1>2, <2>1
<1>5. OnceEach(long)
  <2>1. \A i, j \in 1..n : items[i] = items[j] => i = j
    BY DEF KeptList, OnceEach
  <2> SUFFICES ASSUME NEW i \in 1..(n + 1), NEW j \in 1..(n + 1), long[i] = long[j] PROVE i = j
    BY <1>1 DEF OnceEach
  <2> QED
    BY <1>1, <1>2, <1>3, <2>1
<1>6. InOrder(long, R)
  <2>1. \A i, j \in 1..n : i < j /\ items[i].rank = R /\ items[j].rank = R => items[i].of < items[j].of
    BY DEF KeptList, InOrder
  <2> SUFFICES ASSUME NEW i \in 1..(n + 1), NEW j \in 1..(n + 1), i < j,
                      long[i].rank = R, long[j].rank = R
               PROVE  long[i].of < long[j].of
    BY <1>1 DEF InOrder
  <2>2. i \in 1..n
    BY <1>1
  <2> QED
    BY <1>1, <1>3, <1>4, <2>1, <2>2
<1>7. b1 \in Nat /\ b <= b1
  BY <1>2 DEF Follows
<1>8. OfBelow(long, R, b1)
  <2> SUFFICES ASSUME NEW i \in 1..(n + 1), long[i].rank = R PROVE long[i].of < b1
    BY <1>1 DEF OfBelow
  <2>1. CASE i \in 1..n
    <3>1. items[i].of < b
      BY <1>1, <2>1 DEF KeptList, OfBelow
    <3> QED
      BY <1>1, <1>2, <1>7, <2>1, <3>1
  <2>2. CASE i = n + 1
    BY <1>1, <1>2, <2>2 DEF Follows
  <2> QED
    BY <1>3, <2>1, <2>2
<1>9. \A s \in S : s \in Nat /\ s < b
  BY DEF KeptList, Below
<1>10. Below(S1, b1)
  BY <1>2, <1>7, <1>9 DEF Below, Follows
<1>11. SkipsNone(long, R, S1)
  <2> SUFFICES ASSUME NEW i \in 1..(n + 1), NEW s \in S1, long[i].rank = R, long[i].of > s
               PROVE  long[i].of \in S1
    BY <1>1 DEF SkipsNone
  <2>1. CASE i = n + 1
    BY <1>1, <2>1 DEF Follows
  <2>2. CASE i \in 1..n
    <3>1. long[i] = items[i] /\ items[i].of < b /\ items[i].of \in Nat
      BY <1>1, <1>2, <2>2 DEF KeptList, OfBelow
    <3>2. s \in S
      BY <1>2, <3>1 DEF Follows
    <3>3. items[i].of \in S
      BY <1>1, <2>2, <3>1, <3>2 DEF KeptList, SkipsNone
    <3> QED
      BY <3>1, <3>3 DEF Follows
  <2> QED
    BY <1>3, <2>1, <2>2
<1>12. ASSUME NEW s \in S1, ~Among(Item(s, R), long)
       PROVE  s \in S /\ ~Among(Item(s, R), items)
  <2>1. \A i \in 1..(n + 1) : long[i] # Item(s, R)
    BY <1>1, <1>12, AmongPlaces
  <2>2. ~Among(Item(s, R), items)
    BY <1>1, <2>1, AmongPlaces
  <2>3. s \in S
    <3> SUFFICES ASSUME s \notin S PROVE FALSE
      OBVIOUS
    <3>1. item.rank = R /\ s = item.of
      BY DEF Follows
    <3>2. item = Item(s, R)
      BY <3>1, RanksOfItems
    <3> QED
      BY <1>1, <2>1, <3>2
  <2> QED
    BY <2>2, <2>3
<1> QED
  BY <1>5, <1>6, <1>7, <1>8, <1>10, <1>11, <1>12

\* What a list without one of its elements holds, and in which order.
LEMMA WithoutPlaces ==
  ASSUME NEW long \in Seq(Items), NEW d \in 1..Len(long), NEW new \in Seq(Items), Without(long, d, new)
  PROVE  /\ \A j \in 1..Len(new) : /\ From(d, j) \in 1..Len(long) /\ From(d, j) # d
                                   /\ new[j] = long[From(d, j)]
         /\ \A i, j \in 1..Len(new) : i < j => From(d, i) < From(d, j)
         /\ \A i \in 1..Len(long) : i # d => \E j \in 1..Len(new) : new[j] = long[i]
<1> PICK n : n = Len(new)
  OBVIOUS
<1>1. n \in Nat /\ Len(long) = n + 1 /\ \A j \in 1..n : new[j] = long[From(d, j)]
  BY DEF Without
<1>2. /\ \A j \in 1..n : From(d, j) \in 1..(n + 1) /\ From(d, j) # d
      /\ \A i, j \in 1..n : i < j => From(d, i) < From(d, j)
      /\ \A i \in 1..(n + 1) : i # d => \E j \in 1..n : From(d, j) = i
  <2>1. d \in 1..(n + 1)
    BY <1>1
  <2> QED
    BY <1>1, <2>1, FromBefore
<1> QED
  BY <1>1, <1>2

\* Items appended one by one leave the list as it should be.
LEMMA AppendKeeps ==
  ASSUME NEW items, NEW R \in 1..3, NEW S, NEW b \in Nat, KeptList(items, R, S, b),
         NEW item \in Items, NEW S1, NEW b1, Follows(R, S, b, item, S1, b1),
         ~Among(item, items), NEW new, new = AppendUniqueItem(items, item)
  PROVE  KeptList(new, R, S1, b1)
<1>0. items \in Seq(Items) /\ Len(items) \in Nat /\ Len(items) <= MaxItems
  BY DEF KeptList
<1>1. /\ new \in Seq(Items) /\ Len(new) <= MaxItems
      /\ \/ Len(items) < MaxItems /\ Extended(items, item, new)
         \/ Len(items) = MaxItems /\ Len(new) = MaxItems /\ GivesWay(items, item, new)
  BY <1>0, ItemAppended
<1>2. MaxItems \in Nat
  BY SessionMemoryAssumptions
<1>3. \A s \in S : ~Among(Item(s, R), items) =>
        Len(items) = MaxItems /\ \A i \in 1..Len(items) : Better(items[i], s, R)
  BY DEF KeptList, GaveWay
<1>4. CASE Len(items) < MaxItems /\ Extended(items, item, new)
  <2>1. /\ OnceEach(new) /\ InOrder(new, R) /\ OfBelow(new, R, b1)
        /\ Below(S1, b1) /\ SkipsNone(new, R, S1)
        /\ \A s \in S1 : ~Among(Item(s, R), new) => s \in S /\ ~Among(Item(s, R), items)
    <3> PICK long : long = new
      OBVIOUS
    <3>1. Extended(items, item, long)
      BY <1>4
    <3>2. /\ OnceEach(long) /\ InOrder(long, R) /\ OfBelow(long, R, b1)
          /\ Below(S1, b1) /\ SkipsNone(long, R, S1)
          /\ \A s \in S1 : ~Among(Item(s, R), long) => s \in S /\ ~Among(Item(s, R), items)
      BY <3>1, ExtendedKeeps
    <3> QED
      BY <3>2
  <2>2. GaveWay(new, R, S1)
    BY <1>0, <1>2, <1>3, <1>4, <2>1 DEF GaveWay
  <2> QED
    BY <1>1, <2>1, <2>2 DEF KeptList
<1>5. CASE Len(items) = MaxItems /\ Len(new) = MaxItems /\ GivesWay(items, item, new)
  <2>1. PICK long, d : Extended(items, item, long) /\ LowestAt(long, d) /\ Without(long, d, new)
    BY <1>5 DEF GivesWay
  <2>2. /\ OnceEach(long) /\ InOrder(long, R) /\ OfBelow(long, R, b1)
        /\ Below(S1, b1) /\ SkipsNone(long, R, S1)
        /\ \A s \in S1 : ~Among(Item(s, R), long) => s \in S /\ ~Among(Item(s, R), items)
    BY <2>1, ExtendedKeeps
  <2>3. long \in Seq(Items) /\ d \in 1..Len(long)
    BY <2>1 DEF Extended, LowestAt
  <2> DEFINE F(j) == From(d, j)
  <2>4. /\ \A j \in 1..Len(new) : F(j) \in 1..Len(long) /\ F(j) # d /\ new[j] = long[F(j)]
        /\ \A i, j \in 1..Len(new) : i < j => F(i) < F(j)
        /\ \A i \in 1..Len(long) : i # d => \E j \in 1..Len(new) : new[j] = long[i]
    BY <1>1, <2>1, <2>3, WithoutPlaces
  <2> HIDE DEF F
  <2>5. Len(new) \in Nat /\ Len(long) \in Nat /\ Len(long) = Len(items) + 1
    BY <1>1, <2>1, <2>3 DEF Extended
  <2>6. OnceEach(new)
    <3> SUFFICES ASSUME NEW i \in 1..Len(new), NEW j \in 1..Len(new), new[i] = new[j] PROVE i = j
      BY DEF OnceEach
    <3>1. F(i) = F(j)
      BY <2>2, <2>4 DEF OnceEach
    <3>2. F(i) \in Nat
      BY <2>4, <2>5
    <3> QED
      BY <2>4, <2>5, <3>1, <3>2
  <2>7. InOrder(new, R)
    <3> SUFFICES ASSUME NEW i \in 1..Len(new), NEW j \in 1..Len(new), i < j,
                        new[i].rank = R, new[j].rank = R
                 PROVE  new[i].of < new[j].of
      BY DEF InOrder
    <3>1. F(i) \in 1..Len(long) /\ F(j) \in 1..Len(long) /\ F(i) < F(j)
          /\ new[i] = long[F(i)] /\ new[j] = long[F(j)]
      BY <2>4
    <3>2. long[F(i)].of < long[F(j)].of
      BY <2>2, <3>1 DEF InOrder
    <3> QED
      BY <3>1, <3>2
  <2>8. OfBelow(new, R, b1)
    BY <2>2, <2>4 DEF OfBelow
  <2>9. SkipsNone(new, R, S1)
    BY <2>2, <2>4 DEF SkipsNone
  <2>10. ASSUME NEW s \in S1, ~Among(Item(s, R), new), NEW j \in 1..Len(new)
         PROVE  Better(new[j], s, R)
    <3>1. s \in Nat /\ \A i \in 1..Len(long) : i # d => long[i] # Item(s, R)
      BY <1>1, <2>2, <2>4, <2>10, AmongPlaces DEF Below
    <3>2. \A i \in 1..Len(long) : long[i] \in Items /\ long[i].of \in Nat /\ long[i].rank \in 1..3
      <4>1. \A i \in 1..Len(long) : long[i] \in Items
        BY <2>3
      <4> QED
        BY <4>1, RanksOfItems
    <3> PICK f : f = F(j)
      OBVIOUS
    <3>3. f \in 1..Len(long) /\ f # d /\ new[j] = long[f] /\ f \in Nat /\ d \in Nat
      BY <2>3, <2>4, <2>5
    <3>4. long[f].rank > long[d].rank \/ (long[f].rank = long[d].rank /\ f > d)
      BY <2>1, <3>3 DEF LowestAt
    <3>5. CASE long[d] = Item(s, R)
      <4>1. long[d].rank = R /\ long[d].of = s
        BY <3>5 DEF Item
      <4>2. long[f].rank = R => long[f].of > s
        <5> SUFFICES ASSUME long[f].rank = R PROVE long[d].of < long[f].of
          BY <3>1, <3>2, <3>3, <4>1
        <5>1. d < f
          BY <3>3, <3>4, <4>1
        <5> QED
          BY <2>2, <2>3, <3>3, <4>1, <5>1 DEF InOrder
      <4> QED
        BY <3>3, <3>4, <4>1, <4>2 DEF Better
    <3>6. CASE long[d] # Item(s, R)
      <4>1. ~Among(Item(s, R), long)
        BY <2>3, <3>1, <3>6, AmongPlaces
      <4>2. s \in S /\ ~Among(Item(s, R), items)
        BY <2>2, <4>1
      <4>3. \A i \in 1..Len(items) : Better(items[i], s, R)
        BY <1>3, <4>2
      <4>4. s < b
        BY <4>2 DEF KeptList, Below
      <4>5. /\ long[Len(long)] = item /\ \A i \in 1..Len(items) : long[i] = items[i]
        BY <2>1 DEF Extended
      <4>6. CASE f \in 1..Len(items)
        BY <3>3, <4>3, <4>5, <4>6
      <4>7. CASE f = Len(long)
        <5>1. long[f] = item /\ d \in 1..Len(items)
          BY <1>0, <2>3, <2>5, <3>3, <4>5, <4>7
        <5>2. Better(long[d], s, R)
          BY <4>3, <4>5, <5>1
        <5>3. item.rank = R => b <= item.of
          BY DEF Follows
        <5>4. long[d].rank >= R
          BY <3>2, <3>3, <5>1, <5>2, <2>3 DEF Better
        <5>5. item.rank >= R
          BY <2>3, <3>2, <3>3, <3>4, <5>1, <5>4
        <5> QED
          BY <2>3, <3>1, <3>2, <3>3, <4>4, <5>1, <5>3, <5>5 DEF Better
      <4> QED
        BY <1>0, <2>5, <3>3, <4>6, <4>7
    <3> QED
      BY <3>3, <3>5, <3>6
  <2>11. GaveWay(new, R, S1)
    BY <1>5, <2>10 DEF GaveWay
  <2> QED
    BY <1>1, <2>2, <2>6, <2>7, <2>8, <2>9, <2>11 DEF KeptList
<1> QED
  BY <1>1, <1>4, <1>5

LEMMA AppendFollowing ==
  ASSUME NEW items, NEW R \in 1..3, NEW S, NEW b \in Nat, KeptList(items, R, S, b),
         NEW item \in Items, NEW S1, NEW b1, Follows(R, S, b, item, S1, b1)
  PROVE  KeptList(AppendUniqueItem(items, item), R, S1, b1) /\ b1 \in Nat
<1>1. items \in Seq(Items) /\ item.of \in Nat
  BY RanksOfItems DEF KeptList
<1>2. CASE ~Among(item, items)
  <2> PICK new : new = AppendUniqueItem(items, item)
    OBVIOUS
  <2>1. KeptList(new, R, S1, b1)
    BY <1>2, AppendKeeps
  <2>2. b1 \in Nat
    BY <1>1 DEF Follows
  <2> QED
    BY <2>1, <2>2
<1>3. CASE Among(item, items)
  <2>1. PICK i \in 1..Len(items) : items[i] = item
    BY <1>1, <1>3, AmongPlaces
  <2>2. item.rank # R
    <3> SUFFICES ASSUME item.rank = R PROVE FALSE
      OBVIOUS
    <3>1. item.of < b /\ b <= item.of
      BY <2>1 DEF KeptList, OfBelow, Follows
    <3> QED
      BY <1>1, <3>1
  <2>3. AppendUniqueItem(items, item) = items
    BY <1>3 DEF AppendUniqueItem
  <2> QED
    BY <2>2, <2>3 DEF Follows
<1> QED
  BY <1>2, <1>3

-----------------------------------------------------------------------------
(* A list that is full of better items goes round: the oldest item of its  *)
(* rank gives way to each that comes back.                                 *)

FullAbove(items, R) ==
  /\ items \in Seq(Items) /\ Len(items) = MaxItems /\ OnceEach(items)
  /\ \A i \in 1..Len(items) : items[i].rank >= R

OneToOne(T, c) == \A i, j \in 1..c : T[i] = T[j] => i = j

\* The items of rank R are of T[1] to T[c], in this order.
Tracks(items, R, T, c) ==
  /\ \A i \in 1..c : \E a \in 1..Len(items) : items[a] = Item(T[i], R)
  /\ \A a \in 1..Len(items) : items[a].rank = R => \E i \in 1..c : items[a] = Item(T[i], R)
  /\ \A a, e \in 1..Len(items) : \A i, j \in 1..c :
       a < e /\ items[a] = Item(T[i], R) /\ items[e] = Item(T[j], R) => i < j

\* The first one gone and a new one put behind.
Turned(T, c, s, U) == \A i \in 1..c : U[i] = IF i < c THEN T[i + 1] ELSE s

LEMMA ItemsDiffer ==
  ASSUME NEW s, NEW t, NEW R
  PROVE  /\ Item(s, R).of = s /\ Item(s, R).rank = R
         /\ Item(s, R) = Item(t, R) <=> s = t
<1>1. Item(s, R).of = s /\ Item(s, R).rank = R /\ Item(t, R).of = t
  BY DEF Item
<1> QED
  BY <1>1

\* Which item it is that gives way to one more of rank R.
LEMMA OldestGivesWay ==
  ASSUME NEW R \in 1..3, NEW items, FullAbove(items, R), NEW c \in Nat, NEW T, Tracks(items, R, T, c),
         OneToOne(T, c), NEW s \in Nat, NEW long, Extended(items, Item(s, R), long), NEW d, LowestAt(long, d)
  PROVE  /\ c = 0 => d = Len(long)
         /\ c # 0 => d \in 1..Len(items) /\ long[d] = Item(T[1], R)
<1> PICK n : n = Len(items)
  OBVIOUS
<1>1. /\ n \in Nat /\ Len(long) = n + 1 /\ long[n + 1] = Item(s, R)
      /\ \A i \in 1..n : long[i] = items[i]
      /\ d \in 1..(n + 1)
      /\ \A j \in 1..(n + 1) : j # d =>
           long[j].rank > long[d].rank \/ (long[j].rank = long[d].rank /\ j > d)
  BY DEF FullAbove, Extended, LowestAt
<1>2. long[n + 1].rank = R /\ \A i \in 1..n : long[i].rank \in 1..3 /\ long[i].rank >= R
  <2>1. \A i \in 1..n : items[i] \in Items /\ items[i].rank >= R
    BY DEF FullAbove
  <2> QED
    BY <1>1, <2>1, RanksOfItems, ItemsDiffer
<1>3. CASE c = 0
  <2>1. \A i \in 1..n : items[i].rank # R
    BY <1>3 DEF Tracks
  <2>2. d \notin 1..n
    BY <1>1, <1>2, <2>1
  <2> QED
    BY <1>1, <1>3, <2>2
<1>4. CASE c # 0
  <2>1. 1 \in 1..c
    BY <1>4
  <2>2. PICK a \in 1..n : items[a] = Item(T[1], R)
    BY <2>1 DEF Tracks
  <2>3. long[a].rank = R
    BY <1>1, <2>2, ItemsDiffer
  <2>4. d \in 1..n /\ long[d].rank = R
    BY <1>1, <1>2, <2>3
  <2>5. PICK i \in 1..c : items[d] = Item(T[i], R)
    BY <1>1, <2>4 DEF Tracks
  <2>6. i = 1
    <3> SUFFICES ASSUME i # 1 PROVE FALSE
      OBVIOUS
    <3>1. a # d
      BY <2>1, <2>2, <2>5, ItemsDiffer DEF OneToOne
    <3>2. d < a
      BY <1>1, <2>3, <2>4, <3>1
    <3>3. i < 1
      BY <2>1, <2>2, <2>4, <2>5, <3>2 DEF Tracks
    <3> QED
      BY <3>3
  <2> QED
    BY <1>1, <1>4, <2>4, <2>5, <2>6
<1> QED
  BY <1>3, <1>4

LEMMA Turns ==
  ASSUME NEW R \in 1..3, NEW items, FullAbove(items, R), NEW c \in Nat, NEW T, Tracks(items, R, T, c),
         OneToOne(T, c), NEW s \in Nat, Item(s, R) \in Items, \A i \in 1..c : T[i] # s,
         NEW U, Turned(T, c, s, U), NEW new, new = AppendUniqueItem(items, Item(s, R))
  PROVE  FullAbove(new, R) /\ Tracks(new, R, U, c) /\ OneToOne(U, c)
<1> PICK n : n = MaxItems
  OBVIOUS
<1>1. n \in Nat /\ Len(items) = n /\ items \in Seq(Items)
  BY SessionMemoryAssumptions DEF FullAbove
<1>2. ~Among(Item(s, R), items)
  <2> SUFFICES ASSUME NEW a \in 1..n, items[a] = Item(s, R) PROVE FALSE
    BY <1>1, AmongPlaces
  <2>1. items[a].rank = R
    BY ItemsDiffer
  <2>2. PICK i \in 1..c : items[a] = Item(T[i], R)
    BY <1>1, <2>1 DEF Tracks
  <2>3. Item(T[i], R) = Item(s, R)
    BY <2>2
  <2>4. T[i] = s
    <3> PICK t : t = T[i]
      OBVIOUS
    <3>1. Item(t, R) = Item(s, R)
      BY <2>3
    <3>2. t = s
      BY <3>1, ItemsDiffer
    <3> QED
      BY <3>2
  <2> QED
    BY <2>4
<1>3. new \in Seq(Items) /\ Len(new) = n /\ GivesWay(items, Item(s, R), new)
  BY <1>1, <1>2, ItemAppended
<1>4. PICK long, d : Extended(items, Item(s, R), long) /\ LowestAt(long, d) /\ Without(long, d, new)
  BY <1>3 DEF GivesWay
<1>5. /\ Len(long) = n + 1 /\ long \in Seq(Items) /\ d \in 1..(n + 1)
      /\ long[n + 1] = Item(s, R) /\ \A i \in 1..n : long[i] = items[i]
  BY <1>1, <1>4 DEF Extended, LowestAt
<1> DEFINE F(j) == From(d, j)
<1>6. /\ \A j \in 1..n : F(j) \in 1..(n + 1) /\ F(j) # d /\ new[j] = long[F(j)]
      /\ \A i, j \in 1..n : i < j => F(i) < F(j)
      /\ \A i \in 1..(n + 1) : i # d => \E j \in 1..n : new[j] = long[i]
  <2>1. /\ \A j \in 1..Len(new) : /\ From(d, j) \in 1..Len(long) /\ From(d, j) # d
                                    /\ new[j] = long[From(d, j)]
        /\ \A i, j \in 1..Len(new) : i < j => From(d, i) < From(d, j)
        /\ \A i \in 1..Len(long) : i # d => \E j \in 1..Len(new) : new[j] = long[i]
    <3>1. d \in 1..Len(long)
      BY <1>5
    <3> HIDE DEF F
    <3> QED
      BY <1>3, <1>4, <1>5, <3>1, WithoutPlaces
  <2> QED
    BY <1>3, <1>5, <2>1
<1> HIDE DEF F
<1>7. /\ c = 0 => d = n + 1
      /\ c # 0 => d \in 1..n /\ items[d] = Item(T[1], R)
  BY <1>4, <1>5, <1>1, OldestGivesWay
<1>8. \A i, j \in 1..n : items[i] = items[j] => i = j
  BY <1>1 DEF FullAbove, OnceEach
<1>9. \A i \in 1..n : items[i] # Item(s, R)
  BY <1>1, <1>2, AmongPlaces
<1>10. \A i \in 1..(n + 1) : i \in 1..n \/ i = n + 1
  BY <1>1
<1>11. FullAbove(new, R)
  <2>1. OnceEach(new)
    <3> SUFFICES ASSUME NEW i \in 1..n, NEW j \in 1..n, new[i] = new[j] PROVE i = j
      BY <1>3 DEF OnceEach
    <3>1. F(i) = F(j)
      <4>1. F(i) \in 1..(n + 1) /\ F(j) \in 1..(n + 1) /\ long[F(i)] = long[F(j)]
        BY <1>6
      <4>2. \A k, l \in 1..(n + 1) : long[k] = long[l] => k = l
        BY <1>5, <1>8, <1>9, <1>10
      <4> QED
        BY <4>1, <4>2
    <3>2. F(i) \in Nat /\ ~(i < j) /\ ~(j < i)
      BY <1>1, <1>6, <3>1
    <3> QED
      BY <1>1, <3>2
  <2>2. \A i \in 1..(n + 1) : long[i].rank >= R
    <3>1. \A i \in 1..n : items[i].rank >= R
      BY <1>1 DEF FullAbove
    <3> QED
      BY <1>5, <1>10, <3>1, ItemsDiffer
  <2> QED
    BY <1>3, <1>6, <2>1, <2>2 DEF FullAbove
\* Where the elements of the turned sequence come from.
<1>12. \A i \in 1..c : i < c => i + 1 \in 1..c /\ U[i] = T[i + 1]
  BY DEF Turned
<1>13. c # 0 => U[c] = s /\ c \in 1..c /\ 1 \in 1..c
  BY DEF Turned
<1>14. OneToOne(U, c)
  <2> SUFFICES ASSUME NEW i \in 1..c, NEW j \in 1..c, U[i] = U[j] PROVE i = j
    BY DEF OneToOne
  <2>1. (i < c \/ i = c) /\ (j < c \/ j = c)
    OBVIOUS
  <2>2. CASE i < c /\ j < c
    <3>1. i + 1 = j + 1
      BY <1>12, <2>2 DEF OneToOne
    <3> QED
      BY <3>1
  <2> QED
    BY <1>12, <1>13, <2>1, <2>2
<1>15. \A i \in 1..c : \E a \in 1..n : new[a] = Item(U[i], R)
  <2> SUFFICES ASSUME NEW i \in 1..c PROVE \E a \in 1..n : new[a] = Item(U[i], R)
    OBVIOUS
  <2>1. CASE i < c
    <3>1. PICK a \in 1..n : items[a] = Item(T[i + 1], R)
      BY <1>1, <1>12, <2>1 DEF Tracks
    <3>2. i + 1 # 1 /\ T[i + 1] # T[1]
      BY <1>12, <1>13, <2>1 DEF OneToOne
    <3>3. a # d
      BY <1>7, <2>1, <3>1, <3>2, ItemsDiffer
    <3>4. \E j \in 1..n : new[j] = long[a]
      BY <1>1, <1>6, <3>3
    <3> QED
      BY <1>5, <1>12, <2>1, <3>1, <3>4
  <2>2. CASE i = c
    <3>1. d # n + 1 /\ n + 1 \in 1..(n + 1)
      BY <1>1, <1>7, <2>2
    <3>2. \E j \in 1..n : new[j] = long[n + 1]
      BY <1>6, <3>1
    <3> QED
      BY <1>5, <1>13, <2>2, <3>2
  <2> QED
    BY <2>1, <2>2
\* The number an item of rank R has in U.
<1>16. \A a \in 1..n : \A i \in 1..c : new[a] = Item(U[i], R) =>
         \/ i = c /\ F(a) = n + 1
         \/ i < c /\ F(a) \in 1..n /\ items[F(a)] = Item(T[i + 1], R)
  <2> SUFFICES ASSUME NEW a \in 1..n, NEW i \in 1..c, new[a] = Item(U[i], R)
               PROVE  \/ i = c /\ F(a) = n + 1
                      \/ i < c /\ F(a) \in 1..n /\ items[F(a)] = Item(T[i + 1], R)
    OBVIOUS
  <2>1. CASE F(a) = n + 1
    <3>1. U[i] = s
      BY <1>5, <1>6, <2>1, ItemsDiffer
    <3>2. ~(i < c)
      BY <1>12, <3>1
    <3> QED
      BY <2>1, <3>2
  <2>2. CASE F(a) \in 1..n
    <3>1. new[a] = items[F(a)]
      BY <1>5, <1>6, <2>2
    <3>2. U[i] # s
      BY <1>9, <2>2, <3>1
    <3>3. i < c
      BY <1>13, <3>2
    <3> QED
      BY <1>12, <2>2, <3>1, <3>3
  <2> QED
    BY <1>6, <1>10, <2>1, <2>2
<1>17. \A a \in 1..n : new[a].rank = R => \E i \in 1..c : new[a] = Item(U[i], R)
  <2> SUFFICES ASSUME NEW a \in 1..n, new[a].rank = R PROVE \E i \in 1..c : new[a] = Item(U[i], R)
    OBVIOUS
  <2>1. CASE F(a) = n + 1
    <3>1. c # 0
      BY <1>6, <1>7, <2>1
    <3> QED
      BY <1>5, <1>6, <1>13, <2>1, <3>1
  <2>2. CASE F(a) \in 1..n
    <3>1. new[a] = items[F(a)]
      BY <1>5, <1>6, <2>2
    <3>2. PICK i \in 1..c : items[F(a)] = Item(T[i], R)
      BY <1>1, <2>2, <3>1 DEF Tracks
    <3>3. i # 1
      BY <1>6, <1>7, <1>8, <2>2, <3>2
    <3>4. i - 1 \in 1..c /\ i - 1 < c /\ (i - 1) + 1 = i
      BY <3>3
    <3>5. U[i - 1] = T[i]
      BY <1>12, <3>4
    <3> QED
      BY <3>1, <3>2, <3>4, <3>5
  <2> QED
    BY <1>6, <1>10, <2>1, <2>2
<1>18. ASSUME NEW a \in 1..n, NEW e \in 1..n, NEW i \in 1..c, NEW j \in 1..c,
              a < e, new[a] = Item(U[i], R), new[e] = Item(U[j], R)
       PROVE  i < j
  <2>1. F(a) < F(e) /\ F(a) \in 1..(n + 1) /\ F(e) \in 1..(n + 1)
    BY <1>6, <1>18
  <2>2. i < c /\ F(a) \in 1..n /\ items[F(a)] = Item(T[i + 1], R)
    BY <1>1, <1>16, <1>18, <2>1
  <2>3. CASE j = c
    BY <2>2, <2>3
  <2>4. CASE j < c /\ F(e) \in 1..n /\ items[F(e)] = Item(T[j + 1], R)
    <3>1. i + 1 \in 1..c /\ j + 1 \in 1..c
      BY <1>12, <2>2, <2>4
    <3>2. i + 1 < j + 1
      BY <1>1, <2>1, <2>2, <2>4, <3>1 DEF Tracks
    <3> QED
      BY <3>2
  <2> QED
    BY <1>16, <1>18, <2>3, <2>4
<1>19. Tracks(new, R, U, c)
  BY <1>3, <1>15, <1>17, <1>18 DEF Tracks
<1> QED
  BY <1>11, <1>14, <1>19

\* The events s[1] to s[m], oldest first, and what merging them appends.
Increasing(s, m) ==
  /\ \A j \in 1..m : s[j] \in Nat
  /\ \A i, j \in 1..m : i < j => s[i] < s[j]

AreItems(new, s, R, m) == \A k \in 1..m : new[k] = Item(s[k], R)

AllOf(s, m) == {s[j] : j \in 1..m}

LEMMA IncreasingPlaces ==
  ASSUME NEW m \in Nat, NEW s, Increasing(s, m), NEW i \in 1..m, NEW j \in 1..m
  PROVE  /\ s[i] \in Nat /\ s[j] \in Nat
         /\ s[i] < s[j] <=> i < j
         /\ s[i] = s[j] <=> i = j
<1>1. s[i] \in Nat /\ s[j] \in Nat /\ (i < j => s[i] < s[j]) /\ (j < i => s[j] < s[i])
  BY DEF Increasing
<1> QED
  BY <1>1

\* Once something is missing, the list has the newest m - d events, and no older ones.
LEMMA NewestAreLeft ==
  ASSUME NEW items, NEW R \in 1..3, NEW m \in Nat, NEW s, Increasing(s, m), NEW b,
         KeptList(items, R, AllOf(s, m), b),
         NEW j0 \in 1..m, ~Among(Item(s[j0], R), items)
  PROVE  \E d \in 1..m :
           /\ FullAbove(items, R)
           /\ \A j \in 1..m : Among(Item(s[j], R), items) <=> d < j
           /\ \A a \in 1..Len(items) : items[a].rank = R =>
                \E j \in 1..m : d < j /\ items[a] = Item(s[j], R)
<1>1. /\ items \in Seq(Items) /\ Len(items) \in Nat /\ OnceEach(items) /\ InOrder(items, R)
      /\ SkipsNone(items, R, AllOf(s, m))
      /\ \A j \in 1..m : s[j] \in AllOf(s, m) /\ s[j] \in Nat
  BY DEF KeptList, AllOf, Increasing
<1>2. \A j \in 1..m : ~Among(Item(s[j], R), items) =>
        Len(items) = MaxItems /\ \A i \in 1..Len(items) : Better(items[i], s[j], R)
  BY <1>1 DEF KeptList, GaveWay
<1>3. \A i \in 1..Len(items) : /\ items[i].rank \in 1..3 /\ items[i].of \in Nat
                               /\ items[i] = Item(items[i].of, items[i].rank)
  <2>1. \A i \in 1..Len(items) : items[i] \in Items
    BY <1>1
  <2> QED
    BY <2>1, RanksOfItems
<1>4. FullAbove(items, R)
  BY <1>1, <1>2, <1>3 DEF FullAbove, Better
<1> DEFINE D == {d \in Nat : \A j \in 1..m : d < j => Among(Item(s[j], R), items)}
<1>5. m \in D /\ D \in SUBSET Nat
  OBVIOUS
<1>6. PICK d \in D : \A e \in D : d <= e
  <2> HIDE DEF D
  <2> QED
    BY <1>5, LeastNumber
<1>7. d \in Nat /\ d <= m /\ \A j \in 1..m : d < j => Among(Item(s[j], R), items)
  BY <1>5, <1>6
<1>8. d # 0
  BY <1>7
<1>9. d \in 1..m /\ d - 1 \in Nat /\ ~(d <= d - 1)
  BY <1>7, <1>8
<1>10. ~Among(Item(s[d], R), items)
  <2> SUFFICES ASSUME Among(Item(s[d], R), items) PROVE d - 1 \in D
    BY <1>6, <1>9
  <2>1. \A j \in 1..m : d - 1 < j => d < j \/ j = d
    BY <1>9
  <2> QED
    BY <1>7, <1>9, <2>1
<1> HIDE DEF D
<1>11. \A i \in 1..Len(items) : items[i].rank = R => items[i].of > s[d]
  BY <1>1, <1>2, <1>3, <1>9, <1>10 DEF Better
<1>12. ASSUME NEW j \in 1..m, Among(Item(s[j], R), items) PROVE d < j
  <2>1. PICK i \in 1..Len(items) : items[i] = Item(s[j], R)
    BY <1>1, <1>12, AmongPlaces
  <2>2. s[j] > s[d]
    BY <1>11, <2>1, ItemsDiffer
  <2>3. s[d] < s[j]
    BY <1>1, <1>9, <2>2
  <2> QED
    BY <1>9, <2>3, IncreasingPlaces
<1>13. ASSUME NEW a \in 1..Len(items), items[a].rank = R
       PROVE  \E j \in 1..m : d < j /\ items[a] = Item(s[j], R)
  <2>1. items[a].of > s[d] /\ s[d] \in AllOf(s, m)
    BY <1>1, <1>9, <1>11, <1>13
  <2>2. items[a].of \in AllOf(s, m)
    BY <1>1, <1>13, <2>1 DEF SkipsNone
  <2>3. PICK j \in 1..m : items[a].of = s[j]
    BY <2>2 DEF AllOf
  <2>4. s[d] < s[j]
    BY <1>1, <1>9, <2>1, <2>3
  <2>5. d < j
    BY <1>9, <2>4, IncreasingPlaces
  <2>6. items[a] = Item(s[j], R)
    BY <1>3, <1>13, <2>3
  <2> QED
    BY <2>5, <2>6
<1> QED
  BY <1>4, <1>7, <1>9, <1>12, <1>13

\* The items after k turns.
TurnedTo(s, d, c, k) == [i \in 1..c |-> IF k + i <= c THEN s[d + (k + i)] ELSE s[(k + i) - c]]

LEMMA TurnAgain ==
  ASSUME NEW m \in Nat, NEW s, Increasing(s, m), NEW d \in 1..m, NEW c \in Nat, c + d = m,
         NEW k \in Nat, k < m
  PROVE  /\ \A i \in 1..c : TurnedTo(s, d, c, k)[i] # s[k + 1]
         /\ Turned(TurnedTo(s, d, c, k), c, s[k + 1], TurnedTo(s, d, c, k + 1))
<1> DEFINE T == TurnedTo(s, d, c, k)
           U == TurnedTo(s, d, c, k + 1)
<1>1. \A i \in 1..c : T[i] # s[k + 1]
  <2> SUFFICES ASSUME NEW i \in 1..c PROVE T[i] # s[k + 1]
    OBVIOUS
  <2>1. k + 1 \in 1..m
    OBVIOUS
  <2>2. CASE k + i <= c
    <3>1. T[i] = s[d + (k + i)] /\ d + (k + i) \in 1..m /\ d + (k + i) # k + 1
      BY <2>2 DEF TurnedTo
    <3> QED
      BY <2>1, <3>1, IncreasingPlaces
  <2>3. CASE ~(k + i <= c)
    <3>1. T[i] = s[(k + i) - c] /\ (k + i) - c \in 1..m /\ (k + i) - c # k + 1
      BY <2>3 DEF TurnedTo
    <3> QED
      BY <2>1, <3>1, IncreasingPlaces
  <2> QED
    BY <2>2, <2>3
<1>2. ASSUME NEW i \in 1..c PROVE U[i] = IF i < c THEN T[i + 1] ELSE s[k + 1]
  <2>1. U[i] = IF (k + 1) + i <= c THEN s[d + ((k + 1) + i)] ELSE s[((k + 1) + i) - c]
    BY DEF TurnedTo
  <2>2. CASE i < c
    <3>1. i + 1 \in 1..c
      BY <2>2
    <3>2. T[i + 1] = IF k + (i + 1) <= c THEN s[d + (k + (i + 1))] ELSE s[(k + (i + 1)) - c]
      BY <3>1 DEF TurnedTo
    <3>3. (k + 1) + i = k + (i + 1)
      OBVIOUS
    <3> QED
      BY <2>1, <2>2, <3>2, <3>3
  <2>3. CASE i = c
    <3>1. ~((k + 1) + i <= c) /\ ((k + 1) + i) - c = k + 1
      BY <2>3
    <3> QED
      BY <2>1, <2>3, <3>1
  <2> QED
    BY <2>2, <2>3
<1> QED
  BY <1>1, <1>2 DEF Turned

LEMMA GoesRound ==
  ASSUME NEW items, NEW R \in 1..3, NEW m \in Nat, NEW s, Increasing(s, m), NEW b,
         KeptList(items, R, AllOf(s, m), b),
         NEW j0 \in 1..m, ~Among(Item(s[j0], R), items),
         NEW new, AreItems(new, s, R, m), NEW f, Merging(f, items, new, m)
  PROVE  KeptList(f[m], R, AllOf(s, m), b)
<1>1. PICK d \in 1..m :
        /\ FullAbove(items, R)
        /\ \A j \in 1..m : Among(Item(s[j], R), items) <=> d < j
        /\ \A a \in 1..Len(items) : items[a].rank = R =>
             \E j \in 1..m : d < j /\ items[a] = Item(s[j], R)
  BY NewestAreLeft, ZenonT(30)
<1> PICK c : c = m - d
  OBVIOUS
<1>2. c \in Nat /\ c + d = m /\ d \in Nat /\ \A i \in 1..c : d + i \in 1..m /\ d < d + i
  OBVIOUS
<1>3. items \in Seq(Items) /\ InOrder(items, R)
  BY DEF KeptList
<1> PICK T : T = TurnedTo(s, d, c, 0)
  OBVIOUS
<1>4. \A i \in 1..c : T[i] = s[d + i]
  <2> SUFFICES ASSUME NEW i \in 1..c PROVE T[i] = s[d + i]
    OBVIOUS
  <2>1. 0 + i <= c /\ d + (0 + i) = d + i
    BY <1>2
  <2> QED
    BY <2>1 DEF TurnedTo
<1>5. OneToOne(T, c)
  <2> SUFFICES ASSUME NEW i \in 1..c, NEW j \in 1..c, T[i] = T[j] PROVE i = j
    BY DEF OneToOne
  <2>1. d + i = d + j
    BY <1>2, <1>4, IncreasingPlaces
  <2> QED
    BY <1>2, <2>1
<1>6. Tracks(items, R, T, c)
  <2>1. ASSUME NEW i \in 1..c PROVE \E a \in 1..Len(items) : items[a] = Item(T[i], R)
    <3>1. Among(Item(s[d + i], R), items)
      BY <1>1, <1>2
    <3> QED
      BY <1>3, <1>4, <3>1, AmongPlaces
  <2>2. ASSUME NEW a \in 1..Len(items), items[a].rank = R
        PROVE  \E i \in 1..c : items[a] = Item(T[i], R)
    <3>1. PICK j \in 1..m : d < j /\ items[a] = Item(s[j], R)
      BY <1>1, <2>2
    <3>2. j - d \in 1..c /\ d + (j - d) = j
      BY <1>2, <3>1
    <3>3. T[j - d] = s[j]
      BY <1>4, <3>2
    <3> QED
      BY <3>1, <3>2, <3>3
  <2>3. ASSUME NEW a \in 1..Len(items), NEW e \in 1..Len(items), NEW i \in 1..c, NEW j \in 1..c,
               a < e, items[a] = Item(T[i], R), items[e] = Item(T[j], R)
        PROVE  i < j
    <3>1. items[a].rank = R /\ items[e].rank = R /\ items[a].of = T[i] /\ items[e].of = T[j]
      BY <2>3, ItemsDiffer
    <3>2. T[i] < T[j]
      BY <1>3, <2>3, <3>1 DEF InOrder
    <3>3. s[d + i] < s[d + j]
      BY <1>4, <3>2
    <3>4. d + i < d + j
      BY <1>2, <3>3, IncreasingPlaces
    <3> QED
      BY <1>2, <3>4
  <2> QED
    BY <2>1, <2>2, <2>3 DEF Tracks
<1> DEFINE P(k) == /\ FullAbove(f[k], R)
                   /\ Tracks(f[k], R, TurnedTo(s, d, c, k), c)
                   /\ OneToOne(TurnedTo(s, d, c, k), c)
           bad == {k \in Nat : k <= m /\ ~P(k)}
<1>7. P(0)
  BY <1>1, <1>5, <1>6 DEF Merging
<1>8. ASSUME NEW k \in Nat, k < m, P(k) PROVE P(k + 1)
  <2> PICK u, v, x, y, z : /\ u = TurnedTo(s, d, c, k) /\ v = TurnedTo(s, d, c, k + 1)
                           /\ x = s[k + 1] /\ y = f[k] /\ z = f[k + 1]
    OBVIOUS
  <2>1. k + 1 \in 1..m /\ (k + 1) - 1 = k
    BY <1>8
  <2>2. (\A i \in 1..c : u[i] # x) /\ Turned(u, c, x, v)
    BY <1>2, <1>8, TurnAgain
  <2>3. x \in Nat /\ new[k + 1] = Item(x, R) /\ z = AppendUniqueItem(y, Item(x, R))
    BY <2>1 DEF Increasing, AreItems, Merging
  <2>4. Item(x, R) \in Items
    BY <2>3 DEF Item, Items, DerivedRank, ReportedRank, ObservedRank
  <2>5. FullAbove(y, R) /\ Tracks(y, R, u, c) /\ OneToOne(u, c)
    BY <1>8
  <2> HIDE DEF P
  <2>6. FullAbove(z, R) /\ Tracks(z, R, v, c) /\ OneToOne(v, c)
    BY <1>2, <2>2, <2>3, <2>4, <2>5, Turns
  <2> QED
    BY <2>6 DEF P
<1>9. P(m)
  <2> HIDE DEF P
  <2> SUFFICES ASSUME m \in bad PROVE FALSE
    OBVIOUS
  <2>1. PICK k \in bad : \A l \in bad : k <= l
    BY LeastNumber
  <2>2. k \in Nat /\ k # 0 /\ k <= m
    BY <1>7, <2>1
  <2>3. k - 1 \in Nat /\ k - 1 < m /\ (k - 1) + 1 = k /\ k - 1 \notin bad
    BY <2>1, <2>2
  <2> QED
    BY <1>8, <2>1, <2>2, <2>3
<1> PICK last, V : last = f[m] /\ V = TurnedTo(s, d, c, m)
  OBVIOUS
<1>10. FullAbove(last, R) /\ Tracks(last, R, V, c)
  BY <1>9
<1>11. \A i \in 1..c : V[i] = s[d + i]
  <2> SUFFICES ASSUME NEW i \in 1..c PROVE V[i] = s[d + i]
    OBVIOUS
  <2>1. ~(m + i <= c) /\ (m + i) - c = d + i
    BY <1>2
  <2> QED
    BY <2>1 DEF TurnedTo
<1> HIDE DEF P
\* The items of rank R are those it had before.
<1>12. ASSUME NEW a \in 1..Len(last), last[a].rank = R
       PROVE  \E j \in 1..m : d < j /\ last[a] = Item(s[j], R) /\ last[a].of = s[j]
  <2>1. PICK i \in 1..c : last[a] = Item(V[i], R)
    BY <1>10, <1>12 DEF Tracks
  <2> QED
    BY <1>2, <1>11, <2>1, ItemsDiffer
<1>13. last \in Seq(Items) /\ Len(last) = MaxItems /\ MaxItems \in Nat
       /\ OnceEach(last) /\ \A a \in 1..Len(last) : last[a].rank >= R
  BY <1>10, SessionMemoryAssumptions DEF FullAbove
<1>14. InOrder(last, R)
  <2> SUFFICES ASSUME NEW a \in 1..Len(last), NEW e \in 1..Len(last), a < e,
                      last[a].rank = R, last[e].rank = R
               PROVE  last[a].of < last[e].of
    BY DEF InOrder
  <2>1. PICK i \in 1..c : last[a] = Item(V[i], R)
    BY <1>10 DEF Tracks
  <2>2. PICK j \in 1..c : last[e] = Item(V[j], R)
    BY <1>10 DEF Tracks
  <2>3. i < j
    BY <1>10, <2>1, <2>2 DEF Tracks
  <2>4. d + i < d + j /\ d + i \in 1..m /\ d + j \in 1..m
    BY <1>2, <2>3
  <2>5. s[d + i] < s[d + j]
    BY <2>4 DEF Increasing
  <2> QED
    BY <1>11, <2>1, <2>2, <2>5, ItemsDiffer
<1>15. \A j \in 1..m : s[j] \in AllOf(s, m) /\ s[j] \in Nat /\ s[j] < b
  BY DEF KeptList, Below, AllOf
<1>16. OfBelow(last, R, b) /\ SkipsNone(last, R, AllOf(s, m))
  BY <1>12, <1>15 DEF OfBelow, SkipsNone
<1>17. GaveWay(last, R, AllOf(s, m))
  <2> SUFFICES ASSUME NEW j \in 1..m, ~Among(Item(s[j], R), last), NEW a \in 1..Len(last)
               PROVE  Better(last[a], s[j], R)
    BY <1>13 DEF GaveWay, AllOf
  <2>1. ~(d < j)
    <3> SUFFICES ASSUME d < j PROVE FALSE
      OBVIOUS
    <3>1. j - d \in 1..c /\ d + (j - d) = j
      BY <1>2
    <3>2. \E e \in 1..Len(last) : last[e] = Item(V[j - d], R)
      BY <1>10, <3>1 DEF Tracks
    <3>3. V[j - d] = s[j]
      BY <1>11, <3>1
    <3> QED
      BY <1>13, <3>2, <3>3, AmongPlaces
  <2>2. last[a].rank \in Nat /\ last[a].rank >= R
    <3>1. last[a] \in Items
      BY <1>13
    <3> QED
      BY <1>13, <3>1, RanksOfItems
  <2>3. CASE last[a].rank = R
    <3>1. PICK i \in 1..m : d < i /\ last[a].of = s[i]
      BY <1>12, <2>3
    <3>2. j < i
      BY <1>2, <2>1, <3>1
    <3>3. s[j] < s[i]
      BY <3>2 DEF Increasing
    <3> QED
      BY <1>15, <2>3, <3>1, <3>3 DEF Better
  <2> QED
    BY <2>2, <2>3 DEF Better
<1>18. Below(AllOf(s, m), b)
  BY DEF KeptList
<1>19. Len(last) <= MaxItems
  BY <1>13
<1> QED
  BY <1>13, <1>14, <1>16, <1>17, <1>18, <1>19 DEF KeptList

LEMMA KeptLonger ==
  ASSUME NEW items, NEW R, NEW S, NEW b \in Nat, KeptList(items, R, S, b),
         NEW b1 \in Nat, b <= b1
  PROVE  KeptList(items, R, S, b1)
<1>1. \A i \in 1..Len(items) : items[i].of \in Nat
  <2>1. \A i \in 1..Len(items) : items[i] \in Items
    BY DEF KeptList
  <2> QED
    BY <2>1, RanksOfItems
<1>2. OfBelow(items, R, b1)
  <2> SUFFICES ASSUME NEW i \in 1..Len(items), items[i].rank = R PROVE items[i].of < b1
    BY DEF OfBelow
  <2>1. items[i].of < b
    BY DEF KeptList, OfBelow
  <2> QED
    BY <1>1, <2>1
<1>3. Below(S, b1)
  <2> SUFFICES ASSUME NEW y \in S PROVE y \in Nat /\ y < b1
    BY DEF Below
  <2>1. y \in Nat /\ y < b
    BY DEF KeptList, Below
  <2> QED
    BY <2>1
<1> QED
  BY <1>2, <1>3 DEF KeptList

\* A list has what it should when the oldest events are no longer asked for.
LEMMA KeptFewer ==
  ASSUME NEW items, NEW R, NEW S, NEW b, KeptList(items, R, S, b),
         NEW S1 \in SUBSET S, \A s \in S1, y \in S : y > s => y \in S1
  PROVE  KeptList(items, R, S1, b)
<1>1. Below(S1, b)
  BY DEF KeptList, Below
<1>2. SkipsNone(items, R, S1)
  <2> SUFFICES ASSUME NEW i \in 1..Len(items), NEW s \in S1, items[i].rank = R, items[i].of > s
               PROVE  items[i].of \in S1
    BY DEF SkipsNone
  <2>1. items[i].of \in S
    BY DEF KeptList, SkipsNone
  <2> QED
    BY <2>1
<1>3. GaveWay(items, R, S1)
  BY DEF KeptList, GaveWay
<1> QED
  BY <1>1, <1>2, <1>3 DEF KeptList

\* Items that are all there change nothing.
LEMMA NothingNew ==
  ASSUME NEW items, NEW m \in Nat, NEW new, NEW f, Merging(f, items, new, m),
         \A k \in 1..m : Among(new[k], items)
  PROVE  f[m] = items
<1> DEFINE bad == {k \in Nat : k <= m /\ f[k] # items}
<1>1. f[0] = items
  BY DEF Merging
<1>2. ASSUME NEW k \in Nat, k < m, f[k] = items PROVE f[k + 1] = items
  <2>1. k + 1 \in 1..m /\ (k + 1) - 1 = k
    BY <1>2
  <2>2. f[k + 1] = AppendUniqueItem(items, new[k + 1])
    BY <1>2, <2>1 DEF Merging
  <2> QED
    BY <2>1, <2>2 DEF AppendUniqueItem
<1> SUFFICES ASSUME m \in bad PROVE FALSE
  OBVIOUS
<1>3. PICK k \in bad : \A l \in bad : k <= l
  <2> HIDE DEF bad
  <2>1. bad \in SUBSET Nat
    BY DEF bad
  <2> QED
    BY <2>1, LeastNumber
<1>4. k \in Nat /\ k # 0 /\ k <= m
  BY <1>1, <1>3
<1>5. k - 1 \in Nat /\ k - 1 < m /\ (k - 1) + 1 = k /\ k - 1 \notin bad
  BY <1>3, <1>4
<1> QED
  BY <1>2, <1>3, <1>4, <1>5

\* The events up to a bound are the first ones.
LEMMA FirstEvents ==
  ASSUME NEW m \in Nat, NEW s, Increasing(s, m), NEW b \in Nat
  PROVE  \E n \in 0..m : \A j \in 1..m : s[j] < b <=> j <= n
<1> DEFINE N == {n \in Nat : \A j \in 1..m : s[j] < b => j <= n}
<1>1. m \in N
  OBVIOUS
<1>2. PICK n \in N : \A l \in N : n <= l
  <2> HIDE DEF N
  <2>1. N \in SUBSET Nat
    BY DEF N
  <2> QED
    BY <1>1, <2>1, LeastNumber
<1>3. n \in 0..m /\ \A j \in 1..m : s[j] < b => j <= n
  BY <1>1, <1>2
<1>4. ASSUME NEW j \in 1..m, j <= n PROVE s[j] < b
  <2>1. n - 1 \in Nat /\ n - 1 \notin N
    BY <1>2, <1>3, <1>4
  <2>2. PICK i \in 1..m : s[i] < b /\ ~(i <= n - 1)
    BY <2>1
  <2>3. j < i \/ j = i
    BY <1>3, <1>4, <2>2
  <2>4. s[j] \in Nat /\ s[i] \in Nat /\ (j < i => s[j] < s[i])
    BY DEF Increasing
  <2> QED
    BY <2>2, <2>3, <2>4
<1> QED
  BY <1>3, <1>4

\* Merging the queue's events of one type into a list that has what it should of the
\* older ones gives a list that has what it should of all.
LEMMA MergeKeeps ==
  ASSUME NEW items, NEW R \in 1..3, NEW m \in Nat, NEW s, Increasing(s, m),
         NEW b \in Nat, NEW b1 \in Nat, b <= b1, \A j \in 1..m : s[j] < b1,
         KeptList(items, R, {y \in AllOf(s, m) : y < b}, b),
         NEW new, Len(new) = m, AreItems(new, s, R, m)
  PROVE  KeptList(AppendUniqueItems(items, new), R, AllOf(s, m), b1)
<1>1. PICK f : Merging(f, items, new, m) /\ AppendUniqueItems(items, new) = f[m]
  BY MergeSteps
<1>2. PICK n \in 0..m : \A j \in 1..m : s[j] < b <=> j <= n
  BY FirstEvents
<1>3. n \in Nat /\ n <= m /\ \A j \in 1..n : j \in 1..m
  OBVIOUS
<1>4. {y \in AllOf(s, m) : y < b} = AllOf(s, n)
  BY <1>2, <1>3 DEF AllOf
<1>5. KeptList(items, R, AllOf(s, n), b)
  BY <1>4
<1>6. Increasing(s, n) /\ AreItems(new, s, R, n) /\ Merging(f, items, new, n)
  BY <1>1, <1>3 DEF Increasing, AreItems, Merging
<1>7. KeptList(f[n], R, AllOf(s, n), b)
  <2>1. CASE \E j \in 1..n : ~Among(Item(s[j], R), items)
    BY <1>3, <1>5, <1>6, <2>1, GoesRound
  <2>2. CASE \A j \in 1..n : Among(Item(s[j], R), items)
    <3>1. \A k \in 1..n : Among(new[k], items)
      BY <1>6, <2>2 DEF AreItems
    <3>2. f[n] = items
      BY <1>3, <1>6, <3>1, NothingNew
    <3> QED
      BY <1>5, <3>2
  <2> QED
    BY <2>1, <2>2
<1> DEFINE P(k) == \E e \in Nat : /\ KeptList(f[k], R, AllOf(s, k), e) /\ e <= b1
                                  /\ \A j \in 1..m : k < j => e <= s[j]
           bad == {k \in Nat : n <= k /\ k <= m /\ ~P(k)}
<1>8. P(n)
  <2>1. \A j \in 1..m : n < j => b <= s[j]
    BY <1>2, <1>3 DEF Increasing
  <2> QED
    BY <1>7, <2>1
<1>9. ASSUME NEW k \in Nat, k < m, P(k) PROVE P(k + 1)
  <2>1. PICK e \in Nat : /\ KeptList(f[k], R, AllOf(s, k), e) /\ e <= b1
                         /\ \A j \in 1..m : k < j => e <= s[j]
    BY <1>9
  <2> HIDE DEF P
  <2> PICK x, y, z : x = s[k + 1] /\ y = f[k] /\ z = f[k + 1]
    OBVIOUS
  <2>2. k + 1 \in 1..m /\ (k + 1) - 1 = k
    BY <1>9
  <2>3. x \in Nat /\ e <= x /\ x + 1 \in Nat /\ x + 1 <= b1
    BY <2>1, <2>2 DEF Increasing
  <2>4. new[k + 1] = Item(x, R) /\ z = AppendUniqueItem(y, Item(x, R))
    BY <1>1, <2>2 DEF AreItems, Merging
  <2>5. Item(x, R) \in Items
    BY <2>3 DEF Item, Items, DerivedRank, ReportedRank, ObservedRank
  <2>6. AllOf(s, k + 1) = AllOf(s, k) \cup {x}
    <3>1. \A j \in 1..(k + 1) : j \in 1..k \/ j = k + 1
      OBVIOUS
    <3>2. k + 1 \in 1..(k + 1) /\ \A j \in 1..k : j \in 1..(k + 1)
      OBVIOUS
    <3> QED
      BY <3>1, <3>2 DEF AllOf
  <2>7. Follows(R, AllOf(s, k), e, Item(x, R), AllOf(s, k + 1), x + 1)
    BY <2>3, <2>6, ItemsDiffer DEF Follows
  <2>8. KeptList(z, R, AllOf(s, k + 1), x + 1)
    <3> PICK item, S, S1, e1 : item = Item(x, R) /\ S = AllOf(s, k) /\ S1 = AllOf(s, k + 1) /\ e1 = x + 1
      OBVIOUS
    <3>1. KeptList(y, R, S, e) /\ item \in Items /\ Follows(R, S, e, item, S1, e1)
      BY <2>1, <2>5, <2>7
    <3>2. KeptList(AppendUniqueItem(y, item), R, S1, e1)
      BY <3>1, AppendFollowing
    <3> QED
      BY <2>4, <3>2
  <2>9. \A j \in 1..m : k + 1 < j => x + 1 <= s[j]
    <3> SUFFICES ASSUME NEW j \in 1..m, k + 1 < j PROVE x + 1 <= s[j]
      OBVIOUS
    <3>1. s[k + 1] < s[j] /\ s[j] \in Nat
      BY <2>2 DEF Increasing
    <3> QED
      BY <2>3, <3>1
  <2> QED
    BY <2>3, <2>8, <2>9 DEF P
<1>10. P(m)
  <2> HIDE DEF P
  <2> SUFFICES ASSUME m \in bad PROVE FALSE
    BY <1>3
  <2>1. PICK k \in bad : \A l \in bad : k <= l
    BY LeastNumber
  <2>2. k \in Nat /\ k # n /\ k <= m /\ n <= k
    BY <1>8, <2>1
  <2>3. k - 1 \in Nat /\ k - 1 < m /\ n <= k - 1 /\ (k - 1) + 1 = k /\ k - 1 \notin bad
    BY <1>3, <2>1, <2>2
  <2> QED
    BY <1>9, <2>1, <2>2, <2>3
<1>11. PICK e \in Nat : KeptList(f[m], R, AllOf(s, m), e) /\ e <= b1
  BY <1>10
<1> QED
  BY <1>1, <1>11, KeptLonger

\* Items of other ranks leave the events alone.
LEMMA OthersKeep ==
  ASSUME NEW items, NEW R \in 1..3, NEW S, NEW b \in Nat, KeptList(items, R, S, b),
         NEW new, NEW m \in Nat, Len(new) = m, \A k \in 1..m : new[k] \in Items /\ new[k].rank # R
  PROVE  KeptList(AppendUniqueItems(items, new), R, S, b)
<1>1. PICK f : Merging(f, items, new, m) /\ AppendUniqueItems(items, new) = f[m]
  BY MergeSteps
<1> DEFINE P(k) == KeptList(f[k], R, S, b)
           bad == {k \in Nat : k <= m /\ ~P(k)}
<1>2. P(0)
  BY <1>1 DEF Merging
<1>3. ASSUME NEW k \in Nat, k < m, P(k) PROVE P(k + 1)
  <2> PICK x, y, z : x = new[k + 1] /\ y = f[k] /\ z = f[k + 1]
    OBVIOUS
  <2>1. k + 1 \in 1..m /\ (k + 1) - 1 = k
    BY <1>3
  <2>2. x \in Items /\ Follows(R, S, b, x, S, b) /\ z = AppendUniqueItem(y, x)
    BY <1>1, <2>1 DEF Merging, Follows
  <2>3. KeptList(y, R, S, b)
    BY <1>3
  <2> HIDE DEF P
  <2>4. KeptList(z, R, S, b)
    BY <2>2, <2>3, AppendFollowing
  <2> QED
    BY <2>4 DEF P
<1>4. P(m)
  <2> HIDE DEF P
  <2> SUFFICES ASSUME m \in bad PROVE FALSE
    OBVIOUS
  <2>1. PICK k \in bad : \A l \in bad : k <= l
    BY LeastNumber
  <2>2. k \in Nat /\ k # 0 /\ k <= m
    BY <1>2, <2>1
  <2>3. k - 1 \in Nat /\ k - 1 < m /\ (k - 1) + 1 = k /\ k - 1 \notin bad
    BY <2>1, <2>2
  <2> QED
    BY <1>3, <2>1, <2>2, <2>3
<1> QED
  BY <1>1, <1>4

-----------------------------------------------------------------------------
(* The rows.                                                               *)

\* A queue of events posted up to n, in the order in which they were posted.
SortedQueue(q, n) ==
  /\ q \in Seq(Events)
  /\ \A i \in 1..Len(q) : q[i].id <= n
  /\ \A i, j \in 1..Len(q) : i < j => q[i].id < q[j].id

PlacesOf(q, type) == {i \in 1..Len(q) : q[i].type = type}

IdsOf(q, type) == {q[i].id : i \in PlacesOf(q, type)}

LEMMA EventItemsAre ==
  ASSUME NEW q, NEW n \in Nat, SortedQueue(q, n), NEW type, NEW R,
         NEW items, items = EventItems(q, type, R)
  PROVE  \E m \in Nat : \E s :
           Increasing(s, m) /\ AllOf(s, m) = IdsOf(q, type) /\ Len(items) = m /\ AreItems(items, s, R, m)
<1> PICK I, l : I = PlacesOf(q, type) /\ l = Len(q)
  OBVIOUS
<1>1. l \in Nat /\ I \in SUBSET (1..l) /\ DOMAIN q = 1..l /\ \A i \in 1..l : q[i].id \in Nat
  <2>1. \A i \in 1..l : q[i].id \in Nat
    BY EventIds DEF SortedQueue
  <2> QED
    BY <2>1 DEF SortedQueue, PlacesOf
<1> PICK es, m : es = Selected(q, I) /\ m = Cardinality(I)
  OBVIOUS
<1>2. m \in Nat /\ DOMAIN es = 1..m
  <2>1. Cardinality(I) \in 0..l /\ DOMAIN Selected(q, I) = 1..Cardinality(I)
    BY <1>1, SelectedElements
  <2> QED
    BY <1>1, <2>1
<1>3. \A k \in 1..m : \E i \in I : es[k] = q[i] /\ Counted(I, i) = k
  <2>1. \A k \in 1..Cardinality(I) : \E i \in I : Selected(q, I)[k] = q[i] /\ Counted(I, i) = k
    BY <1>1, SelectedCounts
  <2> QED
    BY <2>1
<1>4. \A i \in I : Counted(I, i) \in 1..m /\ es[Counted(I, i)] = q[i]
  BY <1>1, SelectedAt
<1>5. {i \in DOMAIN q : q[i].type = type} = I
  BY <1>1 DEF PlacesOf
<1>6. items = [i \in 1..m |-> [of |-> es[i].id, rank |-> R]]
  BY <1>2, <1>5 DEF EventItems
<1>7. Len(items) = m
  BY <1>2, <1>6
<1> DEFINE s == [k \in 1..m |-> es[k].id]
<1>8. AreItems(items, s, R, m)
  BY <1>6 DEF AreItems, Item
<1>9. \A k \in 1..m : s[k] = es[k].id
  OBVIOUS
<1> HIDE DEF s
<1>10. Increasing(s, m)
  <2>1. \A k \in 1..m : s[k] \in Nat
    BY <1>1, <1>3, <1>9
  <2>2. ASSUME NEW k \in 1..m, NEW j \in 1..m, k < j PROVE s[k] < s[j]
    <3>1. PICK x \in I : es[k] = q[x] /\ Counted(I, x) = k
      BY <1>3
    <3>2. PICK y \in I : es[j] = q[y] /\ Counted(I, y) = j
      BY <1>3
    <3>3. x < y
      <4> SUFFICES ASSUME ~(x < y) PROVE FALSE
        OBVIOUS
      <4>1. y <= x /\ \A i \in I : i \in Nat
        BY <1>1
      <4> DEFINE A == {i \in I : i <= y}
                 B == {i \in I : i <= x}
      <4>2. A \subseteq B /\ B \subseteq 1..l
        BY <1>1, <4>1
      <4>3. Cardinality(A) = j /\ Cardinality(B) = k
        BY <3>1, <3>2 DEF Counted
      <4> HIDE DEF A, B
      <4>4. IsFiniteSet(B)
        <5>1. IsFiniteSet(1..l)
          BY <1>1, FS_Interval
        <5> QED
          BY <4>2, <5>1, FS_Subset
      <4>5. Cardinality(A) <= Cardinality(B)
        BY <4>2, <4>4, FS_Subset
      <4> QED
        BY <1>2, <2>2, <4>3, <4>5
    <3>4. q[x].id < q[y].id
      BY <1>1, <3>3 DEF SortedQueue
    <3> QED
      BY <1>9, <3>1, <3>2, <3>4
  <2> QED
    BY <2>1, <2>2 DEF Increasing
<1>11. AllOf(s, m) = IdsOf(q, type)
  <2>1. \A k \in 1..m : s[k] \in IdsOf(q, type)
    BY <1>3, <1>9 DEF IdsOf
  <2>2. \A i \in I : q[i].id \in AllOf(s, m)
    BY <1>4, <1>9 DEF AllOf
  <2> QED
    BY <2>1, <2>2 DEF AllOf, IdsOf
<1> QED
  BY <1>2, <1>7, <1>8, <1>10, <1>11

\* Until it is compacted, a row's lists have what they should of the row's queue.
ListRow(row, n) ==
  /\ DOMAIN row = Fields /\ SortedQueue(row.queue, n)
  /\ ~row.compacted =>
       /\ KeptList(row.corrections, ObservedRank, IdsOf(row.queue, "correction"), n + 1)
       /\ KeptList(row.evidence, ReportedRank, IdsOf(row.queue, "supplement"), n + 1)

LEMMA QueueMerged ==
  ASSUME NEW q, NEW n \in Nat, SortedQueue(q, n), NEW type, NEW R \in 1..3,
         NEW b \in Nat, b <= n + 1, NEW items,
         KeptList(items, R, {y \in IdsOf(q, type) : y < b}, b)
  PROVE  KeptList(AppendUniqueItems(items, EventItems(q, type, R)), R, IdsOf(q, type), n + 1)
<1> PICK new : new = EventItems(q, type, R)
  OBVIOUS
<1>1. PICK m \in Nat : \E s :
        Increasing(s, m) /\ AllOf(s, m) = IdsOf(q, type) /\ Len(new) = m /\ AreItems(new, s, R, m)
  BY EventItemsAre
<1>2. PICK s : Increasing(s, m) /\ AllOf(s, m) = IdsOf(q, type) /\ Len(new) = m /\ AreItems(new, s, R, m)
  BY <1>1
<1>3. \A i \in 1..Len(q) : q[i].id \in Nat /\ q[i].id <= n
  BY EventIds DEF SortedQueue
<1>4. \A y \in IdsOf(q, type) : y < n + 1
  BY <1>3 DEF IdsOf, PlacesOf
<1>5. \A j \in 1..m : s[j] < n + 1
  BY <1>2, <1>4 DEF AllOf
<1>6. KeptList(items, R, {y \in AllOf(s, m) : y < b}, b)
  BY <1>2
<1>7. n + 1 \in Nat
  OBVIOUS
<1>8. KeptList(AppendUniqueItems(items, new), R, AllOf(s, m), n + 1)
  <2> PICK b1 : b1 = n + 1
    OBVIOUS
  <2>1. b1 \in Nat /\ b <= b1 /\ \A j \in 1..m : s[j] < b1
    BY <1>5, <1>7
  <2>2. KeptList(AppendUniqueItems(items, new), R, AllOf(s, m), b1)
    BY <1>2, <1>6, <2>1, MergeKeeps
  <2> QED
    BY <2>2
<1> QED
  BY <1>2, <1>8

LEMMA Ranks == ObservedRank \in 1..3 /\ ReportedRank \in 1..3 /\ ObservedRank # ReportedRank
               /\ DerivedRank # ReportedRank
BY DEF ObservedRank, ReportedRank, DerivedRank

\* A row of which the lists have what they should of the older events has it of all
\* once they are merged.
LEMMA RowMerged ==
  ASSUME NEW row, DOMAIN row = Fields, NEW n \in Nat, NEW q, row.queue = q, SortedQueue(q, n),
         NEW b \in Nat, b <= n + 1,
         ~row.compacted =>
           /\ KeptList(row.corrections, ObservedRank, {y \in IdsOf(q, "correction") : y < b}, b)
           /\ KeptList(row.evidence, ReportedRank, {y \in IdsOf(q, "supplement") : y < b}, b)
  PROVE  ListRow(MergeSessionEvents(row, q), n)
<1> PICK C, E : /\ C = AppendUniqueItems(row.corrections, EventItems(q, "correction", ObservedRank))
                /\ E = AppendUniqueItems(row.evidence, EventItems(q, "supplement", ReportedRank))
  OBVIOUS
<1> PICK new : new = [row EXCEPT !.corrections = C, !.evidence = E]
  OBVIOUS
<1>1. MergeSessionEvents(row, q) = new
  BY DEF MergeSessionEvents
<1>2. /\ DOMAIN new = Fields /\ new.queue = q /\ new.compacted = row.compacted
      /\ new.corrections = C /\ new.evidence = E
  BY DEF Fields
<1>3. ~row.compacted => /\ KeptList(C, ObservedRank, IdsOf(q, "correction"), n + 1)
                        /\ KeptList(E, ReportedRank, IdsOf(q, "supplement"), n + 1)
  BY QueueMerged, Ranks
<1>4. ListRow(new, n)
  BY <1>2, <1>3 DEF ListRow
<1> QED
  BY <1>1, <1>4

LEMMA LastOnes ==
  ASSUME NEW long \in Seq(Events)
  PROVE  \E g \in Nat :
           /\ LastEvents(long) \in Seq(Events)
           /\ Len(LastEvents(long)) + g = Len(long)
           /\ \A k \in 1..Len(LastEvents(long)) : LastEvents(long)[k] = long[g + k]
<1> DEFINE n == Len(long)
           last == LastEvents(long)
<1>1. n \in Nat /\ QueueLimit \in Nat \ {0}
  BY SessionMemoryAssumptions
<1>2. CASE n <= QueueLimit
  <2>1. last = long
    BY <1>2 DEF LastEvents, Newest
  <2>2. 0 \in Nat /\ Len(last) + 0 = n /\ \A k \in 1..Len(last) : last[k] = long[0 + k]
    BY <1>1, <2>1
  <2> QED
    BY <2>1, <2>2
<1>3. CASE ~(n <= QueueLimit)
  <2> DEFINE g == n - QueueLimit
  <2>1. last = SubSeq(long, g + 1, n)
    BY <1>3 DEF LastEvents, Newest
  <2>2. g \in Nat /\ n = g + QueueLimit
    BY <1>1, <1>3
  <2>3. last \in Seq(Events) /\ Len(last) = QueueLimit /\ \A k \in 1..QueueLimit : last[k] = long[g + k]
    BY <1>1, <2>1, <2>2
  <2> HIDE DEF g, last
  <2>4. Len(last) + g = n
    BY <1>1, <2>2, <2>3
  <2> QED
    BY <2>2, <2>3, <2>4 DEF last
<1> QED
  BY <1>2, <1>3

\* S is what is left of S0 when the oldest have been taken.
NewestOf(S, S0) == S \in SUBSET S0 /\ \A s \in S, y \in S0 : y > s => y \in S

OlderIds(q, type, b) == {y \in IdsOf(q, type) : y < b}

\* Of the older events of a type the queue loses the oldest.
LEMMA QueueGrows ==
  ASSUME NEW q, NEW n \in Nat, SortedQueue(q, n), NEW type \in EventTypes, NEW new,
         new = LastEvents(Append(q, [id |-> n + 1, type |-> type, consumed |-> FALSE]))
  PROVE  /\ SortedQueue(new, n + 1)
         /\ \A t : NewestOf(OlderIds(new, t, n + 1), IdsOf(q, t))
<1> PICK event : event = [id |-> n + 1, type |-> type, consumed |-> FALSE]
  OBVIOUS
<1>1. event \in Events /\ event.id = n + 1
  BY DEF Events
<1> PICK long, l : long = Append(q, event) /\ l = Len(q)
  OBVIOUS
<1>2. q \in Seq(Events) /\ l \in Nat /\ \A i \in 1..l : q[i].id \in Nat /\ q[i].id <= n
  BY EventIds DEF SortedQueue
<1>3. /\ long \in Seq(Events) /\ Len(long) = l + 1 /\ long[l + 1] = event
      /\ \A i \in 1..l : long[i] = q[i]
  BY <1>1, <1>2
<1>4. new = LastEvents(long)
  OBVIOUS
<1>5. PICK g \in Nat : /\ new \in Seq(Events) /\ Len(new) + g = l + 1
                       /\ \A k \in 1..Len(new) : new[k] = long[g + k]
  <2>1. \E g \in Nat :
           /\ LastEvents(long) \in Seq(Events)
           /\ Len(LastEvents(long)) + g = Len(long)
           /\ \A k \in 1..Len(LastEvents(long)) : LastEvents(long)[k] = long[g + k]
    BY <1>3, LastOnes
  <2>2. PICK g \in Nat :
           /\ LastEvents(long) \in Seq(Events)
           /\ Len(LastEvents(long)) + g = Len(long)
           /\ \A k \in 1..Len(LastEvents(long)) : LastEvents(long)[k] = long[g + k]
    BY <2>1, Zenon
  <2>3. /\ new \in Seq(Events)
        /\ Len(new) + g = Len(long)
        /\ \A k \in 1..Len(new) : new[k] = long[g + k]
    BY <1>4, <2>2, Zenon
  <2> QED
    BY <1>3, <2>3
<1> PICK c : c = Len(new)
  OBVIOUS
<1>6. c \in Nat /\ c + g = l + 1 /\ \A k \in 1..c : g + k \in 1..(l + 1) /\ (g + k \in 1..l \/ g + k = l + 1)
  <2>1. c \in Nat /\ c + g = l + 1
    BY <1>5
  <2>2. \A k \in 1..c : g + k \in 1..(l + 1) /\ (g + k \in 1..l \/ g + k = l + 1)
    <3> SUFFICES ASSUME NEW a \in Nat, NEW e \in Nat, NEW h \in Nat, a + h = e + 1, NEW k \in 1..a
                 PROVE  h + k \in 1..(e + 1) /\ (h + k \in 1..e \/ h + k = e + 1)
      BY <1>2, <2>1
    <3> QED
      OBVIOUS
  <2> QED
    BY <2>1, <2>2
<1>7. SortedQueue(new, n + 1)
  <2>1. \A i \in 1..(l + 1) : long[i].id <= n + 1
    <3>1. \A i \in 1..(l + 1) : i \in 1..l \/ i = l + 1
      BY <1>2
    <3> QED
      BY <1>1, <1>2, <1>3, <3>1
  <2>2. \A i, j \in 1..(l + 1) : i < j => long[i].id < long[j].id
    <3> SUFFICES ASSUME NEW i \in 1..(l + 1), NEW j \in 1..(l + 1), i < j
                 PROVE  long[i].id < long[j].id
      OBVIOUS
    <3>1. i \in 1..l /\ long[i] = q[i] /\ q[i].id \in Nat /\ q[i].id <= n
      BY <1>2, <1>3
    <3>2. CASE j = l + 1
      BY <1>1, <1>3, <3>1, <3>2
    <3>3. CASE j \in 1..l
      BY <1>2, <1>3, <3>1, <3>3 DEF SortedQueue
    <3> QED
      BY <1>2, <3>2, <3>3
  <2>3. \A i \in 1..c : new[i].id <= n + 1
    BY <1>5, <1>6, <2>1
  <2>4. ASSUME NEW i \in 1..c, NEW j \in 1..c, i < j PROVE new[i].id < new[j].id
    <3>1. g + i < g + j /\ g + i \in 1..(l + 1) /\ g + j \in 1..(l + 1)
      BY <1>6, <2>4
    <3>2. long[g + i].id < long[g + j].id
      BY <2>2, <3>1
    <3> QED
      BY <1>5, <3>2
  <2> QED
    BY <1>5, <2>3, <2>4 DEF SortedQueue
<1>8. ASSUME NEW t, NEW k \in PlacesOf(new, t), new[k].id < n + 1
      PROVE  k \in 1..c /\ g + k \in PlacesOf(q, t) /\ new[k] = q[g + k]
  <2>1. k \in 1..c /\ new[k].type = t
    BY DEF PlacesOf
  <2>2. new[k] = long[g + k] /\ (g + k \in 1..l \/ g + k = l + 1)
    BY <1>5, <1>6, <2>1
  <2>3. g + k \in 1..l
    BY <1>1, <1>3, <1>8, <2>2
  <2> QED
    BY <1>3, <2>1, <2>2, <2>3 DEF PlacesOf
<1>9. ASSUME NEW t, NEW k \in PlacesOf(new, t), new[k].id < n + 1,
             NEW j \in PlacesOf(q, t), q[j].id > new[k].id
      PROVE  \E i \in PlacesOf(new, t) : new[i].id = q[j].id
  <2>1. k \in 1..c /\ g + k \in 1..l /\ new[k] = q[g + k] /\ j \in 1..l /\ q[j].type = t
    BY <1>8, <1>9 DEF PlacesOf
  <2>2. q[g + k].id < q[j].id
    BY <1>2, <1>9, <2>1
  <2>3. ~(j < g + k) /\ j # g + k
    BY <1>2, <2>1, <2>2 DEF SortedQueue
  <2>4. j - g \in 1..c /\ g + (j - g) = j
    BY <1>6, <2>1, <2>3
  <2>5. new[j - g] = q[j]
    BY <1>3, <1>5, <2>1, <2>4, ZenonT(30)
  <2>6. j - g \in PlacesOf(new, t)
    BY <2>1, <2>4, <2>5 DEF PlacesOf
  <2> QED
    BY <2>5, <2>6
<1>10. ASSUME NEW t
       PROVE  NewestOf(OlderIds(new, t, n + 1), IdsOf(q, t))
  <2> DEFINE older == {y \in IdsOf(new, t) : y < n + 1}
  <2>1. older \subseteq IdsOf(q, t)
    <3> SUFFICES ASSUME NEW k \in PlacesOf(new, t), new[k].id < n + 1 PROVE new[k].id \in IdsOf(q, t)
      BY DEF IdsOf
    <3>1. g + k \in PlacesOf(q, t) /\ new[k] = q[g + k]
      BY <1>8
    <3> QED
      BY <3>1 DEF IdsOf
  <2>2. ASSUME NEW s \in older, NEW y \in IdsOf(q, t), y > s PROVE y \in older
    <3>1. PICK k \in PlacesOf(new, t) : new[k].id = s
      BY DEF IdsOf
    <3>2. PICK j \in PlacesOf(q, t) : q[j].id = y
      BY DEF IdsOf
    <3>3. \E i \in PlacesOf(new, t) : new[i].id = q[j].id
      BY <1>9, <2>2, <3>1, <3>2
    <3>4. y \in IdsOf(new, t)
      BY <3>2, <3>3 DEF IdsOf
    <3>5. y \in Nat /\ y <= n
      BY <1>2, <3>2 DEF PlacesOf
    <3> QED
      BY <3>4, <3>5
  <2> QED
    BY <2>1, <2>2 DEF NewestOf, OlderIds
<1> QED
  BY <1>7, <1>10

\* Queue, lists and compaction are the same.
SameLists(new, old) ==
  /\ DOMAIN new = Fields
  /\ new.queue = old.queue /\ new.corrections = old.corrections
  /\ new.evidence = old.evidence /\ new.compacted = old.compacted

LEMMA ListsTheSame ==
  ASSUME NEW row, NEW n, ListRow(row, n), NEW new, SameLists(new, row)
  PROVE  ListRow(new, n)
BY Zenon DEF ListRow, SameLists

LEMMA PendingLeavesLists ==
  ASSUME NEW row, DOMAIN row = Fields, NEW pending, NEW interrupt
  PROVE  /\ SameLists([row EXCEPT !.interrupt = interrupt], row)
         /\ SameLists(WithPending([row EXCEPT !.interrupt = interrupt], pending), row)
<1> PICK half : half = [row EXCEPT !.interrupt = interrupt]
  OBVIOUS
<1>1. SameLists(half, row)
  BY DEF SameLists, Fields
<1> PICK open : open = (pending = "clarification" \/ (pending # "none" /\ half.question))
  OBVIOUS
<1> PICK new : new = [half EXCEPT !.copy = pending, !.question = open]
  OBVIOUS
<1>2. WithPending(half, pending) = new
  BY DEF WithPending
<1>3. SameLists(new, half)
  BY <1>1 DEF SameLists, Fields
<1>4. SameLists(new, row)
  BY <1>1, <1>3, Zenon DEF SameLists
<1> QED
  BY <1>1, <1>2, <1>4

LEMMA ListsCompacted ==
  ASSUME NEW row, NEW n, ListRow(row, n), NEW new \in Compactions(row)
  PROVE  ListRow(new, n)
<1>1. DOMAIN row = Fields
  BY DEF ListRow
<1>2. CASE new = row
  BY <1>2
<1>3. CASE new = Compacted(row)
  <2> PICK C, E : /\ C = SelectCompactedItems(row.corrections, CompactedItems)
                  /\ E = SelectCompactedItems(row.evidence, CompactedItems)
    OBVIOUS
  <2>1. new = [row EXCEPT !.corrections = C, !.evidence = E, !.compacted = TRUE]
    BY <1>3 DEF Compacted
  <2>2. DOMAIN new = Fields /\ new.queue = row.queue /\ new.compacted
    BY <1>1, <2>1 DEF Fields
  <2> QED
    BY <2>2, Zenon DEF ListRow
<1> QED
  BY <1>2, <1>3 DEF Compactions

LEMMA SortedLonger ==
  ASSUME NEW q, NEW n \in Nat, SortedQueue(q, n)
  PROVE  SortedQueue(q, n + 1)
<1>1. \A i \in 1..Len(q) : q[i].id \in Nat /\ q[i].id <= n
  BY EventIds DEF SortedQueue
<1>2. \A i \in 1..Len(q) : q[i].id <= n + 1
  BY <1>1
<1> QED
  BY <1>2 DEF SortedQueue

LEMMA ListsLonger ==
  ASSUME NEW row, NEW n \in Nat, ListRow(row, n)
  PROVE  ListRow(row, n + 1)
<1>1. SortedQueue(row.queue, n + 1)
  BY SortedLonger DEF ListRow
<1> PICK b, b1 : b = n + 1 /\ b1 = (n + 1) + 1
  OBVIOUS
<1>2. b \in Nat /\ b1 \in Nat /\ b <= b1
  OBVIOUS
<1>3. ~row.compacted =>
        /\ KeptList(row.corrections, ObservedRank, IdsOf(row.queue, "correction"), b1)
        /\ KeptList(row.evidence, ReportedRank, IdsOf(row.queue, "supplement"), b1)
  BY <1>2, KeptLonger DEF ListRow
<1> QED
  BY <1>1, <1>3 DEF ListRow

LEMMA NothingKept ==
  ASSUME NEW R
  PROVE  KeptList(<<>>, R, {}, 0)
<1>1. <<>> \in Seq(Items) /\ Len(<<>>) = 0 /\ MaxItems \in Nat
  BY SessionMemoryAssumptions
<1>2. /\ OnceEach(<<>>) /\ InOrder(<<>>, R) /\ OfBelow(<<>>, R, 0)
      /\ SkipsNone(<<>>, R, {})
  BY <1>1 DEF OnceEach, InOrder, OfBelow, SkipsNone
<1>3. Below({}, 0) /\ GaveWay(<<>>, R, {})
  BY DEF Below, GaveWay
<1> QED
  BY <1>1, <1>2, <1>3 DEF KeptList

LEMMA NoneBelowZero ==
  ASSUME NEW S, \A y \in S : y \in Nat
  PROVE  {y \in S : y < 0} = {}
OBVIOUS

LEMMA ListsQueued ==
  ASSUME NEW row, NEW n \in Nat, ListRow(row, n), NEW type \in EventTypes, NEW reset \in BOOLEAN
  PROVE  ListRow(QueuedEvent(row, n + 1, type, reset), n + 1)
<1> PICK q : q = LastEvents(Append(row.queue, [id |-> n + 1, type |-> type, consumed |-> FALSE]))
  OBVIOUS
<1> PICK base : base = IF reset THEN ResetMemory(row) ELSE row
  OBVIOUS
<1> PICK half : half = [base EXCEPT !.queue = q]
  OBVIOUS
<1>1. QueuedEvent(row, n + 1, type, reset) = MergeSessionEvents(half, q)
  BY DEF QueuedEvent
<1>2. DOMAIN row = Fields /\ SortedQueue(row.queue, n)
  BY DEF ListRow
<1> PICK q0 : q0 = row.queue
  OBVIOUS
<1>2b. SortedQueue(q0, n) /\ q = LastEvents(Append(q0, [id |-> n + 1, type |-> type, consumed |-> FALSE]))
  BY <1>2
<1>3. SortedQueue(q, n + 1) /\ \A t : NewestOf(OlderIds(q, t, n + 1), IdsOf(q0, t))
  BY <1>2b, QueueGrows
<1> PICK m : m = n + 1
  OBVIOUS
<1>4. m \in Nat /\ m <= m + 1
  OBVIOUS
<1>5. SortedQueue(q, m)
  BY <1>3
<1>6. CASE ~reset
  <2>1. /\ DOMAIN half = Fields /\ half.queue = q /\ half.compacted = row.compacted
        /\ half.corrections = row.corrections /\ half.evidence = row.evidence
    BY <1>2, <1>6 DEF Fields
  <2>2. ASSUME NEW items, NEW R, NEW t, KeptList(items, R, IdsOf(row.queue, t), m)
        PROVE  KeptList(items, R, {y \in IdsOf(q, t) : y < m}, m)
    <3> PICK S, S1 : S = IdsOf(q0, t) /\ S1 = OlderIds(q, t, m)
      OBVIOUS
    <3>1. NewestOf(S1, S)
      BY <1>3
    <3>2. KeptList(items, R, S, m)
      BY <2>2
    <3>3. KeptList(items, R, S1, m)
      BY <3>1, <3>2, KeptFewer DEF NewestOf
    <3> QED
      BY <3>3 DEF OlderIds
  <2>3. ~half.compacted =>
          /\ KeptList(half.corrections, ObservedRank, {y \in IdsOf(q, "correction") : y < m}, m)
          /\ KeptList(half.evidence, ReportedRank, {y \in IdsOf(q, "supplement") : y < m}, m)
    BY <2>1, <2>2 DEF ListRow
  <2>4. ListRow(MergeSessionEvents(half, q), m)
    BY <1>4, <1>5, <2>1, <2>3, RowMerged
  <2> QED
    BY <1>1, <2>4
<1>7. CASE reset
  <2>1. base = [row EXCEPT !.copy = "none", !.question = FALSE, !.corrections = <<>>, !.evidence = <<>>, !.compacted = FALSE]
    BY <1>7 DEF ResetMemory
  <2>2. /\ DOMAIN half = Fields /\ half.queue = q
        /\ half.corrections = <<>> /\ half.evidence = <<>>
    BY <1>2, <2>1 DEF Fields
  <2>3. ASSUME NEW t
        PROVE  {y \in IdsOf(q, t) : y < 0} = {}
    <3>1. \A i \in 1..Len(q) : q[i].id \in Nat
      BY <1>5, EventIds DEF SortedQueue
    <3>2. \A y \in IdsOf(q, t) : y \in Nat
      BY <3>1 DEF IdsOf, PlacesOf
    <3> QED
      BY <3>2, NoneBelowZero
  <2>4. /\ KeptList(half.corrections, ObservedRank, {y \in IdsOf(q, "correction") : y < 0}, 0)
        /\ KeptList(half.evidence, ReportedRank, {y \in IdsOf(q, "supplement") : y < 0}, 0)
    BY <2>2, <2>3, NothingKept
  <2>5. 0 \in Nat /\ 0 <= m + 1
    BY <1>4
  <2>6. ListRow(MergeSessionEvents(half, q), m)
    BY <1>4, <1>5, <2>2, <2>4, <2>5, RowMerged
  <2> QED
    BY <1>1, <2>6
<1> QED
  BY <1>6, <1>7

LEMMA ListsConsumed ==
  ASSUME NEW row, NEW n \in Nat, ListRow(row, n), NEW id
  PROVE  ListRow(ConsumedEvent(row, id), n)
<1> PICK q : q = row.queue
  OBVIOUS
<1> PICK at : at = {i \in DOMAIN q : q[i].id = id /\ ~q[i].consumed}
  OBVIOUS
<1> PICK new : new = [i \in DOMAIN q |-> IF i \in at THEN [q[i] EXCEPT !.consumed = TRUE] ELSE q[i]]
  OBVIOUS
<1> PICK half : half = [row EXCEPT !.queue = new]
  OBVIOUS
<1>1. ConsumedEvent(row, id) = row \/ ConsumedEvent(row, id) = MergeSessionEvents(half, new)
  BY DEF ConsumedEvent
<1>2. DOMAIN row = Fields /\ SortedQueue(q, n)
  BY DEF ListRow
<1> PICK l : l = Len(q)
  OBVIOUS
<1>3. q \in Seq(Events) /\ l \in Nat /\ DOMAIN q = 1..l /\ \A i \in 1..l : q[i] \in Events
  BY <1>2 DEF SortedQueue
<1>4. \A i \in 1..l : new[i] \in Events /\ new[i].id = q[i].id /\ new[i].type = q[i].type
  <2>1. \A x \in Events : LET y == [x EXCEPT !.consumed = TRUE] IN
          y \in Events /\ y.id = x.id /\ y.type = x.type
    BY DEF Events
  <2> QED
    BY <1>3, <2>1
<1>5. new \in Seq(Events) /\ Len(new) = l
  <2> DEFINE value(i) == IF i \in at THEN [q[i] EXCEPT !.consumed = TRUE] ELSE q[i]
  <2>1. \A i \in 1..l : value(i) = new[i]
    BY <1>3
  <2>2. \A i \in 1..l : value(i) \in Events
    BY <1>4, <2>1
  <2>3. new = [i \in 1..l |-> value(i)]
    BY <1>3
  <2> HIDE DEF value
  <2>4. new \in [1..l -> Events]
    BY <2>2, <2>3
  <2> QED
    BY <1>3, <2>4
<1>6. SortedQueue(new, n)
  <2>1. \A i \in 1..l : q[i].id <= n
    BY <1>2 DEF SortedQueue
  <2>2. \A i, j \in 1..l : i < j => q[i].id < q[j].id
    BY <1>2 DEF SortedQueue
  <2> QED
    BY <1>4, <1>5, <2>1, <2>2 DEF SortedQueue
<1>7. \A t : IdsOf(new, t) = IdsOf(q, t)
  <2> SUFFICES ASSUME NEW t PROVE IdsOf(new, t) = IdsOf(q, t)
    OBVIOUS
  <2> PICK I : I = PlacesOf(q, t)
    OBVIOUS
  <2>1. PlacesOf(new, t) = I /\ I \subseteq 1..l
    BY <1>4, <1>5 DEF PlacesOf
  <2>2. \A i \in I : new[i].id = q[i].id
    BY <1>4, <2>1
  <2>3. {new[i].id : i \in I} = {q[i].id : i \in I}
    BY <2>2
  <2> QED
    BY <2>1, <2>3 DEF IdsOf
<1>8. /\ DOMAIN half = Fields /\ half.queue = new /\ half.compacted = row.compacted
      /\ half.corrections = row.corrections /\ half.evidence = row.evidence
  BY <1>2 DEF Fields
<1> PICK b : b = n + 1
  OBVIOUS
<1>9. b \in Nat /\ b <= n + 1
  OBVIOUS
<1>10. \A t : {y \in IdsOf(new, t) : y < b} = IdsOf(q, t)
  <2>1. \A i \in 1..l : q[i].id \in Nat /\ q[i].id <= n
    BY <1>2, EventIds DEF SortedQueue
  <2>2. \A t : \A y \in IdsOf(q, t) : y < b
    BY <2>1 DEF IdsOf, PlacesOf
  <2> QED
    BY <1>7, <2>2
<1>11. ~half.compacted =>
         /\ KeptList(half.corrections, ObservedRank, {y \in IdsOf(new, "correction") : y < b}, b)
         /\ KeptList(half.evidence, ReportedRank, {y \in IdsOf(new, "supplement") : y < b}, b)
  BY <1>8, <1>10 DEF ListRow
<1>12. ListRow(MergeSessionEvents(half, new), n)
  BY <1>6, <1>8, <1>9, <1>11, RowMerged
<1> QED
  BY <1>1, <1>12

\* What a run adds is no event.
LEMMA ListsUpdated ==
  ASSUME NEW row, NEW n \in Nat, ListRow(row, n), NEW id \in Nat, NEW items \in RunItems(id) \cup {<<>>}
  PROVE  ListRow(ApplyUpdates(row, items), n)
<1>1. DOMAIN row = Fields
  BY DEF ListRow
<1>2. \E m \in Nat : Len(items) = m /\ \A k \in 1..m : items[k] \in Items /\ items[k].rank # ReportedRank
  <2>1. CASE items = <<>>
    <3>1. Len(items) = 0
      BY <2>1
    <3> QED
      BY <3>1
  <2>2. CASE items # <<>>
    <3> PICK x, y : x = [of |-> id, rank |-> ObservedRank] /\ y = [of |-> id, rank |-> DerivedRank]
      OBVIOUS
    <3>1. x \in Items /\ y \in Items /\ x.rank # ReportedRank /\ y.rank # ReportedRank
      BY DEF Items, DerivedRank, ReportedRank, ObservedRank
    <3>2. items = <<x, y>>
      BY <2>2 DEF RunItems
    <3>3. Len(items) = 2 /\ items[1] = x /\ items[2] = y
      BY <3>2
    <3>4. \A k \in 1..2 : k = 1 \/ k = 2
      OBVIOUS
    <3> QED
      BY <3>1, <3>3, <3>4
  <2> QED
    BY <2>1, <2>2
<1> PICK E : E = AppendUniqueItems(row.evidence, items)
  OBVIOUS
<1> PICK new : new = [row EXCEPT !.evidence = E]
  OBVIOUS
<1>3. /\ DOMAIN new = Fields /\ new.queue = row.queue /\ new.corrections = row.corrections
      /\ new.evidence = E /\ new.compacted = row.compacted
  BY <1>1 DEF Fields
<1>4. ASSUME KeptList(row.evidence, ReportedRank, IdsOf(row.queue, "supplement"), n + 1)
      PROVE  KeptList(E, ReportedRank, IdsOf(row.queue, "supplement"), n + 1)
  <2> PICK S, b, list : S = IdsOf(row.queue, "supplement") /\ b = n + 1 /\ list = row.evidence
    OBVIOUS
  <2> PICK R : R = ReportedRank
    OBVIOUS
  <2>1. b \in Nat /\ R \in 1..3 /\ KeptList(list, R, S, b)
    BY <1>4, Ranks
  <2>2. PICK m \in Nat : Len(items) = m /\ \A k \in 1..m : items[k] \in Items /\ items[k].rank # R
    BY <1>2
  <2>3. KeptList(AppendUniqueItems(list, items), R, S, b)
    BY <2>1, <2>2, OthersKeep
  <2> QED
    BY <2>3
<1>5. ListRow(new, n)
  BY <1>3, <1>4, Zenon DEF ListRow
<1> QED
  BY <1>5 DEF ApplyUpdates

-----------------------------------------------------------------------------
(* The steps leave the row, and the rows that runs have read, with lists   *)
(* that have what they should.                                             *)

ListInv ==
  /\ posted \in Nat /\ turns \in Nat
  /\ ListRow(session, posted)
  /\ \A h \in Handlers : Reading(h) => ListRow(handler[h].seen, posted)

\* A request that has read a row had read it before, or reads the one the step leaves.
OnlyReadNow ==
  \A g \in Handlers : Reading(g)' =>
    \/ Reading(g) /\ handler'[g].seen = handler[g].seen
    \/ handler'[g].seen = session'

LEMMA ListsInStep ==
  ASSUME ListInv, posted' = posted \/ posted' = posted + 1, turns' = turns \/ turns' = turns + 1,
         ListRow(session', posted'), OnlyReadNow
  PROVE  ListInv'
<1>1. posted' \in Nat /\ turns' \in Nat
  BY DEF ListInv
<1>2. ASSUME NEW g \in Handlers, Reading(g)'
      PROVE  ListRow(handler'[g].seen, posted')
  <2> PICK n, row : n = posted /\ row = handler'[g].seen
    OBVIOUS
  <2>1. CASE row = session'
    BY <2>1
  <2>2. CASE Reading(g) /\ row = handler[g].seen
    <3>1. n \in Nat /\ ListRow(row, n)
      BY <2>2 DEF ListInv
    <3>2. ListRow(row, n + 1)
      BY <3>1, ListsLonger
    <3> QED
      BY <3>1, <3>2
  <2> QED
    BY <1>2, <2>1, <2>2 DEF OnlyReadNow
<1> QED
  BY <1>1, <1>2 DEF ListInv

LEMMA NoOtherReads ==
  ASSUME IInv, NEW h \in Handlers, NEW x, x.at \notin {"running", "approving"},
         handler' = [handler EXCEPT ![h] = x]
  PROVE  OnlyReadNow
BY DEF IInv, OnlyReadNow, Reading

LEMMA NoneReads ==
  ASSUME handler' = [g \in Handlers |-> NoHandler]
  PROVE  OnlyReadNow
BY DEF OnlyReadNow, Reading, NoHandler

LEMMA RestLists ==
  ASSUME IInv, NEW h \in Handlers, handler' = [handler EXCEPT ![h] = NoHandler]
  PROVE  OnlyReadNow
<1>1. NoHandler.at \notin {"running", "approving"}
  BY DEF NoHandler
<1> QED
  BY <1>1, NoOtherReads

LEMMA ReadsNow ==
  ASSUME IInv, NEW h \in Handlers, NEW at,
         handler' = [handler EXCEPT ![h].at = at, ![h].seen = session],
         session' = session
  PROVE  OnlyReadNow
<1> DEFINE x == [[handler[h] EXCEPT !.at = at] EXCEPT !.seen = session]
<1>1. DOMAIN handler = Handlers /\ DOMAIN handler[h] = {"at", "event", "seen"}
  BY DEF IInv
<1>2. x.seen = session
  BY <1>1
<1>3. handler'[h] = x /\ \A g \in Handlers : g # h => handler'[g] = handler[g]
  BY <1>1
<1> HIDE DEF x
<1>4. ASSUME NEW g \in Handlers, Reading(g)'
      PROVE  \/ Reading(g) /\ handler'[g].seen = handler[g].seen
             \/ handler'[g].seen = session'
  BY <1>2, <1>3, <1>4 DEF Reading
<1> QED
  BY <1>4 DEF OnlyReadNow

LEMMA RowLists ==
  ASSUME NEW row, NEW n, ListRow(row, n), NEW pending
  PROVE  /\ ListRow([row EXCEPT !.interrupt = pending], n)
         /\ ListRow(WithPending([row EXCEPT !.interrupt = pending], pending), n)
<1>1. DOMAIN row = Fields
  BY DEF ListRow
<1> QED
  BY <1>1, PendingLeavesLists, ListsTheSame

\* An event is queued behind a row with good lists.
LEMMA QueuedLists ==
  ASSUME IInv, ListInv, NEW h \in Handlers, NEW row, ListRow(row, posted),
         NEW type \in EventTypes, NEW reset \in BOOLEAN, QueueEvent(h, row, type, reset),
         turns' = turns + 1
  PROVE  ListInv'
<1> PICK n : n = posted
  OBVIOUS
<1> PICK new : new = QueuedEvent(row, n + 1, type, reset)
  OBVIOUS
<1>1. n \in Nat /\ ListRow(row, n)
  BY DEF ListInv
<1>2. posted' = n + 1 /\ session' \in Compactions(new)
  BY DEF QueueEvent
<1>3. ListRow(new, n + 1)
  BY <1>1, ListsQueued
<1> PICK m : m = n + 1
  OBVIOUS
<1>4. ListRow(session', m)
  <2>1. ListRow(new, m)
    BY <1>3
  <2> QED
    BY <1>2, <2>1, ListsCompacted
<1> DEFINE x == [NoHandler EXCEPT !.at = "queued", !.event = posted']
<1>5. x.at \notin {"running", "approving"}
  BY DEF NoHandler
<1>6. handler' = [handler EXCEPT ![h] = x]
  BY DEF QueueEvent
<1> HIDE DEF x
<1>7. OnlyReadNow
  BY <1>5, <1>6, NoOtherReads
<1>8. posted' = posted + 1 /\ ListRow(session', posted')
  BY <1>2, <1>4
<1> QED
  BY <1>7, <1>8, ListsInStep

LEMMA PostUserMessageLists ==
  ASSUME IInv, ListInv, NEW h \in Handlers, PostUserMessage(h)
  PROVE  ListInv'
<1> PICK type \in EventTypes, reset \in BOOLEAN :
      /\ TakeTurn(h)
      /\ LET row == IF session.interrupt = "none" THEN session
                    ELSE WithPending([session EXCEPT !.interrupt = "none"], "none")
         IN QueueEvent(h, row, type, reset)
  BY Zenon DEF PostUserMessage
<1> PICK row : row = IF session.interrupt = "none" THEN session
                     ELSE WithPending([session EXCEPT !.interrupt = "none"], "none")
  OBVIOUS
<1>1. ListRow(row, posted)
  BY RowLists DEF ListInv
<1>2. QueueEvent(h, row, type, reset) /\ turns' = turns + 1
  BY DEF TakeTurn
<1> QED
  BY <1>1, <1>2, QueuedLists

LEMMA DieSupersedingLists ==
  ASSUME IInv, ListInv, NEW h \in Handlers, DieSuperseding(h)
  PROVE  ListInv'
<1> PICK row, n : row = WithPending([session EXCEPT !.interrupt = "none"], "none") /\ n = posted
  OBVIOUS
<1>1. ListRow(row, n)
  BY RowLists DEF ListInv
<1>2. /\ session' \in Compactions(row) /\ handler' = [g \in Handlers |-> NoHandler]
      /\ posted' = posted /\ turns' = turns
  BY DEF DieSuperseding
<1>3. ListRow(session', n)
  BY <1>1, <1>2, ListsCompacted
<1>4. ListRow(session', posted')
  BY <1>2, <1>3
<1> QED
  BY <1>2, <1>4, NoneReads, ListsInStep

LEMMA ResumeConversationLists ==
  ASSUME IInv, ListInv, NEW h \in Handlers, ResumeConversation(h)
  PROVE  ListInv'
<1> PICK row, n : row = WithPending([session EXCEPT !.interrupt = "none"], "none") /\ n = posted
  OBVIOUS
<1>1. ListRow(row, n) /\ ListRow(session, posted)
  BY RowLists DEF ListInv
<1>2. turns' = turns + 1
  BY DEF ResumeConversation, TakeTurn
<1>3. CASE QueueEvent(h, row, "correction", FALSE)
  <2>1. "correction" \in EventTypes /\ FALSE \in BOOLEAN /\ ListRow(row, posted)
    BY <1>1 DEF EventTypes
  <2> QED
    BY <1>2, <1>3, <2>1, QueuedLists
<1>4. session' \in Compactions(row) => ListRow(session', n)
  BY <1>1, ListsCompacted
<1>5. CASE /\ session' \in Compactions(row)
           /\ handler' = [handler EXCEPT ![h] = [NoHandler EXCEPT !.at = "queued"]]
           /\ UNCHANGED <<posted, overlapped>>
  <2> DEFINE x == [NoHandler EXCEPT !.at = "queued"]
  <2>1. x.at \notin {"running", "approving"}
    BY DEF NoHandler
  <2>2. handler' = [handler EXCEPT ![h] = x]
    BY <1>5
  <2> HIDE DEF x
  <2>3. OnlyReadNow
    BY <2>1, <2>2, NoOtherReads
  <2>4. posted' = posted /\ ListRow(session', posted')
    BY <1>4, <1>5
  <2> QED
    BY <1>2, <2>3, <2>4, ListsInStep
<1>6. CASE session' \in Compactions(row) /\ UNCHANGED <<handler, posted, overlapped>>
  <2>1. OnlyReadNow
    BY <1>6 DEF OnlyReadNow, Reading
  <2>2. posted' = posted /\ ListRow(session', posted')
    BY <1>4, <1>6
  <2> QED
    BY <1>2, <2>1, <2>2, ListsInStep
<1>7. CASE /\ handler' = [handler EXCEPT ![h].at = "approving", ![h].seen = session]
           /\ UNCHANGED <<session, posted, overlapped>>
  <2>1. OnlyReadNow
    BY <1>7, ReadsNow
  <2>2. posted' = posted /\ ListRow(session', posted')
    BY <1>1, <1>7
  <2> QED
    BY <1>2, <2>1, <2>2, ListsInStep
<1> QED
  BY <1>3, <1>5, <1>6, <1>7 DEF ResumeConversation

LEMMA LoadSessionLists ==
  ASSUME IInv, ListInv, NEW h \in Handlers, LoadSession(h)
  PROVE  ListInv'
<1>1. /\ handler' = [handler EXCEPT ![h].at = "running", ![h].seen = session]
      /\ UNCHANGED <<session, turns, posted>>
  BY DEF LoadSession
<1>2. OnlyReadNow
  BY <1>1, ReadsNow
<1>3. ListRow(session', posted')
  BY <1>1 DEF ListInv
<1> QED
  BY <1>1, <1>2, <1>3, ListsInStep

\* Every row a run writes has good lists when the row it read has.
LEMMA RunRowsLists ==
  ASSUME NEW h, NEW pending, NEW id \in Nat, NEW items \in RunItems(id) \cup {<<>>},
         NEW writes \in 1..4, NEW n \in Nat, ListRow(handler[h].seen, n)
  PROVE  ListRow(RowAfter(h, pending, items, writes), n)
<1> PICK seen, row1, row2, row3, row4 :
      /\ seen = handler[h].seen
      /\ row1 = RunMemory(seen, items, pending)
      /\ row2 = [ApplyUpdates(row1, items) EXCEPT !.interrupt = "none"]
      /\ row3 = IF pending = "clarification" THEN row1 ELSE ThirdWrite(row2, pending)
      /\ row4 = IF handler[h].event = 0 THEN row3 ELSE ConsumedEvent(row3, handler[h].event)
  BY Zenon
<1>1. ListRow(row1, n)
  <2> PICK half : half = WithPending([seen EXCEPT !.interrupt = pending], pending)
    OBVIOUS
  <2>1. ListRow(half, n)
    BY RowLists
  <2>2. ListRow(ApplyUpdates(half, items), n)
    BY <2>1, ListsUpdated
  <2> QED
    BY <2>2 DEF RunMemory
<1>2. ListRow(row2, n)
  <2> PICK half : half = ApplyUpdates(row1, items)
    OBVIOUS
  <2>1. ListRow(half, n)
    BY <1>1, ListsUpdated
  <2> QED
    BY <2>1, RowLists
<1>3. ListRow(row3, n)
  <2>1. CASE pending = "clarification"
    BY <1>1, <2>1
  <2>2. CASE pending # "clarification"
    <3>1. row3 = [row2 EXCEPT !.interrupt = pending]
      BY <2>2 DEF ThirdWrite
    <3>2. ListRow([row2 EXCEPT !.interrupt = pending], n)
      BY <1>2, RowLists
    <3> QED
      BY <3>1, <3>2, Zenon
  <2> QED
    BY <2>1, <2>2
<1>4. ListRow(row4, n)
  <2> PICK event : event = handler[h].event
    OBVIOUS
  <2>1. ListRow(ConsumedEvent(row3, event), n)
    BY <1>3, ListsConsumed
  <2> QED
    BY <1>3, <2>1
<1> PICK row : row = IF writes = 1 THEN row1 ELSE IF writes = 2 THEN row2
                     ELSE IF writes = 3 THEN row3 ELSE row4
  OBVIOUS
<1>5. RowAfter(h, pending, items, writes) = row
  BY Zenon DEF RowAfter
<1> QED
  BY <1>1, <1>2, <1>3, <1>4, <1>5

LEMMA FinishRunLists ==
  ASSUME IInv, ListInv, NEW h \in Handlers, FinishRun(h)
  PROVE  ListInv'
<1>1. PICK pending \in Interrupts :
        \E items \in IF pending = "clarification" THEN {<<>>} ELSE RunItems(turns) :
          \E writes \in IF pending = "clarification" THEN {1, 4} ELSE 1..4 :
            /\ handler[h].at = "running"
            /\ session' \in Compactions(RowAfter(h, pending, items, writes))
            /\ handler' = IF writes < 4 THEN [g \in Handlers |-> NoHandler]
                          ELSE [handler EXCEPT ![h] = NoHandler]
            /\ UNCHANGED <<turns, posted, overlapped, runFailures>>
  BY Zenon DEF FinishRun
<1>2. PICK items \in IF pending = "clarification" THEN {<<>>} ELSE RunItems(turns) :
        \E writes \in IF pending = "clarification" THEN {1, 4} ELSE 1..4 :
            /\ handler[h].at = "running"
            /\ session' \in Compactions(RowAfter(h, pending, items, writes))
            /\ handler' = IF writes < 4 THEN [g \in Handlers |-> NoHandler]
                          ELSE [handler EXCEPT ![h] = NoHandler]
            /\ UNCHANGED <<turns, posted, overlapped, runFailures>>
  BY <1>1, Zenon
<1>3. PICK writes \in IF pending = "clarification" THEN {1, 4} ELSE 1..4 :
            /\ handler[h].at = "running"
            /\ session' \in Compactions(RowAfter(h, pending, items, writes))
            /\ handler' = IF writes < 4 THEN [g \in Handlers |-> NoHandler]
                          ELSE [handler EXCEPT ![h] = NoHandler]
            /\ UNCHANGED <<turns, posted, overlapped, runFailures>>
  BY <1>2, Zenon
<1> PICK n, id, row : n = posted /\ id = turns /\ row = RowAfter(h, pending, items, writes)
  OBVIOUS
<1>4. n \in Nat /\ id \in Nat /\ ListRow(handler[h].seen, n)
  BY <1>3 DEF ListInv, Reading
<1>5. items \in RunItems(id) \cup {<<>>} /\ writes \in 1..4
  BY <1>2, <1>3
<1>6. ListRow(row, n)
  BY <1>4, <1>5, RunRowsLists
<1>7. ListRow(session', n)
  BY <1>3, <1>6, ListsCompacted
<1>8. OnlyReadNow
  BY <1>3, NoneReads, RestLists
<1>9. posted' = posted /\ turns' = turns /\ ListRow(session', posted')
  BY <1>3, <1>7
<1> QED
  BY <1>8, <1>9, ListsInStep

LEMMA FailRunLists ==
  ASSUME IInv, ListInv, NEW h \in Handlers, FailRun(h)
  PROVE  ListInv'
<1>1. /\ session' = [session EXCEPT !.interrupt = "none"]
      /\ handler' = [handler EXCEPT ![h] = NoHandler]
      /\ posted' = posted /\ turns' = turns
  BY DEF FailRun
<1>2. ListRow(session', posted')
  BY <1>1, RowLists DEF ListInv
<1> QED
  BY <1>1, <1>2, RestLists, ListsInStep

LEMMA FinishApprovalLists ==
  ASSUME IInv, ListInv, NEW h \in Handlers, FinishApproval(h)
  PROVE  ListInv'
<1>1. PICK pending \in {"none", "feedback"} :
        /\ handler[h].at = "approving"
        /\ session' \in Compactions(WithPending([handler[h].seen EXCEPT !.interrupt = pending], pending))
        /\ handler' = [handler EXCEPT ![h] = NoHandler]
        /\ posted' = posted /\ turns' = turns
  BY Zenon DEF FinishApproval
<1> PICK n, seen : n = posted /\ seen = handler[h].seen
  OBVIOUS
<1> PICK row : row = WithPending([seen EXCEPT !.interrupt = pending], pending)
  OBVIOUS
<1>2. ListRow(seen, n)
  BY <1>1 DEF ListInv, Reading
<1>3. ListRow(row, n)
  BY <1>2, RowLists
<1>4. ListRow(session', n)
  BY <1>1, <1>3, ListsCompacted
<1>5. ListRow(session', posted')
  BY <1>1, <1>4
<1> QED
  BY <1>1, <1>5, RestLists, ListsInStep

LEMMA ListsInit == SessionMemoryInit => ListInv
<1> SUFFICES ASSUME SessionMemoryInit PROVE ListInv
  OBVIOUS
<1>1. /\ session = NewSessionRow /\ posted = 0 /\ turns = 0
      /\ handler = [h \in Handlers |-> NoHandler]
  BY DEF SessionMemoryInit
<1>2. /\ DOMAIN session = Fields /\ session.queue = <<>>
      /\ session.corrections = <<>> /\ session.evidence = <<>>
  BY <1>1 DEF NewSessionRow, Fields
<1>3. SortedQueue(<<>>, 0)
  BY DEF SortedQueue
<1>4. ASSUME NEW t PROVE IdsOf(<<>>, t) = {}
  BY DEF IdsOf, PlacesOf
<1>5. ASSUME NEW R PROVE KeptList(<<>>, R, {}, 0 + 1)
  <2> PICK b : b = 0 + 1
    OBVIOUS
  <2>1. b \in Nat /\ 0 <= b
    OBVIOUS
  <2>2. KeptList(<<>>, R, {}, b)
    BY <2>1, NothingKept, KeptLonger
  <2> QED
    BY <2>2
<1>6. ListRow(session, 0)
  BY <1>2, <1>3, <1>4, <1>5 DEF ListRow
<1>7. \A h \in Handlers : ~Reading(h)
  BY <1>1 DEF Reading, NoHandler
<1> QED
  BY <1>1, <1>6, <1>7 DEF ListInv

LEMMA ListsStep ==
  ASSUME IInv, ListInv, [SessionMemoryNext]_sessionMemoryVars
  PROVE  ListInv'
<1>1. CASE UNCHANGED sessionMemoryVars
  BY <1>1 DEF ListInv, Reading, sessionMemoryVars
<1>2. CASE SessionMemoryNext
  <2>1. PICK h \in Handlers :
          \/ PostUserMessage(h) \/ DieSuperseding(h) \/ ResumeConversation(h) \/ LoadSession(h)
          \/ FinishRun(h) \/ FailRun(h) \/ FinishApproval(h)
    BY <1>2 DEF SessionMemoryNext
  <2> QED
    BY <2>1, PostUserMessageLists, DieSupersedingLists, ResumeConversationLists, LoadSessionLists,
       FinishRunLists, FailRunLists, FinishApprovalLists
<1> QED
  BY <1>1, <1>2

-----------------------------------------------------------------------------
(* What lists that have what they should are worth.                        *)

LEMMA NoneShares ==
  ASSUME NEW S, IsFiniteSet(S), NEW T, IsFiniteSet(T), NEW f \in [S -> T],
         \A x, y \in S : f[x] = f[y] => x = y
  PROVE  ~(Cardinality(T) < Cardinality(S))
<1> SUFFICES ASSUME Cardinality(T) < Cardinality(S) PROVE FALSE
  OBVIOUS
<1>1. \E x, y \in S : x # y /\ f[x] = f[y]
  BY FS_PigeonHole
<1> QED
  BY <1>1

\* An event of the corrections that is not remembered is older than MaxItems that are
\* and that the queue still has.
LEMMA ListsRemember == ListInv => CorrectionsRemembered
<1> SUFFICES ASSUME ListInv, ~session.compacted,
                    NEW i \in DOMAIN session.queue, session.queue[i].type # "supplement",
                    session.queue[i].id \notin
                      {session.corrections[k].of : k \in DOMAIN session.corrections}
             PROVE  ~(Cardinality({j \in (i + 1)..Len(session.queue) :
                                     session.queue[j].type # "supplement"}) < MaxItems)
  BY DEF CorrectionsRemembered
<1> PICK q, C, S, R, l, newer :
      /\ q = session.queue /\ C = session.corrections
      /\ S = IdsOf(q, "correction") /\ R = ObservedRank /\ l = Len(q)
      /\ newer = {j \in (i + 1)..l : q[j].type # "supplement"}
  OBVIOUS
<1>1. \E n \in Nat : SortedQueue(q, n) /\ KeptList(C, R, S, n + 1)
  BY DEF ListInv, ListRow
<1>2. /\ q \in Seq(Events) /\ l \in Nat /\ DOMAIN q = 1..l /\ i \in 1..l
      /\ \A j \in 1..l : q[j].id \in Nat /\ q[j] \in Events
      /\ \A j, k \in 1..l : j < k => q[j].id < q[k].id
  BY <1>1, EventIds DEF SortedQueue
<1>3. \A j \in 1..l : q[j].type = "correction" <=> q[j].type # "supplement"
  <2>1. \A x \in Events : x.type = "correction" <=> x.type # "supplement"
    BY DEF Events, EventTypes
  <2> QED
    BY <1>2, <2>1
<1> PICK s : s = q[i].id
  OBVIOUS
<1>4. s \in S /\ s \in Nat
  BY <1>2, <1>3 DEF IdsOf, PlacesOf
<1>5. /\ C \in Seq(Items) /\ OnceEach(C) /\ SkipsNone(C, R, S) /\ GaveWay(C, R, S)
      /\ DOMAIN C = 1..Len(C)
  BY <1>1 DEF KeptList
<1>6. ~Among(Item(s, R), C)
  <2> SUFFICES ASSUME NEW k \in 1..Len(C), C[k] = Item(s, R) PROVE FALSE
    BY <1>5 DEF Among
  <2>1. C[k].of = s
    BY DEF Item
  <2> QED
    BY <1>5, <2>1
<1>7. /\ Len(C) = MaxItems
      /\ \A k \in 1..MaxItems : Better(C[k], s, R)
  BY <1>4, <1>5, <1>6 DEF GaveWay
<1>8. \A k \in 1..MaxItems : C[k].rank = R /\ C[k].of > s /\ C[k] = Item(C[k].of, R)
  <2> TAKE k \in 1..MaxItems
  <2>1. C[k] \in Items /\ Better(C[k], s, R)
    BY <1>5, <1>7
  <2>2. C[k].rank \in 1..3 /\ C[k].of \in Nat /\ C[k] = Item(C[k].of, C[k].rank)
    BY <2>1, RanksOfItems
  <2>3. R = 3
    BY DEF ObservedRank
  <2>4. C[k].rank = R
    BY <2>1, <2>2, <2>3 DEF Better
  <2> QED
    BY <2>1, <2>2, <2>3, <2>4 DEF Better
<1>9. ASSUME NEW k \in 1..MaxItems
      PROVE  \E j \in newer : q[j].id = C[k].of
  <2>1. C[k].of \in S
    BY <1>4, <1>5, <1>7, <1>8 DEF SkipsNone
  <2>2. PICK j \in 1..l : q[j].type = "correction" /\ q[j].id = C[k].of
    BY <2>1 DEF IdsOf, PlacesOf
  <2>3. q[i].id < q[j].id
    BY <1>2, <1>4, <1>8, <2>2
  <2>4. j > i
    <3> SUFFICES ASSUME j <= i PROVE FALSE
      BY <1>2
    <3>1. CASE j = i
      BY <1>2, <2>3, <3>1
    <3>2. CASE j < i
      <4>1. q[j].id < q[i].id
        BY <1>2, <3>2
      <4> QED
        BY <1>2, <2>3, <4>1
    <3> QED
      BY <1>2, <3>1, <3>2
  <2>5. j \in newer
    BY <1>2, <1>3, <2>2, <2>4
  <2> QED
    BY <2>2, <2>5
<1>10. PICK f \in [1..MaxItems -> newer] : \A k \in 1..MaxItems : q[f[k]].id = C[k].of
  <2> DEFINE f == [k \in 1..MaxItems |-> CHOOSE j \in newer : q[j].id = C[k].of]
  <2>1. \A k \in 1..MaxItems : f[k] \in newer /\ q[f[k]].id = C[k].of
    BY <1>9
  <2>2. f \in [1..MaxItems -> newer]
    BY <2>1
  <2> QED
    BY <2>1, <2>2
<1>11. \A k, m \in 1..MaxItems : f[k] = f[m] => k = m
  <2> SUFFICES ASSUME NEW k \in 1..MaxItems, NEW m \in 1..MaxItems, f[k] = f[m] PROVE k = m
    OBVIOUS
  <2>1. C[k].of = C[m].of
    BY <1>10
  <2>2. C[k] = C[m]
    BY <1>8, <2>1
  <2> QED
    BY <1>5, <1>7, <2>2 DEF OnceEach
<1>12. IsFiniteSet(newer)
  <2>1. IsFiniteSet(1..l)
    BY <1>2, FS_Interval
  <2>2. newer \in SUBSET (1..l)
    BY <1>2
  <2> QED
    BY <2>1, <2>2, FS_Subset
<1>13. IsFiniteSet(1..MaxItems) /\ Cardinality(1..MaxItems) = MaxItems
  BY SessionMemoryAssumptions, FS_Interval
<1>14. ~(Cardinality(newer) < Cardinality(1..MaxItems))
  <2> PICK D : D = 1..MaxItems
    OBVIOUS
  <2>1. /\ IsFiniteSet(D) /\ f \in [D -> newer]
        /\ \A x, y \in D : f[x] = f[y] => x = y
    BY <1>10, <1>11, <1>13
  <2>2. ~(Cardinality(newer) < Cardinality(D))
    BY <1>12, <2>1, NoneShares
  <2> QED
    BY <2>2
<1> QED
  BY <1>13, <1>14

LEMMA ListsYield == ListInv => SupplementsYieldToBetter
<1> SUFFICES ASSUME ListInv, ~session.compacted,
                    NEW i \in DOMAIN session.queue, session.queue[i].type = "supplement",
                    ~Among([of |-> session.queue[i].id, rank |-> ReportedRank], session.evidence),
                    NEW k \in DOMAIN session.evidence
             PROVE  \/ session.evidence[k].rank = ObservedRank
                    \/ /\ session.evidence[k].rank = ReportedRank
                       /\ session.evidence[k].of > session.queue[i].id
  BY Zenon DEF SupplementsYieldToBetter
<1> PICK q, E, S, R, s :
      /\ q = session.queue /\ E = session.evidence
      /\ S = IdsOf(q, "supplement") /\ R = ReportedRank /\ s = q[i].id
  OBVIOUS
<1>1. \E n \in Nat : SortedQueue(q, n) /\ KeptList(E, R, S, n + 1)
  BY DEF ListInv, ListRow
<1>2. q \in Seq(Events) /\ DOMAIN q = 1..Len(q) /\ E \in Seq(Items) /\ DOMAIN E = 1..Len(E)
  BY <1>1 DEF SortedQueue, KeptList
<1>3. s \in S
  BY <1>2 DEF IdsOf, PlacesOf
<1>4. ~Among(Item(s, R), E)
  BY Zenon DEF Item
<1>5. Better(E[k], s, R)
  BY <1>1, <1>2, <1>3, <1>4 DEF KeptList, GaveWay
<1>6. E[k].rank \in 1..3
  BY <1>2, RanksOfItems
<1> QED
  BY <1>5, <1>6 DEF Better, ReportedRank, ObservedRank

LEMMA ListsAlways == SessionMemorySpec => []ListInv
<1>1. SessionMemoryInit => ListInv
  BY ListsInit
<1>2. IInv /\ ListInv /\ [SessionMemoryNext]_sessionMemoryVars => ListInv'
  BY ListsStep
<1> QED
  BY <1>1, <1>2, InvAlways, PTL DEF SessionMemorySpec

\* As long as the memory is not compacted, a correction that is still queued is in it,
\* unless MaxItems newer ones are queued behind it: resets and runs that write back the
\* row they read change nothing of that.
THEOREM CorrectionsStay == SessionMemorySpec => []CorrectionsRemembered
BY ListsAlways, ListsRemember, PTL

\* What a memory that is not compacted lacks of the supplements still queued gave way to
\* observations or newer messages of the user, never to what a model concluded.
THEOREM SupplementsOnlyYield == SessionMemorySpec => []SupplementsYieldToBetter
BY ListsAlways, ListsYield, PTL

=============================================================================
