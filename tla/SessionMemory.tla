---------------------------- MODULE SessionMemory ----------------------------
(***************************************************************************)
(* What a session remembers between its turns: the queue of user events    *)
(* and the working memory in conversation_session.session_memory_json,     *)
(* beside the pending interrupt that the row itself names.                 *)
(*                                                                         *)
(* Every write replaces the whole JSON with what its handler made of the   *)
(* row it read; a run reads the row before its graph and writes it after.  *)
(* A memory item is the turn it comes from and the rank its source type    *)
(* gives it; confidences differ by less than the ranks do.  Facts, focus   *)
(* and summary texts are left out.                                         *)
(***************************************************************************)
EXTENDS Naturals, Sequences, FiniteSets, Subsequences

CONSTANTS
  Handlers,                 \* requests served at once
  QueueLimit,               \* 20 in the code
  MaxItems,                 \* limit of a memory list, 12 in the code
  CompactedItems,           \* its limit in a compaction, 8 in the code
  MaxTurns, MaxFailures, MaxMemoryDeaths   \* bounds

ASSUME SessionMemoryAssumptions ==
  /\ {QueueLimit, MaxItems, CompactedItems} \subseteq Nat \ {0}
  /\ CompactedItems <= MaxItems
  /\ {MaxTurns, MaxFailures, MaxMemoryDeaths} \subseteq Nat

VARIABLES
  session,      \* the conversation_session row
  handler,      \* what each request is doing
  turns,        \* requests taken so far
  posted,       \* events queued so far
  overlapped,   \* history: events queued while a run had already read the row
  runFailures, memoryDeaths

sessionMemoryVars == <<session, handler, turns, posted, overlapped, runFailures, memoryDeaths>>

Interrupts == {"none", "approval", "clarification", "feedback"}

\* interrupt is pending_interrupt_id, copy the working memory's own account of it.
NewSessionRow ==
  [interrupt |-> "none", copy |-> "none", question |-> FALSE,
   queue |-> <<>>, corrections |-> <<>>, evidence |-> <<>>, compacted |-> FALSE]

NoHandler == [at |-> "idle", event |-> 0, seen |-> NewSessionRow]

\* _classify_user_message_event.  A new issue is remembered as a correction is, and like
\* a topic shift of either it starts the memory anew.
EventTypes == {"supplement", "correction"}

\* Ranks of _SOURCE_TYPE_PRIORITY: a diagnosis text, what the user reports, what a tool
\* or the user's correction says.
DerivedRank == 1
ReportedRank == 2
ObservedRank == 3

-----------------------------------------------------------------------------
(* working_memory.py                                                       *)

Newest(items, n) == IF Len(items) <= n THEN items ELSE SubSeq(items, Len(items) - n + 1, Len(items))

SelectMemoryItems_Newest(items, n) == Newest(items, n)

\* The n of highest rank, the newer of equal ones, in the order they stand.
SelectMemoryItems(items, n) ==
  LET outranks(i, j) == items[i].rank > items[j].rank \/ (items[i].rank = items[j].rank /\ i > j)
      kept == {i \in DOMAIN items : Cardinality({j \in DOMAIN items : outranks(j, i)}) < n}
  IN IF Len(items) <= n THEN items
     ELSE Selected(items, kept)

Among(item, items) == \E i \in DOMAIN items : items[i] = item

AppendUniqueItem_Full(items, item) ==
  IF Among(item, items) \/ Len(items) = MaxItems THEN items ELSE Append(items, item)

\* An item that is there is left as it is; a new one may be dropped at once.
AppendUniqueItem(items, item) ==
  IF Among(item, items) THEN items ELSE SelectMemoryItems(Append(items, item), MaxItems)

\* One after the other.
AppendUniqueItems(items, new) ==
  LET after[k \in 0..Len(new)] ==
        IF k = 0 THEN items ELSE AppendUniqueItem(after[k - 1], new[k])
  IN after[Len(new)]

\* The events of one type as memory items.
EventItems(queue, type, rank) ==
  LET es == Selected(queue, {i \in DOMAIN queue : queue[i].type = type})
  IN [i \in DOMAIN es |-> [of |-> es[i].id, rank |-> rank]]

\* The whole queue is merged each time it is written.
MergeSessionEvents(memory, queue) ==
  [memory EXCEPT
     !.corrections = AppendUniqueItems(@, EventItems(queue, "correction", ObservedRank)),
     !.evidence    = AppendUniqueItems(@, EventItems(queue, "supplement", ReportedRank))]

Protected(item) == item.rank = ObservedRank

\* The protected items come first, then those selected as ever.
SelectCompactedItems(items, n) ==
  LET first == Selected(items, {i \in DOMAIN items : Protected(items[i])})
      best == SelectMemoryItems(items, n)
      others == Selected(best, {i \in DOMAIN best : ~Among(best[i], first)})
  IN SelectMemoryItems(first \o others, n)

\* Whether the memory is over its budgets is left open.  Bound: it is compacted once
\* between two resets.
Compacted(memory) ==
  [memory EXCEPT !.corrections = SelectCompactedItems(@, CompactedItems),
                 !.evidence    = SelectCompactedItems(@, CompactedItems),
                 !.compacted   = TRUE]

Compactions(memory) == {memory, IF memory.compacted THEN memory ELSE Compacted(memory)}

\* pending_interrupt given as none empties the open questions unless something else is awaited.
WithPending(memory, pending) ==
  [memory EXCEPT !.copy = pending,
                 !.question = pending = "clarification" \/ (pending # "none" /\ @)]

ResetMemory(memory) ==
  [memory EXCEPT !.copy = "none", !.question = FALSE,
                 !.corrections = <<>>, !.evidence = <<>>, !.compacted = FALSE]

\* The evidence and the observations a run adds.
ApplyUpdates(memory, items) == [memory EXCEPT !.evidence = AppendUniqueItems(@, items)]

-----------------------------------------------------------------------------
(* The event queue.                                                        *)

LastEvents(queue) == Newest(queue, QueueLimit)

\* A reset starts the working memory anew, and the queue brings its events back.
QueuedEvent(row, id, type, reset) ==
  LET queue == LastEvents(Append(row.queue, [id |-> id, type |-> type, consumed |-> FALSE]))
      base == IF reset THEN ResetMemory(row) ELSE row
  IN MergeSessionEvents([base EXCEPT !.queue = queue], queue)

Running == {h \in Handlers : handler[h].at \in {"running", "approving"}}

QueueEvent(h, row, type, reset) ==
  /\ posted' = posted + 1
  /\ overlapped' = IF Running = {} THEN overlapped ELSE overlapped \cup {posted'}
  /\ session' \in Compactions(QueuedEvent(row, posted', type, reset))
  /\ handler' = [handler EXCEPT ![h] = [NoHandler EXCEPT !.at = "queued", !.event = posted']]

ConsumedEvent_Removed(row, id) == [row EXCEPT !.queue = Selected(@, {i \in DOMAIN @ : @[i].id # id})]

\* Written again only when the event is still in the queue and not consumed.
ConsumedEvent(row, id) ==
  LET at == {i \in DOMAIN row.queue : row.queue[i].id = id /\ ~row.queue[i].consumed}
      queue == [i \in DOMAIN row.queue |->
                  IF i \in at THEN [row.queue[i] EXCEPT !.consumed = TRUE] ELSE row.queue[i]]
  IN IF at = {} THEN row ELSE MergeSessionEvents([row EXCEPT !.queue = queue], queue)

-----------------------------------------------------------------------------
(* Requests.                                                               *)

SessionMemoryInit ==
  /\ session = NewSessionRow
  /\ handler = [h \in Handlers |-> NoHandler]
  /\ turns = 0 /\ posted = 0 /\ overlapped = {}
  /\ runFailures = 0 /\ memoryDeaths = 0

Idle(h) == handler[h].at = "idle"

TakeTurn(h) == Idle(h) /\ turns < MaxTurns /\ turns' = turns + 1

\* A pending approval or feedback is superseded first, in a commit of its own; a pending
\* clarification refuses the message.
PostUserMessage(h) ==
  \E type \in EventTypes, reset \in BOOLEAN :
    /\ TakeTurn(h)
    /\ session.interrupt # "clarification"
    /\ LET row == IF session.interrupt = "none" THEN session
                  ELSE WithPending([session EXCEPT !.interrupt = "none"], "none")
       IN QueueEvent(h, row, type, reset)
    /\ UNCHANGED <<runFailures, memoryDeaths>>

\* A death after the first of those commits.
DieSuperseding(h) ==
  /\ Idle(h) /\ session.interrupt \in {"approval", "feedback"}
  /\ memoryDeaths < MaxMemoryDeaths
  /\ memoryDeaths' = memoryDeaths + 1
  /\ session' \in Compactions(WithPending([session EXCEPT !.interrupt = "none"], "none"))
  /\ handler' = [g \in Handlers |-> NoHandler]
  /\ UNCHANGED <<turns, posted, overlapped, runFailures>>

\* The answer to a clarification, or a negative feedback that says something new, starts a
\* run; the feedback queues an event first.  A positive feedback just ends the session.
ResumeConversation(h) ==
  /\ TakeTurn(h)
  /\ LET row == WithPending([session EXCEPT !.interrupt = "none"], "none")
     IN \/ /\ session.interrupt = "clarification"
           /\ session' \in Compactions(row)
           /\ handler' = [handler EXCEPT ![h] = [NoHandler EXCEPT !.at = "queued"]]
           /\ UNCHANGED <<posted, overlapped>>
        \/ /\ session.interrupt = "feedback"
           /\ QueueEvent(h, row, "correction", FALSE)
        \/ /\ session.interrupt = "feedback"
           /\ session' \in Compactions(row)
           /\ UNCHANGED <<handler, posted, overlapped>>
        \/ /\ session.interrupt = "approval"
           /\ handler' = [handler EXCEPT ![h].at = "approving", ![h].seen = session]
           /\ UNCHANGED <<session, posted, overlapped>>
  /\ UNCHANGED <<runFailures, memoryDeaths>>

\* The row the run will build on, read after the retrieval and before the graph.
LoadSession(h) ==
  /\ handler[h].at = "queued"
  /\ handler' = [handler EXCEPT ![h].at = "running", ![h].seen = session]
  /\ UNCHANGED <<session, turns, posted, overlapped, runFailures, memoryDeaths>>

RunItems(id) ==
  {<<>>, <<[of |-> id, rank |-> ObservedRank], [of |-> id, rank |-> DerivedRank]>>}

\* The memory a run makes of the row it read.
RunMemory(row, items, pending) ==
  ApplyUpdates(WithPending([row EXCEPT !.interrupt = pending], pending), items)

ThirdWrite_Forgotten(row, pending) == row

\* The row names the interrupt again once the checkpoint is there.
ThirdWrite(row, pending) == [row EXCEPT !.interrupt = pending]

\* The row after that many writes of a run: the run's result, the memory once more
\* without approval and interrupt, the row with both, and the event marked.  A run that
\* awaits clarification makes the first and the last only.
RowAfter(h, pending, items, writes) ==
  LET row1 == RunMemory(handler[h].seen, items, pending)
      row2 == [ApplyUpdates(row1, items) EXCEPT !.interrupt = "none"]
      row3 == IF pending = "clarification" THEN row1 ELSE ThirdWrite(row2, pending)
      row4 == IF handler[h].event = 0 THEN row3 ELSE ConsumedEvent(row3, handler[h].event)
  IN IF writes = 1 THEN row1 ELSE IF writes = 2 THEN row2 ELSE IF writes = 3 THEN row3 ELSE row4

\* A process that dies has made the first 1 to 3 of the writes.
FinishRun(h) ==
  \E pending \in Interrupts :
    \E items \in IF pending = "clarification" THEN {<<>>} ELSE RunItems(turns) :
      \E writes \in IF pending = "clarification" THEN {1, 4} ELSE 1..4 :
        /\ handler[h].at = "running"
        /\ writes < 4 => memoryDeaths < MaxMemoryDeaths
        /\ memoryDeaths' = IF writes < 4 THEN memoryDeaths + 1 ELSE memoryDeaths
        /\ session' \in Compactions(RowAfter(h, pending, items, writes))
        /\ handler' = IF writes < 4 THEN [g \in Handlers |-> NoHandler]
                      ELSE [handler EXCEPT ![h] = NoHandler]
        /\ UNCHANGED <<turns, posted, overlapped, runFailures>>

\* An exception in the graph: the row names no interrupt, its memory is left alone.
FailRun(h) ==
  /\ handler[h].at = "running"
  /\ runFailures < MaxFailures
  /\ runFailures' = runFailures + 1
  /\ session' = [session EXCEPT !.interrupt = "none"]
  /\ handler' = [handler EXCEPT ![h] = NoHandler]
  /\ UNCHANGED <<turns, posted, overlapped, memoryDeaths>>

\* The execution of an approved action is over, or its approval was refused.
FinishApproval(h) ==
  \E pending \in {"none", "feedback"} :
    /\ handler[h].at = "approving"
    /\ session' \in Compactions(WithPending([handler[h].seen EXCEPT !.interrupt = pending], pending))
    /\ handler' = [handler EXCEPT ![h] = NoHandler]
    /\ UNCHANGED <<turns, posted, overlapped, runFailures, memoryDeaths>>

SessionMemoryNext ==
  \E h \in Handlers :
    \/ PostUserMessage(h) \/ DieSuperseding(h) \/ ResumeConversation(h) \/ LoadSession(h)
    \/ FinishRun(h) \/ FailRun(h) \/ FinishApproval(h)

SessionMemorySpec == SessionMemoryInit /\ [][SessionMemoryNext]_sessionMemoryVars

-----------------------------------------------------------------------------
(* Properties.                                                             *)

Queued == {session.queue[i].id : i \in DOMAIN session.queue}

\* A user event leaves the queue only behind QueueLimit newer ones, or because a run
\* that had read the row before wrote it back: the writes and the deaths of one request
\* alone lose nothing of what the user said.
EventsLostOnlyToOverlap ==
  \A e \in 1..posted : e \in Queued \/ e \in overlapped \/ posted - e >= QueueLimit

\* The corrections still queued are in the working memory, the newest first to stay,
\* across resets for a new topic and runs that write the row back.  A compaction ends
\* that: the queue then brings older events back behind newer ones.
CorrectionsRemembered ==
  ~session.compacted =>
    \A i \in DOMAIN session.queue :
      LET newer == {j \in (i + 1)..Len(session.queue) : session.queue[j].type # "supplement"}
      IN session.queue[i].type # "supplement" /\ Cardinality(newer) < MaxItems
           => session.queue[i].id \in {session.corrections[k].of : k \in DOMAIN session.corrections}

\* What the user added and memory dropped gave way to observations or to newer messages
\* of the user only, never to what a model concluded.
SupplementsYieldToBetter ==
  ~session.compacted =>
    \A i \in DOMAIN session.queue :
      LET e == session.queue[i] IN
      e.type = "supplement" /\ ~Among([of |-> e.id, rank |-> ReportedRank], session.evidence)
        => \A k \in DOMAIN session.evidence :
             session.evidence[k].rank = ObservedRank
             \/ (session.evidence[k].rank = ReportedRank /\ session.evidence[k].of > e.id)

\* The interrupt a row names is the one its memory knows, and memory speaks of another
\* one only after a death or a failed run; a question stays open only while something is
\* awaited.
InterruptCopiesAgree ==
  /\ session.interrupt # "none" => session.copy = session.interrupt
  /\ session.copy # session.interrupt => memoryDeaths > 0 \/ runFailures > 0
  /\ session.question => session.copy # "none"

=============================================================================
