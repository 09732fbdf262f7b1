------------------------------ MODULE Conversation ------------------------------
(***************************************************************************)
(* One conversation of the IT-ticket agent: the session row, its           *)
(* interrupts and approvals, its checkpoints, and the HTTP calls that work *)
(* on it.                                                                  *)
(*                                                                         *)
(* All handlers run on one event loop, so a call is atomic from one await  *)
(* to the next.  The awaits that matter are the retrieval of knowledge     *)
(* ("rag"), the generation of guidance next to a clarification question    *)
(* ("guide"), the diagnosis graph ("loop" until the gate has run, "commit" *)
(* until the orchestrator has its result back), the approval graph of the  *)
(* older endpoint ("ingest") and the execution of an action ("exec").      *)
(* Between two of them any other call may run, and the process may die.    *)
(*                                                                         *)
(* The diagnosis itself is abstracted to what comes out of it: no action,  *)
(* a registered action of high or low risk, a proposal that the gate       *)
(* rejects, or an exception.  Only the rule-based loop proposes actions;   *)
(* with an LLM configured every round ends without one.                    *)
(***************************************************************************)
EXTENDS Naturals, Sequences, FiniteSets

CONSTANTS
  HighRisk, LowRisk,     \* registered actions, by the risk the policy gives them
  MaxCalls,              \* bound: HTTP calls accepted
  MaxApprovals,          \* bound: approval requests created
  MaxInterrupts,         \* bound: interrupts created
  MaxInFlight,           \* bound: calls in progress at the same time
  MaxCrashes,            \* bound: process crashes
  ReuseTicketId,         \* may a client create the conversation again
  DecisionApi            \* are /approvals/{id}/decision, expire, cancel in use

ASSUME ConversationAssumptions ==
  /\ {MaxCalls, MaxApprovals, MaxInterrupts, MaxInFlight, MaxCrashes} \subseteq Nat
  /\ HighRisk \cap LowRisk = {}
  /\ {"none", "no_action"} \cap (HighRisk \cup LowRisk) = {}
  /\ {ReuseTicketId, DecisionApi} \subseteq BOOLEAN

VARIABLES
  session,      \* the conversation_session row
  interrupts,   \* interrupt_request rows
  approvals,    \* approval_request_v2 rows
  snapshot,     \* state_snapshot of the newest execution_checkpoint row
  calls,        \* the HTTP calls, with the incident state each works on
  executions,   \* history: the action each call handed to an external system
  crashes

store == <<session, interrupts, approvals, snapshot>>
vars  == <<session, interrupts, approvals, snapshot, calls, executions, crashes>>

Actions      == HighRisk \cup LowRisk
CallIds      == 1..MaxCalls
ApprovalIds  == 1..MaxApprovals
InterruptIds == 1..MaxInterrupts
NoId         == 0
AutoApproved == 0               \* the approval_id "auto-approved"

-----------------------------------------------------------------------------
(* IncidentState, cut down to what steers the control flow: the call whose *)
(* message it is about, approved_actions, metadata.feedback_interrupt, the *)
(* primary of ranked_result, and whether metadata.approval_request names   *)
(* an action (the gate's payload does, the one of a resume does not).      *)

ApprovedAction == [ap : ApprovalIds \cup {AutoApproved}, act : Actions]
Primaries      == Actions \cup {"none", "no_action"}

IncidentStates ==
  [about : CallIds, approved : Seq(ApprovedAction),
   feedback : InterruptIds \cup {NoId}, primary : Primaries, asked : BOOLEAN]

\* build_initial_incident_state
FreshState(c) ==
  [about |-> c, approved |-> <<>>, feedback |-> NoId, primary |-> "none", asked |-> FALSE]

NoState == [about |-> NoId]

\* The loop assigns ranked_result and the gate metadata.approval_request.
Ranked(st, p, asked) == [st EXCEPT !.primary = p, !.asked = asked]

\* apply_approved_actions_to_state: the entries already there come first, and
\* an entry with the same approval, proposal and action is replaced in place.
Approve(st, ap, act) ==
  LET item == [ap |-> ap, act |-> act]
  IN  IF \E i \in DOMAIN st.approved : st.approved[i] = item THEN st
      ELSE [st EXCEPT !.approved = Append(@, item)]

\* _feedback_reopen_policy: is there an action to disagree with.
CanRejectReopen(st) ==
  /\ st.primary # "none"
  /\ st.primary \in Actions \/ st.approved # <<>> \/ st.asked

-----------------------------------------------------------------------------
Interrupt(kind, ap, about) ==
  [status |-> "pending", kind |-> kind, approval |-> ap, about |-> about]

NoInterrupt == [status |-> "absent", kind |-> "none", approval |-> NoId, about |-> NoId]
NoApproval  == [status |-> "absent", act |-> "none"]
NoSession   == [status |-> "absent", pending |-> NoId, istate |-> NoState, ckpt |-> NoState]

NoExecution == [ap |-> NoId, act |-> "none"]

\* A call: how far it is, what it was accepted as, the incident state and the
\* checkpoint it holds, the interrupt and the approval it is about.
Call(pc, kind, st, ckpt, wait, ap) ==
  [pc |-> pc, kind |-> kind, st |-> st, ckpt |-> ckpt, wait |-> wait,
   approval |-> ap, result |-> "none"]

IdleCall == Call("unused", "none", NoState, NoState, NoId, NoId)

InFlight == {c \in CallIds : calls[c].pc \notin {"unused", "done", "lost"}}

\* Ids are handed out by uuid4; here an unused row stands for a fresh one.
HasRoom(table, unused) == \E k \in DOMAIN table : table[k] = unused
NewId(table, unused)   == CHOOSE k \in DOMAIN table : table[k] = unused

CanAccept == HasRoom(calls, IdleCall) /\ Cardinality(InFlight) < MaxInFlight
NewCall   == NewId(calls, IdleCall)

ResolvedInterrupt(i, to) == [interrupts EXCEPT ![i].status = to]
ResolvedApproval(a, to)  == [approvals EXCEPT ![a].status = to]
Finished(c)              == [calls EXCEPT ![c].pc = "done"]

\* Seeded bug: the approval store does not look at the status it overwrites.
ApprovalOpen_AnyStatus(a) == a \in ApprovalIds /\ approvals[a].status # "absent"

\* InterruptStore and ApprovalStore raise unless the row is pending.
InterruptOpen(i) == i \in InterruptIds /\ interrupts[i].status = "pending"
ApprovalOpen(a)  == a \in ApprovalIds /\ approvals[a].status = "pending"

\* _create_feedback_interrupt: the interrupt already in the metadata is used
\* again, whatever has become of it since.
NeedsFeedback(st) == CanRejectReopen(st) /\ st.feedback = NoId

AskFeedback(st) ==
  IF NeedsFeedback(st)
  THEN [st EXCEPT !.feedback = NewId(interrupts, NoInterrupt)] ELSE st

InterruptsAfterFeedback(st) ==
  IF NeedsFeedback(st)
  THEN [interrupts EXCEPT ![NewId(interrupts, NoInterrupt)] =
          Interrupt("feedback", NoId, st.about)]
  ELSE interrupts

RoomForFeedback(st) == NeedsFeedback(st) => HasRoom(interrupts, NoInterrupt)

\* _restore_incident_state_for_session: the session's last checkpoint, else
\* the newest one of the conversation, else the row's own state.
RestoredState ==
  IF session.ckpt # NoState THEN session.ckpt
  ELSE IF snapshot # NoState THEN snapshot
  ELSE session.istate

-----------------------------------------------------------------------------
Init ==
  /\ session    = NoSession
  /\ interrupts = [i \in InterruptIds |-> NoInterrupt]
  /\ approvals  = [a \in ApprovalIds |-> NoApproval]
  /\ snapshot   = NoState
  /\ calls      = [c \in CallIds |-> IdleCall]
  /\ executions = [c \in CallIds |-> NoExecution]
  /\ crashes    = 0

(* Accepting work.  A call that will diagnose st first resolves its slots: *)
(* with everything known it retrieves knowledge, with something missing it *)
(* generates guidance for the clarification question.                      *)

Accepted(kind, st, ckpt, pc) ==
  [calls EXCEPT ![NewCall] = Call(pc, kind, st, ckpt, NoId, NoId)]

NewSession(st) == [status |-> "active", pending |-> NoId, istate |-> st, ckpt |-> NoState]

\* POST /conversations, /tickets.  With slots missing the row is written (or
\* replaced) at once, otherwise only after the retrieval, in Retrieved.
Start ==
  /\ CanAccept
  /\ session = NoSession \/ ReuseTicketId
  /\ LET st == FreshState(NewCall)
     IN \/ /\ calls' = Accepted("start", st, NoState, "rag")
           /\ UNCHANGED session
        \/ /\ calls' = Accepted("start", st, NoState, "guide")
           /\ session' = NewSession(st)
  /\ UNCHANGED <<interrupts, approvals, snapshot, executions, crashes>>

Reactivated(st) ==
  [session EXCEPT !.status = "active", !.pending = NoId, !.istate = st]

\* The part of post_message and of a resume that _run_ticket_message does
\* before its first await.
BeginRound(kind, st) ==
  \E pc \in {"rag", "guide"} : calls' = Accepted(kind, st, session.ckpt, pc)

\* Seeded bug: only an interrupt that is still open counts as pending.
PostMessage_IgnoresAnswered ==
  /\ CanAccept
  /\ session # NoSession /\ ~InterruptOpen(session.pending)
  /\ BeginRound("message", FreshState(NewCall))
  /\ UNCHANGED <<store, executions, crashes>>

\* POST /conversations/{id}/messages with nothing to supersede.
PostMessage ==
  /\ CanAccept
  /\ session # NoSession /\ session.pending = NoId
  /\ BeginRound("message", FreshState(NewCall))
  /\ UNCHANGED <<store, executions, crashes>>

\* Seeded bug: the approval of the superseded interrupt is left pending.
PostMessageSuperseding_KeepsApproval ==
  /\ CanAccept
  /\ session # NoSession /\ InterruptOpen(session.pending)
  /\ interrupts[session.pending].kind \in {"approval", "feedback"}
  /\ interrupts' = ResolvedInterrupt(session.pending, "cancelled")
  /\ session' = Reactivated(session.istate)
  /\ BeginRound("message", FreshState(NewCall))
  /\ UNCHANGED <<approvals, snapshot, executions, crashes>>

\* _supersede_pending_interrupt_for_new_message.  A clarification is never
\* superseded; for an approval the request is cancelled first, and the call
\* is refused when that, or cancelling the interrupt, raises.
PostMessageSuperseding ==
  /\ CanAccept
  /\ session # NoSession /\ InterruptOpen(session.pending)
  /\ LET i == session.pending
         a == interrupts[i].approval
     IN /\ interrupts[i].kind \in {"approval", "feedback"}
        /\ IF interrupts[i].kind = "approval"
           THEN ApprovalOpen(a) /\ approvals' = ResolvedApproval(a, "cancelled")
           ELSE UNCHANGED approvals
        /\ interrupts' = ResolvedInterrupt(i, "cancelled")
  /\ session' = Reactivated(session.istate)
  /\ BeginRound("message", FreshState(NewCall))
  /\ UNCHANGED <<snapshot, executions, crashes>>

-----------------------------------------------------------------------------
(* The rounds of _run_ticket_message, await by await.                      *)

\* _retrieve_rag_context has returned.
Retrieved(c) ==
  /\ calls[c].pc = "rag"
  /\ session' = IF calls[c].kind = "start" THEN NewSession(calls[c].st) ELSE session
  /\ calls' = [calls EXCEPT ![c].pc = "loop"]
  /\ UNCHANGED <<interrupts, approvals, snapshot, executions, crashes>>

\* _build_generic_guidance has returned: the question is recorded and the row
\* points at it.  Its checkpoint is the one read before the await.
AskClarification(c) ==
  /\ calls[c].pc = "guide"
  /\ HasRoom(interrupts, NoInterrupt)
  /\ LET i == NewId(interrupts, NoInterrupt)
     IN /\ interrupts' = [interrupts EXCEPT ![i] =
                            Interrupt("clarification", NoId, calls[c].st.about)]
        /\ session' = [status |-> "awaiting_clarification", pending |-> i,
                       istate |-> calls[c].st, ckpt |-> calls[c].ckpt]
  /\ calls' = Finished(c)
  /\ UNCHANGED <<approvals, snapshot, executions, crashes>>

\* The graph ends without an action: finalize may ask for feedback.
EndRound(c, st) ==
  /\ RoomForFeedback(st)
  /\ interrupts' = InterruptsAfterFeedback(st)
  /\ calls' = [calls EXCEPT ![c].pc = "commit", ![c].st = AskFeedback(st),
                            ![c].result = "completed"]
  /\ UNCHANGED <<session, approvals, snapshot, executions, crashes>>

\* The direct-answer route leaves ranked_result alone.  The resume of a
\* clarification is never routed there.
DirectAnswer(c) ==
  /\ calls[c].pc = "loop"
  /\ calls[c].kind # "clarify"
  /\ EndRound(c, calls[c].st)

\* The rule-based loop ranks a primary cause without a recommended action.
DiagnoseOnly(c) ==
  /\ calls[c].pc = "loop"
  /\ EndRound(c, [calls[c].st EXCEPT !.primary = "no_action"])

\* A high-risk proposal: approval_gate creates the request and its interrupt.
RequestApproval(c) ==
  /\ calls[c].pc = "loop"
  /\ HasRoom(interrupts, NoInterrupt) /\ HasRoom(approvals, NoApproval)
  /\ \E act \in HighRisk :
       LET a  == NewId(approvals, NoApproval)
           i  == NewId(interrupts, NoInterrupt)
           st == Ranked(calls[c].st, act, TRUE)
       IN /\ approvals' = [approvals EXCEPT ![a] = [status |-> "pending", act |-> act]]
          /\ interrupts' = [interrupts EXCEPT ![i] = Interrupt("approval", a, st.about)]
          /\ calls' = [calls EXCEPT ![c].pc = "commit", ![c].st = st, ![c].wait = i,
                                    ![c].result = "awaiting_approval"]
  /\ UNCHANGED <<session, snapshot, executions, crashes>>

\* The action is handed to the external system.
Execute(c, ap, act) ==
  executions' = [executions EXCEPT ![c] = [ap |-> ap, act |-> act]]

\* execute: whatever was approved last, the first approved action is run.
ExecuteFirst(c, st) == Execute(c, st.approved[1].ap, st.approved[1].act)

\* Seeded bug: the policy approves whatever is registered.
AutoApprove_AnyRisk(c) ==
  /\ calls[c].pc = "loop"
  /\ \E act \in Actions :
       LET st == Approve(Ranked(calls[c].st, act, FALSE), AutoApproved, act)
       IN /\ calls' = [calls EXCEPT ![c].pc = "exec", ![c].st = st]
          /\ ExecuteFirst(c, st)
  /\ UNCHANGED <<store, crashes>>

\* A low-risk proposal is approved by the policy and executed at once.
AutoApprove(c) ==
  /\ calls[c].pc = "loop"
  /\ \E act \in LowRisk :
       LET st == Approve(Ranked(calls[c].st, act, FALSE), AutoApproved, act)
       IN /\ calls' = [calls EXCEPT ![c].pc = "exec", ![c].st = st]
          /\ ExecuteFirst(c, st)
  /\ UNCHANGED <<store, crashes>>

\* The gate rejects the proposal.  Actions approved in an earlier round still
\* lead to the execute node; without one the removed hypothesis graph raises.
RejectProposal(c) ==
  /\ calls[c].pc = "loop"
  /\ \E act \in Actions :
       LET st == Ranked(calls[c].st, act, FALSE)
       IN /\ st.approved # <<>>
          /\ calls' = [calls EXCEPT ![c].pc = "exec", ![c].st = st]
          /\ ExecuteFirst(c, st)
  /\ UNCHANGED <<store, crashes>>

\* Seeded bug: the exception is passed on without touching the row.
FailRound_OnlyRaises(c) ==
  /\ calls[c].pc = "loop"
  /\ calls' = Finished(c)
  /\ UNCHANGED <<store, executions, crashes>>

\* An exception in the graph: update_session_status drops the row's pending
\* interrupt and its checkpoint.
FailRound(c) ==
  /\ calls[c].pc = "loop"
  /\ session' = [session EXCEPT !.status = "failed", !.pending = NoId, !.ckpt = NoState]
  /\ calls' = Finished(c)
  /\ UNCHANGED <<interrupts, approvals, snapshot, executions, crashes>>

-----------------------------------------------------------------------------
(* The execution has returned, or raised.                                  *)

\* Seeded bug: a status of the executor that the session does not know.
Outcomes_WithTimeout == {"completed", "failed", "timeout"}

Outcomes == {"completed", "failed"}

\* The last writes of a run: the row, with the interrupt it now waits for,
\* and a checkpoint it points at.
Conclude(status, pending, st) ==
  /\ session' = [status |-> status, pending |-> pending, istate |-> st, ckpt |-> st]
  /\ snapshot' = st

\* In the diagnosis graph.  The execute node asks for feedback either way.
ExecutionReturned(c) ==
  /\ calls[c].pc = "exec" /\ calls[c].kind \notin {"approve", "decide"}
  /\ RoomForFeedback(calls[c].st)
  /\ \E result \in Outcomes :
       calls' = [calls EXCEPT ![c].pc = "commit", ![c].result = result,
                              ![c].st = AskFeedback(@)]
  /\ interrupts' = InterruptsAfterFeedback(calls[c].st)
  /\ UNCHANGED <<session, approvals, snapshot, executions, crashes>>

\* Seeded bug: the result of the execution is returned, but not recorded.
ApprovedExecutionReturned_Unrecorded(c) ==
  /\ calls[c].pc = "exec" /\ calls[c].kind = "approve"
  /\ calls' = Finished(c)
  /\ UNCHANGED <<store, executions, crashes>>

\* In the resume of an approval, which concludes without another await.
ApprovedExecutionReturned(c) ==
  /\ calls[c].pc = "exec" /\ calls[c].kind = "approve"
  /\ RoomForFeedback(calls[c].st)
  /\ LET st == AskFeedback(calls[c].st)
     IN \E result \in Outcomes : Conclude(result, st.feedback, st)
  /\ interrupts' = InterruptsAfterFeedback(calls[c].st)
  /\ calls' = Finished(c)
  /\ UNCHANGED <<approvals, executions, crashes>>

\* In the approval graph, which asks for no feedback.
DecidedExecutionReturned(c) ==
  /\ calls[c].pc = "exec" /\ calls[c].kind = "decide"
  /\ \E result \in Outcomes :
       calls' = [calls EXCEPT ![c].pc = "commit", ![c].result = result]
  /\ UNCHANGED <<store, executions, crashes>>

\* The graph's result is back in the orchestrator.  After a diagnosis every
\* status but awaiting_approval is recorded as completed, and the interrupt
\* named by the state's metadata is attached as it was when it was created.
Commit(c) ==
  /\ calls[c].pc = "commit"
  /\ LET st == calls[c].st
     IN \/ /\ calls[c].result = "awaiting_approval"
           /\ Conclude("awaiting_approval", calls[c].wait, st)
        \/ /\ calls[c].result \in Outcomes
           /\ Conclude(IF calls[c].kind = "decide" THEN calls[c].result ELSE "completed",
                       st.feedback, st)
  /\ calls' = Finished(c)
  /\ UNCHANGED <<interrupts, approvals, executions, crashes>>

-----------------------------------------------------------------------------
(* POST /conversations/{id}/resume, for the interrupt the row points at.   *)

Waiting(kind) == /\ session # NoSession /\ session.pending # NoId
                 /\ interrupts[session.pending].kind = kind

Decisions == {"approved", "rejected"}

\* The decision and the answer are stored before the action is executed.
ResumeApproval(decision) ==
  /\ CanAccept /\ Waiting("approval") /\ InterruptOpen(session.pending)
  /\ LET a  == interrupts[session.pending].approval
         st == [session.istate EXCEPT !.asked = FALSE]
         granted == Approve(st, a, approvals[a].act)
     IN /\ ApprovalOpen(a)
        /\ approvals' = ResolvedApproval(a, decision)
        /\ \/ /\ decision = "approved"
              /\ calls' = [calls EXCEPT ![NewCall] =
                   Call("exec", "approve", granted, NoState, session.pending, a)]
              /\ ExecuteFirst(NewCall, granted)
              /\ UNCHANGED <<session, snapshot>>
           \/ /\ decision = "rejected"
              /\ calls' = [calls EXCEPT ![NewCall] =
                   Call("done", "approve", NoState, NoState, NoId, a)]
              /\ Conclude("completed", st.feedback, st)
              /\ UNCHANGED executions
  /\ interrupts' = ResolvedInterrupt(session.pending, "answered")
  /\ UNCHANGED crashes

\* The round goes on from the restored state, with its message.
ResumeClarification ==
  /\ CanAccept /\ Waiting("clarification") /\ InterruptOpen(session.pending)
  /\ interrupts' = ResolvedInterrupt(session.pending, "answered")
  /\ session' = Reactivated(RestoredState)
  /\ BeginRound("clarify", RestoredState)
  /\ UNCHANGED <<approvals, snapshot, executions, crashes>>

AcceptFeedback ==
  /\ Waiting("feedback") /\ InterruptOpen(session.pending)
  /\ interrupts' = ResolvedInterrupt(session.pending, "answered")
  /\ session' = [session EXCEPT !.status = "completed", !.pending = NoId]
  /\ UNCHANGED <<approvals, snapshot, calls, executions, crashes>>

\* Rejected with new information: another round from the restored state.
RejectFeedback ==
  /\ CanAccept /\ Waiting("feedback") /\ InterruptOpen(session.pending)
  /\ interrupts' = ResolvedInterrupt(session.pending, "answered")
  /\ LET st == [RestoredState EXCEPT !.feedback = NoId]
     IN /\ session' = Reactivated(st)
        /\ BeginRound("reopen", st)
  /\ UNCHANGED <<approvals, snapshot, executions, crashes>>

-----------------------------------------------------------------------------
(* /approvals/{id}/decision, /expire and /cancel.  They answer whatever    *)
(* interrupt the row points at, and nothing ties it to their approval.     *)

CanDecide(a) == DecisionApi /\ session # NoSession /\ session.pending # NoId /\ ApprovalOpen(a)

Decide(a, decision) ==
  /\ CanAccept /\ CanDecide(a) /\ InterruptOpen(session.pending)
  /\ approvals' = ResolvedApproval(a, decision)
  /\ interrupts' = ResolvedInterrupt(session.pending, "answered")
  /\ calls' = [calls EXCEPT ![NewCall] =
       Call("ingest", "decide", NoState, NoState, NoId, a)]
  /\ UNCHANGED <<session, snapshot, executions, crashes>>

\* ingest_approval_decision takes the state of the row as it is by then.
Ingest(c) ==
  /\ calls[c].pc = "ingest"
  /\ LET a  == calls[c].approval
         st == [session.istate EXCEPT !.asked = FALSE]
         granted == Approve(st, a, approvals[a].act)
     IN \/ /\ approvals[a].status = "approved"
           /\ calls' = [calls EXCEPT ![c].pc = "exec", ![c].st = granted]
           /\ Execute(c, a, approvals[a].act)
        \/ /\ approvals[a].status = "rejected"
           /\ calls' = [calls EXCEPT ![c].pc = "commit", ![c].st = st,
                                     ![c].result = "completed"]
           /\ UNCHANGED executions
  /\ UNCHANGED <<store, crashes>>

\* Seeded bug: the request is resolved and the conversation not concluded.
ResolveTerminal_LeavesSession(a, resolution) ==
  /\ CanDecide(a) /\ InterruptOpen(session.pending)
  /\ approvals' = ResolvedApproval(a, resolution)
  /\ interrupts' = ResolvedInterrupt(session.pending, resolution)
  /\ UNCHANGED <<session, snapshot, calls, executions, crashes>>

ResolveTerminal(a, resolution) ==
  /\ CanDecide(a) /\ InterruptOpen(session.pending)
  /\ approvals' = ResolvedApproval(a, resolution)
  /\ interrupts' = ResolvedInterrupt(session.pending, resolution)
  /\ Conclude("completed", RestoredState.feedback, RestoredState)
  /\ UNCHANGED <<calls, executions, crashes>>

-----------------------------------------------------------------------------
(* A request that raises halfway: the approval is resolved first, and then *)
(* the interrupt turns out not to be pending any more.                     *)
RaiseAfterResolving(a, resolution) ==
  /\ session # NoSession /\ session.pending # NoId
  /\ ~InterruptOpen(session.pending)
  /\ ApprovalOpen(a)
  /\ \/ /\ Waiting("approval") /\ interrupts[session.pending].approval = a
        /\ resolution \in Decisions \cup {"cancelled"}
     \/ CanDecide(a) /\ resolution \in Decisions \cup {"expired", "cancelled"}
  /\ approvals' = ResolvedApproval(a, resolution)
  /\ UNCHANGED <<session, interrupts, snapshot, calls, executions, crashes>>

\* The process dies: what the calls in progress would still have done is lost.
Crash ==
  /\ crashes < MaxCrashes
  /\ InFlight # {}
  /\ calls' = [c \in CallIds |->
       IF c \in InFlight
       THEN Call("lost", calls[c].kind, NoState, NoState, NoId, calls[c].approval)
       ELSE calls[c]]
  /\ crashes' = crashes + 1
  /\ UNCHANGED <<store, executions>>

-----------------------------------------------------------------------------
Accept ==
  \/ Start \/ PostMessage \/ PostMessageSuperseding
  \/ ResumeClarification \/ AcceptFeedback \/ RejectFeedback
  \/ \E decision \in Decisions :
       \/ ResumeApproval(decision)
       \/ \E a \in ApprovalIds : Decide(a, decision)
  \/ \E a \in ApprovalIds, resolution \in {"expired", "cancelled"} :
       ResolveTerminal(a, resolution)
  \/ \E a \in ApprovalIds, resolution \in Decisions \cup {"expired", "cancelled"} :
       RaiseAfterResolving(a, resolution)

\* What a call in progress does next.
Proceed(c) ==
  \/ Retrieved(c) \/ AskClarification(c)
  \/ DirectAnswer(c) \/ DiagnoseOnly(c) \/ RequestApproval(c)
  \/ AutoApprove(c) \/ RejectProposal(c) \/ FailRound(c)
  \/ Ingest(c)
  \/ ExecutionReturned(c) \/ ApprovedExecutionReturned(c) \/ DecidedExecutionReturned(c)
  \/ Commit(c)

Next == Accept \/ (\E c \in CallIds : Proceed(c)) \/ Crash

Spec == Init /\ [][Next]_vars

\* The event loop gets back to every call, and retrieval, tools and the
\* external systems return or time out.
FairSpec == Spec /\ \A c \in CallIds : WF_vars(Proceed(c))

-----------------------------------------------------------------------------
States == IncidentStates \cup {NoState}

SessionRows ==
  [status : {"absent", "active", "awaiting_approval", "awaiting_clarification",
             "completed", "failed"},
   pending : InterruptIds \cup {NoId}, istate : States, ckpt : States]

InterruptRows ==
  [status : {"absent", "pending", "answered", "expired", "cancelled"},
   kind : {"none", "approval", "clarification", "feedback"},
   approval : ApprovalIds \cup {NoId}, about : CallIds \cup {NoId}]

ApprovalRows ==
  [status : {"absent", "pending", "approved", "rejected", "expired", "cancelled"},
   act : Actions \cup {"none"}]

CallRows ==
  [pc : {"unused", "rag", "guide", "loop", "ingest", "exec", "commit", "done", "lost"},
   kind : {"none", "start", "message", "clarify", "reopen", "approve", "decide"},
   st : States, ckpt : States, wait : InterruptIds \cup {NoId},
   approval : ApprovalIds \cup {NoId},
   result : {"none", "awaiting_approval", "completed", "failed"}]

TypeOK ==
  /\ session \in SessionRows
  /\ interrupts \in [InterruptIds -> InterruptRows]
  /\ approvals \in [ApprovalIds -> ApprovalRows]
  /\ snapshot \in States
  /\ calls \in [CallIds -> CallRows]
  /\ executions \in [CallIds -> [ap : ApprovalIds \cup {AutoApproved}, act : Actions \cup {"none"}]]
  /\ crashes \in 0..MaxCrashes

\* Nothing of high risk is handed to an external system unless a person
\* approved exactly that action: through restored checkpoints, reopened
\* rounds, foreign decisions, concurrent rounds and crashes, every executed
\* high-risk action names an approval that stands approved for it.
OnlyApprovedExecuted ==
  \A c \in CallIds : executions[c].act \in HighRisk =>
    /\ executions[c].ap \in ApprovalIds
    /\ approvals[executions[c].ap] = [status |-> "approved", act |-> executions[c].act]

\* However many decisions arrive for an approval, by whichever endpoint, at
\* most one call goes on to act on it.
OneCallPerDecision ==
  \A c, d \in CallIds :
    (c # d /\ calls[c].approval # NoId) => calls[c].approval # calls[d].approval

\* The runtime keeps the approval lifecycle: it never asks for what would
\* reopen or overwrite a resolved request, not even in a call that raises
\* halfway.
Contract == INSTANCE ApprovalContract
  WITH Approvals <- ApprovalIds, lifecycle <- [a \in ApprovalIds |-> approvals[a].status]
ImplementsContract == Contract!ContractSpec

\* A conversation that says it awaits an approval can be resumed: the
\* interrupt it points at is open, and so is the approval behind it.  It holds
\* one call at a time and, without the approval endpoints, for overlapping
\* calls; a restart breaks it (ConversationRestart.cfg).
AwaitingIsResumable ==
  (session.status = "awaiting_approval" /\ InFlight = {}) =>
    /\ InterruptOpen(session.pending)
    /\ interrupts[session.pending].kind = "approval"
    /\ ApprovalOpen(interrupts[session.pending].approval)

\* Without the approval endpoints, an approval and its interrupt are always
\* resolved together, whatever rounds run at the same time.
InterruptFollowsApproval ==
  \A i \in InterruptIds :
    interrupts[i].kind = "approval" => (InterruptOpen(i) <=> ApprovalOpen(interrupts[i].approval))

\* While an approved action is being executed for the interrupt the row still
\* points at, no message and no second answer gets in.
NoMessageDuringExecution ==
  [][(\E c \in InFlight : calls[c].kind = "approve" /\ calls[c].wait = session.pending)
       => \A d \in CallIds : calls[d].pc = "unused" => calls'[d].pc = "unused"]_vars

\* A conversation marked active is being worked on, so it leaves that status
\* by itself: with a question, an approval to wait for, an answer, or failed.
ActiveSettles == (session.status = "active") ~> (session.status # "active")

-----------------------------------------------------------------------------
(* What the documents and tests of the repository say, and the code does   *)
(* not keep.                                                               *)

\* Resuming an approval executes the action that was approved.
ApprovedActionExecuted ==
  \A c \in CallIds :
    (calls[c].kind = "approve" /\ executions[c].act # "none") =>
      executions[c].ap = calls[c].approval

\* The interrupt a finished conversation points at can still be answered.
PendingIsLive ==
  (session.status = "completed" /\ session.pending # NoId /\ InFlight = {})
    => InterruptOpen(session.pending)

\* The answer to a clarification continues the run that asked.
ClarificationResumesItsRun ==
  [][\A i \in InterruptIds :
       (/\ interrupts[i].kind = "clarification" /\ interrupts[i].status = "pending"
        /\ interrupts'[i].status = "answered")
       => session'.istate.about = interrupts[i].about]_vars
=============================================================================
