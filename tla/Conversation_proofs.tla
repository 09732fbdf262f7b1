-------------------------- MODULE Conversation_proofs --------------------------
(***************************************************************************)
(* What the conversation guarantees, for any actions, any bounds, any      *)
(* number of calls in progress, with and without crashes, reuse of ticket  *)
(* ids and the approval API: its types, and of its approvals that the      *)
(* runtime keeps the approval contract, that nothing of high risk is       *)
(* handed to an external system without an approval for exactly that       *)
(* action, that one decision hands out one call, that no message gets      *)
(* between a decision and its call, and, when approvals are answered by    *)
(* chat alone, that an interrupt and its approval end together and one     *)
(* that is awaited can be answered.                                        *)
(*                                                                         *)
(* What is executed needs an invariant about every copy of the incident    *)
(* state there is: the row, its checkpoint, the newest snapshot and what   *)
(* the calls hold.  Any of them may be what a later round executes from.   *)
(***************************************************************************)
EXTENDS Conversation, SequenceTheorems, TLAPS

\* The row has a state to work on as soon as it exists, and it exists before
\* any call gets past the retrieval of its first round.
SessionHasState ==
  session.istate = NoState =>
    /\ session = NoSession
    /\ \A c \in CallIds : \/ calls[c].pc \in {"unused", "done", "lost"}
                          \/ calls[c].pc = "rag" /\ calls[c].kind = "start"

\* A call that diagnoses, executes or commits has a state to work on, and one
\* that ingests a decision knows the approval.
CallsHaveState ==
  \A c \in CallIds :
    /\ calls[c].pc \in {"rag", "guide", "loop", "exec", "commit"} => calls[c].st \in IncidentStates
    /\ calls[c].pc = "ingest" => /\ calls[c].approval \in ApprovalIds
                                 /\ approvals[calls[c].approval].status # "absent"

\* Every approval request names a registered action.
ApprovalsNameActions ==
  \A a \in ApprovalIds : approvals[a].status # "absent" => approvals[a].act \in Actions

Shape == TypeOK /\ SessionHasState /\ CallsHaveState /\ ApprovalsNameActions

-----------------------------------------------------------------------------
\* An id that is handed out is one of a row not used yet.
LEMMA NewIdIsUnused ==
  ASSUME NEW table, NEW unused, HasRoom(table, unused)
  PROVE  NewId(table, unused) \in DOMAIN table /\ table[NewId(table, unused)] = unused
BY DEF HasRoom, NewId

\* The accepted call is one that was not used yet.
LEMMA NewCallIsUnused ==
  ASSUME TypeOK, CanAccept
  PROVE  NewCall \in CallIds /\ calls[NewCall] = IdleCall
<1>1. DOMAIN calls = CallIds
  BY DEF TypeOK
<1> QED BY <1>1, NewIdIsUnused DEF CanAccept, NewCall

\* NoState is not the state of any incident.
LEMMA NoStateIsNone == NoState \notin IncidentStates
<1> SUFFICES ASSUME NoState \in IncidentStates PROVE FALSE
  OBVIOUS
<1>1. NoState.about \in CallIds
  BY DEF IncidentStates
<1>2. NoState.about = 0
  BY DEF NoState, NoId
<1> QED BY <1>1, <1>2, ConversationAssumptions DEF CallIds

\* The state a new message starts from.
LEMMA FreshStateType ==
  ASSUME NEW c \in CallIds
  PROVE  FreshState(c) \in IncidentStates
BY DEF FreshState, IncidentStates, Primaries, NoId

\* An approval adds to a state at least the action it approves.
LEMMA ApproveType ==
  ASSUME NEW st \in IncidentStates, NEW ap \in ApprovalIds \cup {AutoApproved},
         NEW act \in Actions
  PROVE  /\ Approve(st, ap, act) \in IncidentStates
         /\ 1 \in DOMAIN Approve(st, ap, act).approved
         /\ Approve(st, ap, act).approved[1] \in ApprovedAction
<1> DEFINE item == [ap |-> ap, act |-> act]
<1>1. item \in ApprovedAction /\ st.approved \in Seq(ApprovedAction)
  BY DEF ApprovedAction, IncidentStates
<1>2. CASE \E i \in DOMAIN st.approved : st.approved[i] = item
  <2>1. Approve(st, ap, act) = st
    BY <1>2 DEF Approve
  <2> QED BY <1>1, <1>2, <2>1
<1>3. CASE ~\E i \in DOMAIN st.approved : st.approved[i] = item
  <2>1. Approve(st, ap, act) = [st EXCEPT !.approved = Append(st.approved, item)]
    BY <1>3 DEF Approve
  <2>2. Append(st.approved, item) \in Seq(ApprovedAction)
    BY <1>1
  <2>3. Approve(st, ap, act) \in IncidentStates
    BY <2>1, <2>2 DEF IncidentStates
  <2>4. Approve(st, ap, act).approved = Append(st.approved, item)
    BY <2>1 DEF IncidentStates
  <2>5. 1 \in DOMAIN Append(st.approved, item)
    BY <1>1
  <2>6. Append(st.approved, item)[1] \in ApprovedAction
    BY <2>2, <2>5
  <2> QED BY <2>3, <2>4, <2>5, <2>6
<1> QED BY <1>2, <1>3

\* Ranking keeps the approved actions of a state.
LEMMA RankedType ==
  ASSUME NEW st \in IncidentStates, NEW p \in Primaries, NEW asked \in BOOLEAN
  PROVE  /\ Ranked(st, p, asked) \in IncidentStates
         /\ Ranked(st, p, asked).approved = st.approved
         /\ Ranked(st, p, asked).about = st.about
BY DEF Ranked, IncidentStates

\* Asking for feedback changes nothing of a state but the interrupt it names.
LEMMA AskFeedbackType ==
  ASSUME TypeOK, NEW st \in IncidentStates, RoomForFeedback(st)
  PROVE  /\ AskFeedback(st) \in IncidentStates
         /\ AskFeedback(st).approved = st.approved
         /\ InterruptsAfterFeedback(st) \in [InterruptIds -> InterruptRows]
<1> DEFINE i == NewId(interrupts, NoInterrupt)
<1>1. CASE NeedsFeedback(st)
  <2>1. i \in InterruptIds
    BY <1>1, NewIdIsUnused DEF RoomForFeedback, TypeOK
  <2>2. AskFeedback(st) = [st EXCEPT !.feedback = i]
    BY <1>1 DEF AskFeedback
  <2>3. AskFeedback(st) \in IncidentStates /\ AskFeedback(st).approved = st.approved
    BY <2>1, <2>2 DEF IncidentStates
  <2>4. st.about \in CallIds
    BY DEF IncidentStates
  <2> QED BY <1>1, <2>1, <2>3, <2>4 DEF InterruptsAfterFeedback, Interrupt, InterruptRows, TypeOK
<1>2. CASE ~NeedsFeedback(st)
  BY <1>2 DEF AskFeedback, InterruptsAfterFeedback, TypeOK
<1> QED BY <1>1, <1>2

\* What a clarification or a reopened round is restored from.
LEMMA RestoredStateType ==
  ASSUME Shape, session # NoSession
  PROVE  RestoredState \in IncidentStates
<1>1. session.istate # NoState
  BY DEF Shape, SessionHasState
<1> QED BY <1>1 DEF Shape, TypeOK, SessionRows, RestoredState, States

\* Resolving an open interrupt leaves the table one of interrupts.
LEMMA ResolvedInterruptType ==
  ASSUME TypeOK, NEW i, InterruptOpen(i), NEW to \in {"answered", "expired", "cancelled"}
  PROVE  i \in InterruptIds /\ ResolvedInterrupt(i, to) \in [InterruptIds -> InterruptRows]
BY DEF InterruptOpen, ResolvedInterrupt, InterruptRows, TypeOK

\* The table holds the requests that approvals holds, for the same actions.
SameRequests(table) ==
  /\ table \in [ApprovalIds -> ApprovalRows]
  /\ \A b \in ApprovalIds :
       /\ table[b].act = approvals[b].act
       /\ table[b].status # "absent" <=> approvals[b].status # "absent"

\* Resolving an open approval leaves the same requests in the table.
LEMMA ResolvedKeepsRequests ==
  ASSUME TypeOK, NEW a, ApprovalOpen(a),
         NEW to \in {"approved", "rejected", "expired", "cancelled"}
  PROVE  SameRequests(ResolvedApproval(a, to))
BY DEF ApprovalOpen, ResolvedApproval, ApprovalRows, TypeOK, SameRequests

\* The first of the approved actions is an approved action.
LEMMA FirstApproved ==
  ASSUME NEW st \in IncidentStates, st.approved # <<>>
  PROVE  1 \in DOMAIN st.approved /\ st.approved[1] \in ApprovedAction
<1>1. st.approved \in Seq(ApprovedAction)
  BY DEF IncidentStates
<1>2. 1 \in DOMAIN st.approved
  BY <1>1, EmptySeq, SMT
<1> QED BY <1>1, <1>2

\* A step that leaves calls alone, keeps every approval request and does not
\* take the session's state away keeps the last three parts of the shape.
LEMMA StoreStepKeeps ==
  ASSUME Shape, UNCHANGED calls, session'.istate = NoState => UNCHANGED session,
         \A a \in ApprovalIds :
           /\ approvals'[a].act = approvals[a].act
           /\ approvals'[a].status # "absent" <=> approvals[a].status # "absent"
  PROVE  SessionHasState' /\ CallsHaveState' /\ ApprovalsNameActions'
BY DEF Shape, SessionHasState, CallsHaveState, ApprovalsNameActions

-----------------------------------------------------------------------------
\* The model's values have the shape the other proofs rely on.
LEMMA InitShape == Init => Shape
<1> SUFFICES ASSUME Init PROVE Shape
  OBVIOUS
<1>1. TypeOK
  BY ConversationAssumptions
     DEF Init, TypeOK, NoSession, NoInterrupt, NoApproval, NoExecution, IdleCall, Call, States,
         NoId, AutoApproved, SessionRows, InterruptRows, ApprovalRows, CallRows
<1>2. SessionHasState /\ CallsHaveState /\ ApprovalsNameActions
  BY DEF Init, SessionHasState, CallsHaveState, ApprovalsNameActions, NoSession, NoApproval,
         IdleCall, Call
<1> QED BY <1>1, <1>2 DEF Shape

\* Every step keeps the shape.
LEMMA NextShape == Shape /\ [Next]_vars => Shape'
<1> SUFFICES ASSUME Shape, [Next]_vars PROVE Shape'
  OBVIOUS
<1> USE ConversationAssumptions
<1>0. TypeOK /\ SessionHasState /\ CallsHaveState /\ ApprovalsNameActions
  BY DEF Shape
<1>1. CASE Start
  <2> DEFINE st == FreshState(NewCall)
  <2>1. CanAccept /\ NewCall \in CallIds /\ calls[NewCall] = IdleCall
    BY <1>0, <1>1, NewCallIsUnused DEF Start
  <2>2. st \in IncidentStates /\ NoState \in States
    BY <2>1, FreshStateType DEF States
  <2>3. UNCHANGED <<interrupts, approvals, snapshot, executions, crashes>>
    BY <1>1 DEF Start
  <2>4. PICK pc \in {"rag", "guide"} :
          /\ calls' = [calls EXCEPT ![NewCall] = Call(pc, "start", st, NoState, NoId, NoId)]
          /\ pc = "rag" => UNCHANGED session
          /\ pc = "guide" => session' = NewSession(st)
    BY <1>1 DEF Start, Accepted
  <2> HIDE DEF st
  <2>5. Call(pc, "start", st, NoState, NoId, NoId) \in CallRows
    BY <2>2 DEF Call, CallRows, States
  <2>6. session' \in SessionRows
    BY <1>0, <2>2, <2>4 DEF NewSession, SessionRows, TypeOK, States
  <2>7. TypeOK'
    BY <1>0, <2>1, <2>3, <2>4, <2>5, <2>6 DEF TypeOK
  <2>8. SessionHasState'
    BY <1>0, <2>2, <2>3, <2>4, NoStateIsNone DEF SessionHasState, NewSession, TypeOK, Call
  <2>9. CallsHaveState' /\ ApprovalsNameActions'
    BY <1>0, <2>1, <2>2, <2>3, <2>4 DEF CallsHaveState, ApprovalsNameActions, TypeOK, Call
  <2> QED BY <2>7, <2>8, <2>9 DEF Shape
<1>2. CASE PostMessage
  <2> DEFINE st == FreshState(NewCall)
  <2>1. CanAccept /\ NewCall \in CallIds /\ session # NoSession
    BY <1>0, <1>2, NewCallIsUnused DEF PostMessage
  <2>2. st \in IncidentStates /\ session.ckpt \in States
    BY <1>0, <2>1, FreshStateType DEF TypeOK, SessionRows
  <2>3. PICK pc \in {"rag", "guide"} :
          calls' = [calls EXCEPT ![NewCall] = Call(pc, "message", st, session.ckpt, NoId, NoId)]
    BY <1>2 DEF PostMessage, BeginRound, Accepted
  <2>4. UNCHANGED <<session, interrupts, approvals, snapshot, executions, crashes>>
    BY <1>2 DEF PostMessage, store
  <2> HIDE DEF st
  <2>5. Call(pc, "message", st, session.ckpt, NoId, NoId) \in CallRows
    BY <2>2 DEF Call, CallRows, States
  <2>6. TypeOK'
    BY <1>0, <2>1, <2>3, <2>4, <2>5 DEF TypeOK
  <2>7. SessionHasState'
    BY <1>0, <2>1, <2>4 DEF SessionHasState
  <2>8. CallsHaveState' /\ ApprovalsNameActions'
    BY <1>0, <2>1, <2>2, <2>3, <2>4 DEF CallsHaveState, ApprovalsNameActions, TypeOK, Call
  <2> QED BY <2>6, <2>7, <2>8 DEF Shape
<1>3. CASE PostMessageSuperseding
  <2> DEFINE st == FreshState(NewCall)
             i  == session.pending
             a  == interrupts[i].approval
  <2>1. CanAccept /\ NewCall \in CallIds /\ session # NoSession /\ InterruptOpen(i)
    BY <1>0, <1>3, NewCallIsUnused DEF PostMessageSuperseding
  <2>2. st \in IncidentStates /\ session.ckpt \in States
    BY <1>0, <2>1, FreshStateType DEF TypeOK, SessionRows
  <2>3. PICK pc \in {"rag", "guide"} :
          calls' = [calls EXCEPT ![NewCall] = Call(pc, "message", st, session.ckpt, NoId, NoId)]
    BY <1>3 DEF PostMessageSuperseding, BeginRound, Accepted
  <2>4. /\ session' = [session EXCEPT !.status = "active", !.pending = NoId, !.istate = session.istate]
        /\ interrupts' = ResolvedInterrupt(i, "cancelled")
        /\ UNCHANGED <<snapshot, executions, crashes>>
        /\ \/ ApprovalOpen(a) /\ approvals' = ResolvedApproval(a, "cancelled")
           \/ UNCHANGED approvals
    BY <1>3 DEF PostMessageSuperseding, Reactivated
  <2> HIDE DEF st, i, a
  <2>5. /\ approvals' \in [ApprovalIds -> ApprovalRows]
        /\ \A b \in ApprovalIds :
             /\ approvals'[b].act = approvals[b].act
             /\ approvals'[b].status # "absent" <=> approvals[b].status # "absent"
    <3>1. CASE ApprovalOpen(a) /\ approvals' = ResolvedApproval(a, "cancelled")
      <4>1. SameRequests(ResolvedApproval(a, "cancelled"))
        BY <1>0, <3>1, ResolvedKeepsRequests
      <4> QED BY <3>1, <4>1 DEF SameRequests
    <3>2. CASE UNCHANGED approvals
      BY <1>0, <3>2 DEF TypeOK
    <3> QED BY <2>4, <3>1, <3>2
  <2>6. interrupts' \in [InterruptIds -> InterruptRows]
    BY <1>0, <2>1, <2>4, ResolvedInterruptType
  <2>7. session' \in SessionRows /\ session'.istate = session.istate
    BY <1>0, <2>4 DEF SessionRows, TypeOK
  <2>8. Call(pc, "message", st, session.ckpt, NoId, NoId) \in CallRows
    BY <2>2 DEF Call, CallRows, States
  <2>9. TypeOK'
    BY <1>0, <2>1, <2>3, <2>4, <2>5, <2>6, <2>7, <2>8 DEF TypeOK
  <2>10. SessionHasState'
    BY <1>0, <2>1, <2>7 DEF SessionHasState
  <2>11. CallsHaveState' /\ ApprovalsNameActions'
    BY <1>0, <2>1, <2>2, <2>3, <2>5 DEF CallsHaveState, ApprovalsNameActions, TypeOK, Call
  <2> QED BY <2>9, <2>10, <2>11 DEF Shape
<1>4. ASSUME NEW c \in CallIds, Retrieved(c) PROVE Shape'
  <2>1. /\ calls[c].pc = "rag" /\ calls[c] \in CallRows /\ calls[c].st \in IncidentStates
        /\ calls' = [calls EXCEPT ![c].pc = "loop"]
        /\ UNCHANGED <<interrupts, approvals, snapshot, executions, crashes>>
    BY <1>0, <1>4 DEF Retrieved, TypeOK, CallsHaveState
  <2>2. \/ calls[c].kind = "start" /\ session' = NewSession(calls[c].st)
        \/ calls[c].kind # "start" /\ UNCHANGED session
    BY <1>4 DEF Retrieved
  <2>3. session' \in SessionRows
    BY <1>0, <2>1, <2>2 DEF NewSession, SessionRows, States, TypeOK
  <2>4. calls' \in [CallIds -> CallRows]
    BY <1>0, <2>1 DEF CallRows, TypeOK
  <2>5. TypeOK'
    BY <1>0, <2>1, <2>3, <2>4 DEF TypeOK
  <2>6. SessionHasState'
    BY <1>0, <2>1, <2>2, NoStateIsNone DEF SessionHasState, NewSession
  <2>7. CallsHaveState' /\ ApprovalsNameActions'
    BY <1>0, <2>1 DEF CallsHaveState, ApprovalsNameActions, TypeOK, CallRows
  <2> QED BY <2>5, <2>6, <2>7 DEF Shape
<1>5. ASSUME NEW c \in CallIds, AskClarification(c) PROVE Shape'
  <2> DEFINE i == NewId(interrupts, NoInterrupt)
  <2>1. /\ calls[c].pc = "guide" /\ calls[c] \in CallRows /\ calls[c].st \in IncidentStates
        /\ interrupts' = [interrupts EXCEPT ![i] = Interrupt("clarification", NoId, calls[c].st.about)]
        /\ session' = [status |-> "awaiting_clarification", pending |-> i,
                       istate |-> calls[c].st, ckpt |-> calls[c].ckpt]
        /\ calls' = [calls EXCEPT ![c].pc = "done"]
        /\ UNCHANGED <<approvals, snapshot, executions, crashes>>
    BY <1>0, <1>5 DEF AskClarification, Finished, TypeOK, CallsHaveState
  <2>2. i \in InterruptIds
    BY <1>0, <1>5, NewIdIsUnused DEF AskClarification, TypeOK
  <2> HIDE DEF i
  <2>3. calls[c].st.about \in CallIds /\ calls[c].ckpt \in States
    BY <2>1 DEF IncidentStates, CallRows
  <2>4. Interrupt("clarification", NoId, calls[c].st.about) \in InterruptRows
    BY <2>3 DEF Interrupt, InterruptRows
  <2>5. session' \in SessionRows
    BY <2>1, <2>2, <2>3 DEF SessionRows, States
  <2>6. calls' \in [CallIds -> CallRows]
    BY <1>0, <2>1 DEF CallRows, TypeOK
  <2>7. TypeOK'
    BY <1>0, <2>1, <2>2, <2>4, <2>5, <2>6 DEF TypeOK
  <2>8. SessionHasState'
    BY <2>1, NoStateIsNone DEF SessionHasState
  <2>9. CallsHaveState' /\ ApprovalsNameActions'
    BY <1>0, <2>1 DEF CallsHaveState, ApprovalsNameActions, TypeOK, CallRows
  <2> QED BY <2>7, <2>8, <2>9 DEF Shape
<1>10. ASSUME NEW c \in CallIds, DirectAnswer(c) PROVE Shape'
  <2> DEFINE st == calls[c].st
  <2>0. calls[c].pc = "loop" /\ st \in IncidentStates /\ calls[c] \in CallRows
    BY <1>0, <1>10 DEF DirectAnswer, CallsHaveState, TypeOK
  <2>1. /\ interrupts' = InterruptsAfterFeedback(st)
        /\ calls' = [calls EXCEPT ![c].pc = "commit", ![c].st = AskFeedback(st), ![c].result = "completed"]
        /\ UNCHANGED <<session, approvals, snapshot, executions, crashes>>
        /\ RoomForFeedback(st)
    BY <1>10 DEF DirectAnswer, EndRound
  <2>2. /\ AskFeedback(st) \in IncidentStates
        /\ interrupts' \in [InterruptIds -> InterruptRows]
    BY <1>0, <2>0, <2>1, AskFeedbackType
  <2> HIDE DEF st
  <2>3. calls' \in [CallIds -> CallRows]
    BY <1>0, <2>0, <2>1, <2>2 DEF CallRows, States, TypeOK
  <2>4. TypeOK'
    BY <1>0, <2>1, <2>2, <2>3 DEF TypeOK
  <2>5. SessionHasState'
    BY <1>0, <2>0, <2>1 DEF SessionHasState
  <2>6. CallsHaveState' /\ ApprovalsNameActions'
    BY <1>0, <2>0, <2>1, <2>2 DEF CallsHaveState, ApprovalsNameActions, TypeOK, CallRows
  <2> QED BY <2>4, <2>5, <2>6 DEF Shape
<1>7. ASSUME NEW c \in CallIds, DiagnoseOnly(c) PROVE Shape'
  <2> DEFINE st == [calls[c].st EXCEPT !.primary = "no_action"]
  <2>0. /\ calls[c].pc = "loop" /\ calls[c] \in CallRows /\ calls[c].st \in IncidentStates
        /\ st \in IncidentStates
    BY <1>0, <1>7 DEF DiagnoseOnly, CallsHaveState, TypeOK, IncidentStates, Primaries
  <2>1. /\ interrupts' = InterruptsAfterFeedback(st)
        /\ calls' = [calls EXCEPT ![c].pc = "commit", ![c].st = AskFeedback(st), ![c].result = "completed"]
        /\ UNCHANGED <<session, approvals, snapshot, executions, crashes>>
        /\ RoomForFeedback(st)
    BY <1>7 DEF DiagnoseOnly, EndRound
  <2>2. /\ AskFeedback(st) \in IncidentStates
        /\ interrupts' \in [InterruptIds -> InterruptRows]
    BY <1>0, <2>0, <2>1, AskFeedbackType
  <2> HIDE DEF st
  <2>3. calls' \in [CallIds -> CallRows]
    BY <1>0, <2>0, <2>1, <2>2 DEF CallRows, States, TypeOK
  <2>4. TypeOK'
    BY <1>0, <2>1, <2>2, <2>3 DEF TypeOK
  <2>5. SessionHasState'
    BY <1>0, <2>0, <2>1 DEF SessionHasState
  <2>6. CallsHaveState' /\ ApprovalsNameActions'
    BY <1>0, <2>0, <2>1, <2>2 DEF CallsHaveState, ApprovalsNameActions, TypeOK, CallRows
  <2> QED BY <2>4, <2>5, <2>6 DEF Shape
<1>8. ASSUME NEW c \in CallIds, RequestApproval(c) PROVE Shape'
  <2> DEFINE a == NewId(approvals, NoApproval)
             i == NewId(interrupts, NoInterrupt)
  <2>0. /\ calls[c].pc = "loop" /\ calls[c] \in CallRows /\ calls[c].st \in IncidentStates
        /\ UNCHANGED <<session, snapshot, executions, crashes>>
    BY <1>0, <1>8 DEF RequestApproval, CallsHaveState, TypeOK
  <2>1. a \in ApprovalIds /\ i \in InterruptIds
    BY <1>0, <1>8, NewIdIsUnused DEF RequestApproval, TypeOK
  <2>2. PICK act \in HighRisk :
          LET st == Ranked(calls[c].st, act, TRUE)
          IN /\ approvals' = [approvals EXCEPT ![a] = [status |-> "pending", act |-> act]]
             /\ interrupts' = [interrupts EXCEPT ![i] = Interrupt("approval", a, st.about)]
             /\ calls' = [calls EXCEPT ![c].pc = "commit", ![c].st = st, ![c].wait = i,
                                       ![c].result = "awaiting_approval"]
    BY <1>8 DEF RequestApproval
  <2> DEFINE st == Ranked(calls[c].st, act, TRUE)
  <2>3. act \in Actions /\ act \in Primaries
    BY DEF Actions, Primaries
  <2>4. st \in IncidentStates
    BY <2>0, <2>3, RankedType
  <2> HIDE DEF st, a, i
  <2>5. st.about \in CallIds
    BY <2>4 DEF IncidentStates
  <2>6. /\ approvals' = [approvals EXCEPT ![a] = [status |-> "pending", act |-> act]]
        /\ interrupts' = [interrupts EXCEPT ![i] = Interrupt("approval", a, st.about)]
        /\ calls' = [calls EXCEPT ![c].pc = "commit", ![c].st = st, ![c].wait = i,
                                  ![c].result = "awaiting_approval"]
    BY <2>2 DEF st
  <2>7. calls' \in [CallIds -> CallRows]
    BY <1>0, <2>0, <2>1, <2>4, <2>6 DEF CallRows, States, TypeOK
  <2>8. /\ [status |-> "pending", act |-> act] \in ApprovalRows
        /\ Interrupt("approval", a, st.about) \in InterruptRows
    BY <2>1, <2>3, <2>5 DEF ApprovalRows, Interrupt, InterruptRows
  <2>9. TypeOK'
    BY <1>0, <2>0, <2>1, <2>6, <2>7, <2>8 DEF TypeOK
  <2>10. SessionHasState'
    BY <1>0, <2>0, <2>6 DEF SessionHasState
  <2>11. CallsHaveState' /\ ApprovalsNameActions'
    BY <1>0, <2>0, <2>1, <2>3, <2>4, <2>6 DEF CallsHaveState, ApprovalsNameActions, TypeOK, CallRows
  <2> QED BY <2>9, <2>10, <2>11 DEF Shape
<1>9. ASSUME NEW c \in CallIds, AutoApprove(c) PROVE Shape'
  <2>0. /\ calls[c].pc = "loop" /\ calls[c] \in CallRows /\ calls[c].st \in IncidentStates
        /\ UNCHANGED <<session, interrupts, approvals, snapshot, crashes>>
    BY <1>0, <1>9 DEF AutoApprove, CallsHaveState, TypeOK, store
  <2>1. PICK act \in LowRisk :
          LET st == Approve(Ranked(calls[c].st, act, FALSE), AutoApproved, act)
          IN /\ calls' = [calls EXCEPT ![c].pc = "exec", ![c].st = st]
             /\ executions' = [executions EXCEPT ![c] = [ap |-> st.approved[1].ap, act |-> st.approved[1].act]]
    BY <1>9 DEF AutoApprove, ExecuteFirst, Execute
  <2> DEFINE st == Approve(Ranked(calls[c].st, act, FALSE), AutoApproved, act)
  <2>2. act \in Actions /\ act \in Primaries
    BY DEF Actions, Primaries
  <2>3. Ranked(calls[c].st, act, FALSE) \in IncidentStates
    BY <2>0, <2>2, RankedType
  <2>4. st \in IncidentStates /\ st.approved[1] \in ApprovedAction
    BY <2>2, <2>3, ApproveType
  <2> HIDE DEF st
  <2>5. /\ calls' = [calls EXCEPT ![c].pc = "exec", ![c].st = st]
        /\ executions' = [executions EXCEPT ![c] = [ap |-> st.approved[1].ap, act |-> st.approved[1].act]]
    BY <2>1 DEF st
  <2>6. calls' \in [CallIds -> CallRows]
    BY <1>0, <2>0, <2>4, <2>5 DEF CallRows, States, TypeOK
  <2>7. TypeOK'
    BY <1>0, <2>0, <2>4, <2>5, <2>6 DEF TypeOK, ApprovedAction
  <2>8. SessionHasState'
    BY <1>0, <2>0, <2>5 DEF SessionHasState
  <2>9. CallsHaveState' /\ ApprovalsNameActions'
    BY <1>0, <2>0, <2>4, <2>5 DEF CallsHaveState, ApprovalsNameActions, TypeOK, CallRows
  <2> QED BY <2>7, <2>8, <2>9 DEF Shape
<1>11. ASSUME NEW c \in CallIds, RejectProposal(c) PROVE Shape'
  <2>0. /\ calls[c].pc = "loop" /\ calls[c] \in CallRows /\ calls[c].st \in IncidentStates
        /\ UNCHANGED <<session, interrupts, approvals, snapshot, crashes>>
    BY <1>0, <1>11 DEF RejectProposal, CallsHaveState, TypeOK, store
  <2>1. PICK act \in Actions :
          LET st == Ranked(calls[c].st, act, FALSE)
          IN /\ st.approved # <<>>
             /\ calls' = [calls EXCEPT ![c].pc = "exec", ![c].st = st]
             /\ executions' = [executions EXCEPT ![c] = [ap |-> st.approved[1].ap, act |-> st.approved[1].act]]
    BY <1>11 DEF RejectProposal, ExecuteFirst, Execute
  <2> DEFINE st == Ranked(calls[c].st, act, FALSE)
  <2>2. act \in Primaries
    BY DEF Primaries
  <2>3. st \in IncidentStates
    BY <2>0, <2>2, RankedType
  <2> HIDE DEF st
  <2>4. /\ st.approved # <<>>
        /\ calls' = [calls EXCEPT ![c].pc = "exec", ![c].st = st]
        /\ executions' = [executions EXCEPT ![c] = [ap |-> st.approved[1].ap, act |-> st.approved[1].act]]
    BY <2>1 DEF st
  <2>5. st.approved[1] \in ApprovedAction
    BY <2>3, <2>4, FirstApproved
  <2>6. calls' \in [CallIds -> CallRows]
    BY <1>0, <2>0, <2>3, <2>4 DEF CallRows, States, TypeOK
  <2>7. TypeOK'
    BY <1>0, <2>0, <2>4, <2>5, <2>6 DEF TypeOK, ApprovedAction
  <2>8. SessionHasState'
    BY <1>0, <2>0, <2>4 DEF SessionHasState
  <2>9. CallsHaveState' /\ ApprovalsNameActions'
    BY <1>0, <2>0, <2>3, <2>4 DEF CallsHaveState, ApprovalsNameActions, TypeOK, CallRows
  <2> QED BY <2>7, <2>8, <2>9 DEF Shape
<1>12. ASSUME NEW c \in CallIds, FailRound(c) PROVE Shape'
  <2>1. /\ calls[c].pc = "loop" /\ calls[c] \in CallRows
        /\ session' = [session EXCEPT !.status = "failed", !.pending = NoId, !.ckpt = NoState]
        /\ calls' = [calls EXCEPT ![c].pc = "done"]
        /\ UNCHANGED <<interrupts, approvals, snapshot, executions, crashes>>
    BY <1>0, <1>12 DEF FailRound, Finished, TypeOK
  <2>2. session' \in SessionRows /\ session'.istate = session.istate
    BY <1>0, <2>1 DEF TypeOK, SessionRows, States
  <2>3. calls' \in [CallIds -> CallRows]
    BY <1>0, <2>1 DEF CallRows, TypeOK
  <2>4. TypeOK'
    BY <1>0, <2>1, <2>2, <2>3 DEF TypeOK
  <2>5. SessionHasState'
    BY <1>0, <2>1, <2>2 DEF SessionHasState
  <2>6. CallsHaveState' /\ ApprovalsNameActions'
    BY <1>0, <2>1 DEF CallsHaveState, ApprovalsNameActions, TypeOK, CallRows
  <2> QED BY <2>4, <2>5, <2>6 DEF Shape
<1>13. ASSUME NEW c \in CallIds, ExecutionReturned(c) PROVE Shape'
  <2> DEFINE st == calls[c].st
  <2>0. calls[c].pc = "exec" /\ st \in IncidentStates /\ calls[c] \in CallRows
    BY <1>0, <1>13 DEF ExecutionReturned, CallsHaveState, TypeOK
  <2>1. PICK result \in Outcomes :
          calls' = [calls EXCEPT ![c].pc = "commit", ![c].result = result, ![c].st = AskFeedback(st)]
    BY <1>13 DEF ExecutionReturned
  <2>2. /\ interrupts' = InterruptsAfterFeedback(st)
        /\ UNCHANGED <<session, approvals, snapshot, executions, crashes>>
        /\ RoomForFeedback(st)
    BY <1>13 DEF ExecutionReturned
  <2>3. /\ AskFeedback(st) \in IncidentStates
        /\ interrupts' \in [InterruptIds -> InterruptRows]
    BY <1>0, <2>0, <2>2, AskFeedbackType
  <2> HIDE DEF st
  <2>4. calls' \in [CallIds -> CallRows]
    BY <1>0, <2>0, <2>1, <2>3 DEF CallRows, States, TypeOK, Outcomes
  <2>5. TypeOK'
    BY <1>0, <2>2, <2>3, <2>4 DEF TypeOK
  <2>6. SessionHasState'
    BY <1>0, <2>0, <2>1, <2>2 DEF SessionHasState
  <2>7. CallsHaveState' /\ ApprovalsNameActions'
    BY <1>0, <2>0, <2>1, <2>2, <2>3 DEF CallsHaveState, ApprovalsNameActions, TypeOK, CallRows
  <2> QED BY <2>5, <2>6, <2>7 DEF Shape
<1>14. ASSUME NEW c \in CallIds, ApprovedExecutionReturned(c) PROVE Shape'
  <2> DEFINE st  == calls[c].st
             st2 == AskFeedback(st)
  <2>0. calls[c].pc = "exec" /\ st \in IncidentStates /\ calls[c] \in CallRows
    BY <1>0, <1>14 DEF ApprovedExecutionReturned, CallsHaveState, TypeOK
  <2>1. PICK result \in Outcomes :
          /\ session' = [status |-> result, pending |-> st2.feedback, istate |-> st2, ckpt |-> st2]
          /\ snapshot' = st2
    BY <1>14 DEF ApprovedExecutionReturned, Conclude
  <2>2. /\ interrupts' = InterruptsAfterFeedback(st)
        /\ calls' = [calls EXCEPT ![c].pc = "done"]
        /\ UNCHANGED <<approvals, executions, crashes>>
        /\ RoomForFeedback(st)
    BY <1>14 DEF ApprovedExecutionReturned, Finished
  <2>3. /\ st2 \in IncidentStates
        /\ interrupts' \in [InterruptIds -> InterruptRows]
    BY <1>0, <2>0, <2>2, AskFeedbackType
  <2> HIDE DEF st, st2
  <2>4. session' \in SessionRows /\ snapshot' \in States
    BY <2>1, <2>3 DEF SessionRows, States, IncidentStates, Outcomes
  <2>5. calls' \in [CallIds -> CallRows]
    BY <1>0, <2>0, <2>2 DEF CallRows, TypeOK
  <2>6. TypeOK'
    BY <1>0, <2>2, <2>3, <2>4, <2>5 DEF TypeOK
  <2>7. SessionHasState'
    BY <2>1, <2>3, NoStateIsNone DEF SessionHasState
  <2>8. CallsHaveState' /\ ApprovalsNameActions'
    BY <1>0, <2>0, <2>2 DEF CallsHaveState, ApprovalsNameActions, TypeOK, CallRows
  <2> QED BY <2>6, <2>7, <2>8 DEF Shape
<1>15. ASSUME NEW c \in CallIds, DecidedExecutionReturned(c) PROVE Shape'
  <2>0. /\ calls[c].pc = "exec" /\ calls[c] \in CallRows
        /\ UNCHANGED <<session, interrupts, approvals, snapshot, executions, crashes>>
    BY <1>0, <1>15 DEF DecidedExecutionReturned, TypeOK, store
  <2>1. PICK result \in Outcomes :
          calls' = [calls EXCEPT ![c].pc = "commit", ![c].result = result]
    BY <1>15 DEF DecidedExecutionReturned
  <2>2. calls' \in [CallIds -> CallRows]
    BY <1>0, <2>0, <2>1 DEF CallRows, TypeOK, Outcomes
  <2>3. TypeOK'
    BY <1>0, <2>0, <2>2 DEF TypeOK
  <2>4. SessionHasState'
    BY <1>0, <2>0, <2>1 DEF SessionHasState
  <2>5. CallsHaveState' /\ ApprovalsNameActions'
    BY <1>0, <2>0, <2>1 DEF CallsHaveState, ApprovalsNameActions, TypeOK, CallRows
  <2> QED BY <2>3, <2>4, <2>5 DEF Shape
<1>16. ASSUME NEW c \in CallIds, Commit(c) PROVE Shape'
  <2> DEFINE st == calls[c].st
  <2>0. calls[c].pc = "commit" /\ st \in IncidentStates /\ calls[c] \in CallRows
    BY <1>0, <1>16 DEF Commit, CallsHaveState, TypeOK
  <2>1. /\ session'.status \in {"awaiting_approval", "completed", "failed"}
        /\ session'.pending \in {calls[c].wait, st.feedback}
        /\ session' = [status |-> session'.status, pending |-> session'.pending,
                       istate |-> st, ckpt |-> st]
        /\ snapshot' = st
    BY <1>16 DEF Commit, Conclude, Outcomes
  <2>2. /\ calls' = [calls EXCEPT ![c].pc = "done"]
        /\ UNCHANGED <<interrupts, approvals, executions, crashes>>
    BY <1>16 DEF Commit, Finished
  <2>3. st.feedback \in InterruptIds \cup {NoId} /\ calls[c].wait \in InterruptIds \cup {NoId}
    BY <2>0 DEF IncidentStates, CallRows
  <2> HIDE DEF st
  <2>4. session' \in SessionRows /\ snapshot' \in States
    BY <2>0, <2>1, <2>3 DEF SessionRows, States
  <2>5. calls' \in [CallIds -> CallRows]
    BY <1>0, <2>0, <2>2 DEF CallRows, TypeOK
  <2>6. TypeOK'
    BY <1>0, <2>2, <2>4, <2>5 DEF TypeOK
  <2>7. SessionHasState'
    BY <2>0, <2>1, NoStateIsNone DEF SessionHasState
  <2>8. CallsHaveState' /\ ApprovalsNameActions'
    BY <1>0, <2>0, <2>2 DEF CallsHaveState, ApprovalsNameActions, TypeOK, CallRows
  <2> QED BY <2>6, <2>7, <2>8 DEF Shape
<1>17. ASSUME NEW decision \in Decisions, ResumeApproval(decision) PROVE Shape'
  <2> DEFINE i  == session.pending
             a  == interrupts[i].approval
             st == [session.istate EXCEPT !.asked = FALSE]
             granted == Approve(st, a, approvals[a].act)
             resumed == Call("exec", "approve", granted, NoState, i, a)
             refused == Call("done", "approve", NoState, NoState, NoId, a)
  <2>1. /\ NewCall \in CallIds /\ session # NoSession /\ InterruptOpen(i) /\ ApprovalOpen(a)
        /\ decision \in {"approved", "rejected"}
    BY <1>0, <1>17, NewCallIsUnused DEF ResumeApproval, Waiting, Decisions
  <2>2. session.istate \in IncidentStates
    BY <1>0, <2>1 DEF TypeOK, SessionRows, States, SessionHasState
  <2>3. st \in IncidentStates
    BY <2>2 DEF IncidentStates
  <2>4. a \in ApprovalIds /\ approvals[a].act \in Actions
    BY <1>0, <2>1 DEF ApprovalOpen, ApprovalsNameActions
  <2>5. granted \in IncidentStates /\ granted.approved[1] \in ApprovedAction
    BY <2>3, <2>4, ApproveType
  <2>6. /\ approvals' = ResolvedApproval(a, decision)
        /\ interrupts' = ResolvedInterrupt(i, "answered")
        /\ UNCHANGED crashes
        /\ \/ /\ calls' = [calls EXCEPT ![NewCall] = resumed]
              /\ executions' = [executions EXCEPT ![NewCall] =
                   [ap |-> granted.approved[1].ap, act |-> granted.approved[1].act]]
              /\ UNCHANGED <<session, snapshot>>
           \/ /\ calls' = [calls EXCEPT ![NewCall] = refused]
              /\ session' = [status |-> "completed", pending |-> st.feedback,
                             istate |-> st, ckpt |-> st]
              /\ snapshot' = st
              /\ UNCHANGED executions
    BY <1>17 DEF ResumeApproval, ExecuteFirst, Execute, Conclude
  <2>7. /\ approvals' \in [ApprovalIds -> ApprovalRows]
        /\ \A b \in ApprovalIds :
             /\ approvals'[b].act = approvals[b].act
             /\ approvals'[b].status # "absent" <=> approvals[b].status # "absent"
    <3>1. SameRequests(ResolvedApproval(a, decision))
      BY <1>0, <2>1, ResolvedKeepsRequests
    <3> QED BY <2>6, <3>1 DEF SameRequests
  <2>8. i \in InterruptIds /\ interrupts' \in [InterruptIds -> InterruptRows]
    BY <1>0, <2>1, <2>6, ResolvedInterruptType
  <2>9. resumed \in CallRows /\ refused \in CallRows
    BY <2>4, <2>5, <2>8 DEF Call, CallRows, States
  <2>10. /\ resumed.pc = "exec" /\ resumed.st = granted
         /\ refused.pc = "done"
    BY DEF Call
  <2> HIDE DEF i, a, st, granted, resumed, refused
  <2>11. session' \in SessionRows /\ snapshot' \in States
    BY <1>0, <2>3, <2>6 DEF SessionRows, States, IncidentStates, TypeOK
  <2>12. executions' \in [CallIds -> [ap : ApprovalIds \cup {AutoApproved}, act : Actions \cup {"none"}]]
    BY <1>0, <2>1, <2>5, <2>6 DEF TypeOK, ApprovedAction
  <2>13. TypeOK'
    BY <1>0, <2>1, <2>6, <2>7, <2>8, <2>9, <2>11, <2>12 DEF TypeOK
  <2>14. SessionHasState'
    BY <1>0, <2>1, <2>2, <2>3, <2>6, NoStateIsNone DEF SessionHasState
  <2>15. CallsHaveState' /\ ApprovalsNameActions'
    BY <1>0, <2>1, <2>5, <2>6, <2>7, <2>10 DEF CallsHaveState, ApprovalsNameActions, TypeOK
  <2> QED BY <2>13, <2>14, <2>15 DEF Shape
<1>18. CASE ResumeClarification
  <2> DEFINE st == RestoredState
  <2>1. NewCall \in CallIds /\ session # NoSession /\ InterruptOpen(session.pending)
    BY <1>0, <1>18, NewCallIsUnused DEF ResumeClarification, Waiting
  <2>2. st \in IncidentStates /\ session.ckpt \in States
    BY <1>0, <2>1, RestoredStateType DEF TypeOK, SessionRows
  <2>3. PICK pc \in {"rag", "guide"} :
          calls' = [calls EXCEPT ![NewCall] = Call(pc, "clarify", st, session.ckpt, NoId, NoId)]
    BY <1>18 DEF ResumeClarification, BeginRound, Accepted
  <2>4. /\ session' = [session EXCEPT !.status = "active", !.pending = NoId, !.istate = st]
        /\ interrupts' = ResolvedInterrupt(session.pending, "answered")
        /\ UNCHANGED <<approvals, snapshot, executions, crashes>>
    BY <1>18 DEF ResumeClarification, Reactivated
  <2>5. interrupts' \in [InterruptIds -> InterruptRows]
    BY <1>0, <2>1, <2>4, ResolvedInterruptType
  <2> HIDE DEF st
  <2>6. session' \in SessionRows /\ session'.istate = st
    BY <1>0, <2>2, <2>4 DEF SessionRows, States, TypeOK
  <2>7. Call(pc, "clarify", st, session.ckpt, NoId, NoId) \in CallRows
    BY <2>2 DEF Call, CallRows, States
  <2>8. TypeOK'
    BY <1>0, <2>1, <2>3, <2>4, <2>5, <2>6, <2>7 DEF TypeOK
  <2>9. SessionHasState'
    BY <2>2, <2>6, NoStateIsNone DEF SessionHasState
  <2>10. CallsHaveState' /\ ApprovalsNameActions'
    BY <1>0, <2>1, <2>2, <2>3, <2>4 DEF CallsHaveState, ApprovalsNameActions, TypeOK, Call
  <2> QED BY <2>8, <2>9, <2>10 DEF Shape
<1>19. CASE AcceptFeedback
  <2>1. /\ session # NoSession /\ InterruptOpen(session.pending)
        /\ interrupts' = ResolvedInterrupt(session.pending, "answered")
        /\ session' = [session EXCEPT !.status = "completed", !.pending = NoId]
        /\ UNCHANGED <<approvals, snapshot, calls, executions, crashes>>
    BY <1>19 DEF AcceptFeedback, Waiting
  <2>2. interrupts' \in [InterruptIds -> InterruptRows]
    BY <1>0, <2>1, ResolvedInterruptType
  <2>3. session' \in SessionRows /\ session'.istate = session.istate
    BY <1>0, <2>1 DEF SessionRows, TypeOK
  <2>4. TypeOK'
    BY <1>0, <2>1, <2>2, <2>3 DEF TypeOK
  <2>5. session.istate # NoState
    BY <1>0, <2>1 DEF SessionHasState
  <2>6. SessionHasState' /\ CallsHaveState' /\ ApprovalsNameActions'
    BY <2>1, <2>3, <2>5, StoreStepKeeps
  <2> QED BY <2>4, <2>6 DEF Shape
<1>20. CASE RejectFeedback
  <2> DEFINE st == [RestoredState EXCEPT !.feedback = NoId]
  <2>1. NewCall \in CallIds /\ session # NoSession /\ InterruptOpen(session.pending)
    BY <1>0, <1>20, NewCallIsUnused DEF RejectFeedback, Waiting
  <2>2. st \in IncidentStates /\ session.ckpt \in States
    BY <1>0, <2>1, RestoredStateType DEF TypeOK, SessionRows, IncidentStates
  <2>3. PICK pc \in {"rag", "guide"} :
          calls' = [calls EXCEPT ![NewCall] = Call(pc, "reopen", st, session.ckpt, NoId, NoId)]
    BY <1>20 DEF RejectFeedback, BeginRound, Accepted
  <2>4. /\ session' = [session EXCEPT !.status = "active", !.pending = NoId, !.istate = st]
        /\ interrupts' = ResolvedInterrupt(session.pending, "answered")
        /\ UNCHANGED <<approvals, snapshot, executions, crashes>>
    BY <1>20 DEF RejectFeedback, Reactivated
  <2>5. interrupts' \in [InterruptIds -> InterruptRows]
    BY <1>0, <2>1, <2>4, ResolvedInterruptType
  <2> HIDE DEF st
  <2>6. session' \in SessionRows /\ session'.istate = st
    BY <1>0, <2>2, <2>4 DEF SessionRows, States, TypeOK
  <2>7. Call(pc, "reopen", st, session.ckpt, NoId, NoId) \in CallRows
    BY <2>2 DEF Call, CallRows, States
  <2>8. TypeOK'
    BY <1>0, <2>1, <2>3, <2>4, <2>5, <2>6, <2>7 DEF TypeOK
  <2>9. SessionHasState'
    BY <2>2, <2>6, NoStateIsNone DEF SessionHasState
  <2>10. CallsHaveState' /\ ApprovalsNameActions'
    BY <1>0, <2>1, <2>2, <2>3, <2>4 DEF CallsHaveState, ApprovalsNameActions, TypeOK, Call
  <2> QED BY <2>8, <2>9, <2>10 DEF Shape
<1>21. ASSUME NEW a \in ApprovalIds, NEW decision \in Decisions, Decide(a, decision)
       PROVE  Shape'
  <2>1. /\ NewCall \in CallIds /\ InterruptOpen(session.pending) /\ ApprovalOpen(a)
        /\ session # NoSession /\ decision \in {"approved", "rejected"}
        /\ approvals' = ResolvedApproval(a, decision)
        /\ interrupts' = ResolvedInterrupt(session.pending, "answered")
        /\ calls' = [calls EXCEPT ![NewCall] = Call("ingest", "decide", NoState, NoState, NoId, a)]
        /\ UNCHANGED <<session, snapshot, executions, crashes>>
    BY <1>0, <1>21, NewCallIsUnused DEF Decide, CanDecide, Decisions
  <2>2. /\ approvals' \in [ApprovalIds -> ApprovalRows]
        /\ \A b \in ApprovalIds :
             /\ approvals'[b].act = approvals[b].act
             /\ approvals'[b].status # "absent" <=> approvals[b].status # "absent"
    BY <1>0, <2>1 DEF ApprovalOpen, ResolvedApproval, ApprovalRows, TypeOK
  <2>3. interrupts' \in [InterruptIds -> InterruptRows]
    BY <1>0, <2>1, ResolvedInterruptType
  <2>4. Call("ingest", "decide", NoState, NoState, NoId, a) \in CallRows
    BY DEF Call, CallRows, States
  <2>5. TypeOK'
    BY <1>0, <2>1, <2>2, <2>3, <2>4 DEF TypeOK
  <2>6. SessionHasState'
    BY <1>0, <2>1 DEF SessionHasState
  <2>7. approvals[a].status # "absent"
    BY <2>1 DEF ApprovalOpen
  <2>8. CallsHaveState' /\ ApprovalsNameActions'
    BY <1>0, <2>1, <2>2, <2>7 DEF CallsHaveState, ApprovalsNameActions, TypeOK, Call
  <2> QED BY <2>5, <2>6, <2>8 DEF Shape
<1>22. ASSUME NEW c \in CallIds, Ingest(c) PROVE Shape'
  <2> DEFINE a  == calls[c].approval
             st == [session.istate EXCEPT !.asked = FALSE]
             granted == Approve(st, a, approvals[a].act)
  <2>1. /\ calls[c].pc = "ingest" /\ calls[c] \in CallRows /\ a \in ApprovalIds
        /\ approvals[a].act \in Actions
        /\ UNCHANGED <<session, interrupts, approvals, snapshot, crashes>>
    BY <1>0, <1>22 DEF Ingest, CallsHaveState, ApprovalsNameActions, TypeOK, store
  <2>2. session.istate \in IncidentStates
    BY <1>0, <2>1 DEF TypeOK, SessionRows, States, SessionHasState
  <2>3. st \in IncidentStates
    BY <2>2 DEF IncidentStates
  <2>4. granted \in IncidentStates
    BY <2>1, <2>3, ApproveType
  <2>5. \/ /\ calls' = [calls EXCEPT ![c].pc = "exec", ![c].st = granted]
           /\ executions' = [executions EXCEPT ![c] = [ap |-> a, act |-> approvals[a].act]]
        \/ /\ calls' = [calls EXCEPT ![c].pc = "commit", ![c].st = st, ![c].result = "completed"]
           /\ UNCHANGED executions
    BY <1>22 DEF Ingest, Execute
  <2> HIDE DEF a, st, granted
  <2>6. calls' \in [CallIds -> CallRows]
    <3>1. CASE calls' = [calls EXCEPT ![c].pc = "exec", ![c].st = granted]
      BY <1>0, <2>1, <2>4, <3>1 DEF CallRows, States, TypeOK
    <3>2. CASE calls' = [calls EXCEPT ![c].pc = "commit", ![c].st = st, ![c].result = "completed"]
      BY <1>0, <2>1, <2>3, <3>2 DEF CallRows, States, TypeOK
    <3> QED BY <2>5, <3>1, <3>2
  <2>7. executions' \in [CallIds -> [ap : ApprovalIds \cup {AutoApproved}, act : Actions \cup {"none"}]]
    BY <1>0, <2>1, <2>5 DEF TypeOK
  <2>8. TypeOK'
    BY <1>0, <2>1, <2>6, <2>7 DEF TypeOK
  <2>9. SessionHasState'
    BY <1>0, <2>1, <2>2, NoStateIsNone DEF SessionHasState
  <2>10. CallsHaveState' /\ ApprovalsNameActions'
    <3>1. CASE calls' = [calls EXCEPT ![c].pc = "exec", ![c].st = granted]
      BY <1>0, <2>1, <2>4, <3>1 DEF CallsHaveState, ApprovalsNameActions, TypeOK, CallRows
    <3>2. CASE calls' = [calls EXCEPT ![c].pc = "commit", ![c].st = st, ![c].result = "completed"]
      BY <1>0, <2>1, <2>3, <3>2 DEF CallsHaveState, ApprovalsNameActions, TypeOK, CallRows
    <3> QED BY <2>5, <3>1, <3>2
  <2> QED BY <2>8, <2>9, <2>10 DEF Shape
<1>23. ASSUME NEW a \in ApprovalIds, NEW resolution \in {"expired", "cancelled"},
              ResolveTerminal(a, resolution)
       PROVE  Shape'
  <2> DEFINE st == RestoredState
  <2>1. /\ InterruptOpen(session.pending) /\ ApprovalOpen(a) /\ session # NoSession
        /\ approvals' = ResolvedApproval(a, resolution)
        /\ interrupts' = ResolvedInterrupt(session.pending, resolution)
        /\ session' = [status |-> "completed", pending |-> st.feedback, istate |-> st, ckpt |-> st]
        /\ snapshot' = st
        /\ UNCHANGED <<calls, executions, crashes>>
    BY <1>23 DEF ResolveTerminal, CanDecide, Conclude
  <2>2. st \in IncidentStates
    BY <1>0, <2>1, RestoredStateType
  <2>3. /\ approvals' \in [ApprovalIds -> ApprovalRows]
        /\ \A b \in ApprovalIds :
             /\ approvals'[b].act = approvals[b].act
             /\ approvals'[b].status # "absent" <=> approvals[b].status # "absent"
    BY <1>0, <2>1 DEF ApprovalOpen, ResolvedApproval, ApprovalRows, TypeOK
  <2>4. interrupts' \in [InterruptIds -> InterruptRows]
    BY <1>0, <2>1, ResolvedInterruptType
  <2> HIDE DEF st
  <2>5. session' \in SessionRows /\ snapshot' \in States /\ session'.istate # NoState
    BY <2>1, <2>2, NoStateIsNone DEF SessionRows, States, IncidentStates
  <2>6. TypeOK'
    BY <1>0, <2>1, <2>3, <2>4, <2>5 DEF TypeOK
  <2>7. SessionHasState' /\ CallsHaveState' /\ ApprovalsNameActions'
    BY <2>1, <2>3, <2>5, StoreStepKeeps
  <2> QED BY <2>6, <2>7 DEF Shape
<1>24. ASSUME NEW a \in ApprovalIds,
              NEW resolution \in Decisions \cup {"expired", "cancelled"},
              RaiseAfterResolving(a, resolution)
       PROVE  Shape'
  <2>1. /\ ApprovalOpen(a) /\ resolution \in {"approved", "rejected", "expired", "cancelled"}
        /\ approvals' = ResolvedApproval(a, resolution)
        /\ UNCHANGED <<session, interrupts, snapshot, calls, executions, crashes>>
    BY <1>24 DEF RaiseAfterResolving, Decisions
  <2>2. /\ approvals' \in [ApprovalIds -> ApprovalRows]
        /\ \A b \in ApprovalIds :
             /\ approvals'[b].act = approvals[b].act
             /\ approvals'[b].status # "absent" <=> approvals[b].status # "absent"
    BY <1>0, <2>1 DEF ApprovalOpen, ResolvedApproval, ApprovalRows, TypeOK
  <2>3. TypeOK'
    BY <1>0, <2>1, <2>2 DEF TypeOK
  <2>4. SessionHasState' /\ CallsHaveState' /\ ApprovalsNameActions'
    BY <2>1, <2>2, StoreStepKeeps
  <2> QED BY <2>3, <2>4 DEF Shape
<1>25. CASE Crash
  <2>1. /\ crashes < MaxCrashes /\ crashes' = crashes + 1
        /\ calls' = [c \in CallIds |->
             IF c \in InFlight
             THEN Call("lost", calls[c].kind, NoState, NoState, NoId, calls[c].approval)
             ELSE calls[c]]
        /\ UNCHANGED <<session, interrupts, approvals, snapshot, executions>>
    BY <1>25 DEF Crash, store
  <2>2. ASSUME NEW c \in CallIds
        PROVE  Call("lost", calls[c].kind, NoState, NoState, NoId, calls[c].approval) \in CallRows
    <3>1. calls[c] \in CallRows
      BY <1>0 DEF TypeOK
    <3> QED BY <3>1 DEF Call, CallRows, States
  <2>3. calls' \in [CallIds -> CallRows]
    BY <1>0, <2>1, <2>2 DEF TypeOK
  <2>4. crashes' \in 0..MaxCrashes
    BY <1>0, <2>1 DEF TypeOK
  <2>5. TypeOK'
    BY <1>0, <2>1, <2>3, <2>4 DEF TypeOK
  <2>6. \A c \in CallIds : calls'[c] = calls[c] \/ calls'[c].pc = "lost"
    BY <2>1 DEF Call
  <2>7. SessionHasState' /\ CallsHaveState' /\ ApprovalsNameActions'
    BY <1>0, <2>1, <2>6 DEF SessionHasState, CallsHaveState, ApprovalsNameActions
  <2> QED BY <2>5, <2>7 DEF Shape
<1>26. CASE UNCHANGED vars
  BY <1>0, <1>26 DEF Shape, TypeOK, SessionHasState, CallsHaveState, ApprovalsNameActions, vars
<1>27. CASE Accept
  BY <1>1, <1>2, <1>3, <1>17, <1>18, <1>19, <1>20, <1>21, <1>23, <1>24, <1>27 DEF Accept
<1>28. ASSUME NEW c \in CallIds, Proceed(c) PROVE Shape'
  BY <1>4, <1>5, <1>7, <1>8, <1>9, <1>10, <1>11, <1>12, <1>13, <1>14, <1>15, <1>16,
     <1>22, <1>28 DEF Proceed
<1> QED BY <1>25, <1>26, <1>27, <1>28 DEF Next

THEOREM ShapeInvariant == Spec => []Shape
BY InitShape, NextShape, PTL DEF Spec

\* Every variable keeps its type, whatever the constants are.
THEOREM TypeCorrect == Spec => []TypeOK
<1>1. Shape => TypeOK
  BY DEF Shape
<1> QED BY <1>1, ShapeInvariant, PTL


Resolutions == {"approved", "rejected", "expired", "cancelled"}

\* What a step may do to the approval requests.
ApprovalsStep ==
  \/ UNCHANGED approvals
  \/ \E a \in ApprovalIds, act \in HighRisk :
       /\ approvals[a] = NoApproval
       /\ approvals' = [approvals EXCEPT ![a] = [status |-> "pending", act |-> act]]
  \/ \E a \in ApprovalIds, to \in Resolutions :
       ApprovalOpen(a) /\ approvals' = ResolvedApproval(a, to)

\* A step creates a request, resolves an open one, or leaves them all alone.
LEMMA NextApprovals == Shape /\ [Next]_vars => ApprovalsStep
<1> SUFFICES ASSUME Shape, [Next]_vars PROVE ApprovalsStep
  OBVIOUS
<1>0. TypeOK
  BY DEF Shape
<1>1. CASE PostMessageSuperseding
  <2> DEFINE a == interrupts[session.pending].approval
  <2>1. CASE UNCHANGED approvals
    BY <2>1 DEF ApprovalsStep
  <2>2. CASE ApprovalOpen(a) /\ approvals' = ResolvedApproval(a, "cancelled")
    <3>1. a \in ApprovalIds
      BY <2>2 DEF ApprovalOpen
    <3> QED BY <2>2, <3>1 DEF ApprovalsStep, Resolutions
  <2> QED BY <1>1, <2>1, <2>2 DEF PostMessageSuperseding
<1>2. ASSUME NEW c \in CallIds, RequestApproval(c) PROVE ApprovalsStep
  <2> DEFINE a == NewId(approvals, NoApproval)
  <2>1. a \in ApprovalIds /\ approvals[a] = NoApproval
    BY <1>0, <1>2, NewIdIsUnused DEF RequestApproval, TypeOK
  <2>2. PICK act \in HighRisk :
          approvals' = [approvals EXCEPT ![a] = [status |-> "pending", act |-> act]]
    BY <1>2 DEF RequestApproval
  <2> QED BY <2>1, <2>2 DEF ApprovalsStep
<1>3. ASSUME NEW decision \in Decisions, ResumeApproval(decision) PROVE ApprovalsStep
  <2> DEFINE a == interrupts[session.pending].approval
  <2>1. ApprovalOpen(a) /\ approvals' = ResolvedApproval(a, decision)
    BY <1>3 DEF ResumeApproval
  <2>2. a \in ApprovalIds /\ decision \in Resolutions
    BY <2>1 DEF ApprovalOpen, Resolutions, Decisions
  <2> QED BY <2>1, <2>2 DEF ApprovalsStep
<1>4. ASSUME NEW a \in ApprovalIds, NEW decision \in Decisions, Decide(a, decision)
      PROVE  ApprovalsStep
  BY <1>4 DEF Decide, CanDecide, ApprovalsStep, Resolutions, Decisions
<1>5. ASSUME NEW a \in ApprovalIds, NEW to \in {"expired", "cancelled"}, ResolveTerminal(a, to)
      PROVE  ApprovalsStep
  BY <1>5 DEF ResolveTerminal, CanDecide, ApprovalsStep, Resolutions
<1>6. ASSUME NEW a \in ApprovalIds, NEW to \in Decisions \cup {"expired", "cancelled"},
             RaiseAfterResolving(a, to)
      PROVE  ApprovalsStep
  BY <1>6 DEF RaiseAfterResolving, ApprovalsStep, Resolutions, Decisions
<1>7. CASE Start \/ PostMessage \/ ResumeClarification \/ AcceptFeedback \/ RejectFeedback
  BY <1>7 DEF Start, PostMessage, ResumeClarification, AcceptFeedback, RejectFeedback,
              ApprovalsStep, store
<1>8. ASSUME NEW c \in CallIds,
             \/ Retrieved(c) \/ AskClarification(c) \/ DirectAnswer(c) \/ DiagnoseOnly(c)
             \/ AutoApprove(c) \/ RejectProposal(c) \/ FailRound(c) \/ Ingest(c)
             \/ ExecutionReturned(c) \/ ApprovedExecutionReturned(c)
             \/ DecidedExecutionReturned(c) \/ Commit(c)
      PROVE  ApprovalsStep
  BY <1>8 DEF Retrieved, AskClarification, DirectAnswer, DiagnoseOnly, EndRound, AutoApprove,
              RejectProposal, FailRound, Ingest, ExecutionReturned, ApprovedExecutionReturned,
              DecidedExecutionReturned, Commit, ApprovalsStep, store
<1>9. CASE Crash \/ UNCHANGED vars
  BY <1>9 DEF Crash, vars, store, ApprovalsStep
<1>10. CASE Accept
  BY <1>1, <1>3, <1>4, <1>5, <1>6, <1>7, <1>10 DEF Accept
<1>11. ASSUME NEW c \in CallIds, Proceed(c) PROVE ApprovalsStep
  BY <1>2, <1>8, <1>11 DEF Proceed
<1> QED BY <1>9, <1>10, <1>11 DEF Next

\* Such a step is one of the contract, or none at all.
LEMMA ApprovalsStepRefines ==
  ASSUME TypeOK, ApprovalsStep
  PROVE  [Contract!ContractNext]_([a \in ApprovalIds |-> approvals[a].status])
<1> DEFINE lifecycle == [a \in ApprovalIds |-> approvals[a].status]
<1>1. CASE UNCHANGED approvals
  BY <1>1
<1>2. ASSUME NEW a \in ApprovalIds, NEW act \in HighRisk, approvals[a] = NoApproval,
             approvals' = [approvals EXCEPT ![a] = [status |-> "pending", act |-> act]]
      PROVE  Contract!ContractNext
  <2>1. lifecycle[a] = "absent"
    BY <1>2 DEF NoApproval
  <2>2. lifecycle' = [lifecycle EXCEPT ![a] = "pending"]
    BY <1>2 DEF TypeOK
  <2>3. Contract!Request(a)
    BY <2>1, <2>2 DEF Contract!Request
  <2> QED BY <2>3 DEF Contract!ContractNext
<1>3. ASSUME NEW a \in ApprovalIds, NEW to \in Resolutions, ApprovalOpen(a),
             approvals' = ResolvedApproval(a, to)
      PROVE  Contract!ContractNext
  <2>1. lifecycle[a] = "pending"
    BY <1>3 DEF ApprovalOpen
  <2>2. lifecycle' = [lifecycle EXCEPT ![a] = to]
    BY <1>3 DEF TypeOK, ResolvedApproval, ApprovalRows
  <2>3. Contract!Resolve(a, to)
    BY <2>1, <2>2 DEF Contract!Resolve
  <2> QED BY <2>3 DEF Contract!ContractNext, Contract!Resolutions, Resolutions
<1> QED BY <1>1, <1>2, <1>3 DEF ApprovalsStep

\* Through every endpoint, in every interleaving and in calls that raise
\* halfway, an approval request is created once and resolved at most once.
THEOREM ConversationImplementsContract == Spec => ImplementsContract
<1>1. Init => Contract!ContractInit
  BY DEF Init, NoApproval, Contract!ContractInit
<1>2. Shape /\ [Next]_vars => [Contract!ContractNext]_([a \in ApprovalIds |-> approvals[a].status])
  BY NextApprovals, ApprovalsStepRefines DEF Shape
<1> QED BY <1>1, <1>2, ShapeInvariant, PTL DEF Spec, ImplementsContract, Contract!ContractSpec

-----------------------------------------------------------------------------
\* The policy or an approval, as the requests stand, permits this action.
Sanctioned(requests, item) ==
  \/ item.act \in LowRisk
  \/ /\ item.ap \in ApprovalIds
     /\ requests[item.ap] = [status |-> "approved", act |-> item.act]

\* A state holds no approved action that is not permitted.
Clean(requests, st) ==
  st \in IncidentStates => \A i \in DOMAIN st.approved : Sanctioned(requests, st.approved[i])

\* Every copy of the incident state is clean.
CopiesClean ==
  /\ Clean(approvals, session.istate) /\ Clean(approvals, session.ckpt)
  /\ Clean(approvals, snapshot)
  /\ \A c \in CallIds : Clean(approvals, calls[c].st) /\ Clean(approvals, calls[c].ckpt)

IInv == Shape /\ CopiesClean /\ OnlyApprovedExecuted

\* What was permitted stays permitted: nothing undoes an approval.
LEMMA CleanStays ==
  ASSUME Shape, ApprovalsStep, NEW st, Clean(approvals, st)
  PROVE  Clean(approvals', st)
<1>1. ASSUME NEW a \in ApprovalIds, approvals[a].status = "approved"
      PROVE  approvals'[a] = approvals[a]
  BY <1>1 DEF Shape, TypeOK, ApprovalsStep, ApprovalOpen, ResolvedApproval, NoApproval
<1> QED BY <1>1 DEF Clean, Sanctioned

LEMMA NoStateClean ==
  ASSUME NEW requests
  PROVE  Clean(requests, NoState)
BY NoStateIsNone DEF Clean

\* A state that approves the same actions is as clean.
LEMMA CleanSame ==
  ASSUME NEW requests, NEW st \in IncidentStates, NEW st2, st2.approved = st.approved,
         Clean(requests, st)
  PROVE  Clean(requests, st2)
BY DEF Clean

LEMMA FreshClean ==
  ASSUME NEW requests, NEW c
  PROVE  Clean(requests, FreshState(c))
BY DEF Clean, FreshState

\* Approving an action that is permitted keeps a state clean.
LEMMA ApproveClean ==
  ASSUME NEW requests, NEW st \in IncidentStates, Clean(requests, st),
         NEW ap \in ApprovalIds \cup {AutoApproved}, NEW act \in Actions,
         Sanctioned(requests, [ap |-> ap, act |-> act])
  PROVE  Clean(requests, Approve(st, ap, act))
<1> DEFINE item == [ap |-> ap, act |-> act]
<1>1. CASE Approve(st, ap, act) = st
  BY <1>1
<1>2. CASE Approve(st, ap, act) = [st EXCEPT !.approved = Append(st.approved, item)]
  <2>1. st.approved \in Seq(ApprovedAction) /\ item \in ApprovedAction
    BY DEF IncidentStates, ApprovedAction
  <2>2. Approve(st, ap, act).approved = Append(st.approved, item)
    BY <1>2 DEF IncidentStates
  <2>3. \A i \in DOMAIN Append(st.approved, item) :
          \/ i \in DOMAIN st.approved /\ Append(st.approved, item)[i] = st.approved[i]
          \/ Append(st.approved, item)[i] = item
    BY <2>1
  <2> HIDE DEF item
  <2>4. \A i \in DOMAIN st.approved : Sanctioned(requests, st.approved[i])
    BY DEF Clean
  <2>5. Sanctioned(requests, item)
    BY DEF item
  <2> QED BY <2>2, <2>3, <2>4, <2>5 DEF Clean
<1> QED BY <1>1, <1>2 DEF Approve

\* What is executed from a clean state is permitted.
LEMMA FirstSanctioned ==
  ASSUME NEW requests, NEW st \in IncidentStates, Clean(requests, st), st.approved # <<>>
  PROVE  Sanctioned(requests, st.approved[1])
BY FirstApproved DEF Clean

LEMMA RestoredClean ==
  ASSUME CopiesClean
  PROVE  Clean(approvals, RestoredState)
BY DEF CopiesClean, RestoredState

-----------------------------------------------------------------------------
\* A step moves copies around or replaces them by clean ones, and what it
\* executes is permitted.
StepClean ==
  /\ session'.istate = session.istate \/ Clean(approvals', session'.istate)
  /\ session'.ckpt = session.ckpt \/ Clean(approvals', session'.ckpt)
  /\ snapshot' = snapshot \/ Clean(approvals', snapshot')
  /\ \A c \in CallIds :
       /\ calls'[c].st = calls[c].st \/ Clean(approvals', calls'[c].st)
       /\ calls'[c].ckpt = calls[c].ckpt \/ Clean(approvals', calls'[c].ckpt)
       /\ executions'[c] = executions[c] \/ Sanctioned(approvals', executions'[c])

LEMMA StepCleanSuffices ==
  ASSUME IInv, ApprovalsStep, StepClean
  PROVE  CopiesClean' /\ OnlyApprovedExecuted'
<1>1. \A st : Clean(approvals, st) => Clean(approvals', st)
  BY CleanStays DEF IInv
<1>2. CopiesClean'
  BY <1>1 DEF StepClean, IInv, CopiesClean
<1>3. ASSUME NEW c \in CallIds, executions'[c].act \in HighRisk
      PROVE  /\ executions'[c].ap \in ApprovalIds
             /\ approvals'[executions'[c].ap] = [status |-> "approved", act |-> executions'[c].act]
  <2>1. CASE executions'[c] = executions[c]
    <3>1. /\ executions[c].ap \in ApprovalIds
          /\ approvals[executions[c].ap] = [status |-> "approved", act |-> executions[c].act]
      BY <1>3, <2>1 DEF IInv, OnlyApprovedExecuted
    <3>2. approvals'[executions[c].ap] = approvals[executions[c].ap]
      BY <3>1 DEF IInv, Shape, TypeOK, ApprovalsStep, ApprovalOpen, ResolvedApproval, NoApproval
    <3> QED BY <2>1, <3>1, <3>2
  <2>2. CASE Sanctioned(approvals', executions'[c])
    <3>1. executions'[c].act \notin LowRisk
      BY <1>3, ConversationAssumptions
    <3> QED BY <2>2, <3>1 DEF Sanctioned
  <2> QED BY <2>1, <2>2 DEF StepClean
<1> QED BY <1>2, <1>3 DEF OnlyApprovedExecuted

LEMMA NextClean == IInv /\ [Next]_vars => StepClean
<1> SUFFICES ASSUME IInv, [Next]_vars PROVE StepClean
  OBVIOUS
<1>0. /\ Shape /\ TypeOK /\ CallsHaveState /\ ApprovalsNameActions
      /\ \A c \in CallIds : calls[c] \in CallRows
  BY DEF IInv, Shape, TypeOK
<1>1. ApprovalsStep
  BY <1>0, NextApprovals
<1>2. \A st : Clean(approvals, st) => Clean(approvals', st)
  BY <1>0, <1>1, CleanStays
<1>3. /\ Clean(approvals', session.istate) /\ Clean(approvals', session.ckpt)
      /\ Clean(approvals', RestoredState) /\ Clean(approvals', NoState)
      /\ \A c \in CallIds : Clean(approvals', calls[c].st) /\ Clean(approvals', calls[c].ckpt)
  BY <1>2, RestoredClean, NoStateClean DEF IInv, CopiesClean
<1>4. CASE Start
  <2> DEFINE st == FreshState(NewCall)
  <2>1. PICK pc \in {"rag", "guide"} :
          /\ calls' = [calls EXCEPT ![NewCall] = Call(pc, "start", st, NoState, NoId, NoId)]
          /\ UNCHANGED session \/ session' = NewSession(st)
    BY <1>4 DEF Start, Accepted
  <2>2. UNCHANGED <<snapshot, executions>> /\ Clean(approvals', st)
    BY <1>4, FreshClean DEF Start
  <2> HIDE DEF st
  <2>3. session'.istate \in {session.istate, st} /\ session'.ckpt \in {session.ckpt, NoState}
    BY <2>1 DEF NewSession
  <2>4. \A c \in CallIds : /\ calls'[c].st \in {calls[c].st, st}
                           /\ calls'[c].ckpt \in {calls[c].ckpt, NoState}
    BY <1>0, <2>1 DEF TypeOK, Call
  <2> QED BY <1>3, <2>2, <2>3, <2>4 DEF StepClean
<1>5. CASE PostMessage \/ PostMessageSuperseding
  <2> DEFINE st == FreshState(NewCall)
  <2>1. PICK pc \in {"rag", "guide"} :
          calls' = [calls EXCEPT ![NewCall] = Call(pc, "message", st, session.ckpt, NoId, NoId)]
    BY <1>5 DEF PostMessage, PostMessageSuperseding, BeginRound, Accepted
  <2>2. UNCHANGED <<snapshot, executions>> /\ Clean(approvals', st)
    BY <1>5, FreshClean DEF PostMessage, PostMessageSuperseding, store
  <2>3. session'.istate = session.istate /\ session'.ckpt = session.ckpt
    <3>1. CASE PostMessage
      BY <3>1 DEF PostMessage, store
    <3>2. CASE PostMessageSuperseding
      BY <1>0, <3>2 DEF PostMessageSuperseding, Reactivated, TypeOK, SessionRows
    <3> QED BY <1>5, <3>1, <3>2
  <2> HIDE DEF st
  <2>4. \A c \in CallIds : /\ calls'[c].st \in {calls[c].st, st}
                           /\ calls'[c].ckpt \in {calls[c].ckpt, session.ckpt}
    BY <1>0, <2>1 DEF TypeOK, Call
  <2> QED BY <1>3, <2>2, <2>3, <2>4 DEF StepClean
<1>6. CASE ResumeClarification \/ RejectFeedback
  <2> DEFINE st == RestoredState
             st2 == [RestoredState EXCEPT !.feedback = NoId]
  <2>1. session # NoSession
    BY <1>6 DEF ResumeClarification, RejectFeedback, Waiting
  <2>2. st \in IncidentStates
    BY <1>0, <2>1, RestoredStateType
  <2>3. st2.approved = st.approved
    BY <2>2 DEF IncidentStates
  <2>4. Clean(approvals', st) /\ Clean(approvals', st2)
    BY <1>3, <2>2, <2>3, CleanSame
  <2>5. PICK pc \in {"rag", "guide"}, kind \in {"clarify", "reopen"}, new \in {st, st2} :
          /\ calls' = [calls EXCEPT ![NewCall] = Call(pc, kind, new, session.ckpt, NoId, NoId)]
          /\ session' = [session EXCEPT !.status = "active", !.pending = NoId, !.istate = new]
          /\ UNCHANGED <<snapshot, executions>>
    BY <1>6 DEF ResumeClarification, RejectFeedback, BeginRound, Accepted, Reactivated
  <2> HIDE DEF st, st2
  <2>6. session'.istate = new /\ session'.ckpt = session.ckpt
    BY <1>0, <2>5 DEF TypeOK, SessionRows
  <2>7. \A c \in CallIds : /\ calls'[c].st \in {calls[c].st, new}
                           /\ calls'[c].ckpt \in {calls[c].ckpt, session.ckpt}
    BY <1>0, <2>5 DEF TypeOK, Call
  <2> QED BY <1>3, <2>4, <2>5, <2>6, <2>7 DEF StepClean
<1>7. CASE AcceptFeedback
  <2>1. session'.istate = session.istate /\ session'.ckpt = session.ckpt
    BY <1>0, <1>7 DEF AcceptFeedback, TypeOK, SessionRows
  <2>2. UNCHANGED <<snapshot, calls, executions>>
    BY <1>7 DEF AcceptFeedback
  <2> QED BY <2>1, <2>2 DEF StepClean
<1>8. ASSUME NEW decision \in Decisions, ResumeApproval(decision) PROVE StepClean
  <2> DEFINE i  == session.pending
             a  == interrupts[i].approval
             st == [session.istate EXCEPT !.asked = FALSE]
             granted == Approve(st, a, approvals[a].act)
             resumed == Call("exec", "approve", granted, NoState, i, a)
             refused == Call("done", "approve", NoState, NoState, NoId, a)
             item == [ap |-> granted.approved[1].ap, act |-> granted.approved[1].act]
  <2>1. /\ session # NoSession /\ ApprovalOpen(a) /\ a \in ApprovalIds
        /\ approvals' = ResolvedApproval(a, decision) /\ decision \in Resolutions
    BY <1>8 DEF ResumeApproval, Waiting, ApprovalOpen, Decisions, Resolutions
  <2>2. session.istate \in IncidentStates /\ st \in IncidentStates /\ approvals[a].act \in Actions
        /\ st.approved = session.istate.approved
    BY <1>0, <2>1 DEF Shape, TypeOK, SessionRows, States, SessionHasState, IncidentStates,
                      ApprovalsNameActions, ApprovalOpen
  <2>3. Clean(approvals', st)
    BY <1>3, <2>2, CleanSame
  <2>4. \/ /\ decision = "approved"
           /\ calls' = [calls EXCEPT ![NewCall] = resumed]
           /\ executions' = [executions EXCEPT ![NewCall] = item]
           /\ UNCHANGED <<session, snapshot>>
        \/ /\ calls' = [calls EXCEPT ![NewCall] = refused]
           /\ session' = [status |-> "completed", pending |-> st.feedback,
                          istate |-> st, ckpt |-> st]
           /\ snapshot' = st
           /\ UNCHANGED executions
    BY <1>8 DEF ResumeApproval, ExecuteFirst, Execute, Conclude
  <2>5. ASSUME decision = "approved"
        PROVE  Clean(approvals', granted) /\ Sanctioned(approvals', item)
    <3>1. approvals'[a] = [status |-> "approved", act |-> approvals[a].act]
      BY <1>0, <2>1, <2>5 DEF TypeOK, ResolvedApproval, ApprovalRows
    <3>2. Sanctioned(approvals', [ap |-> a, act |-> approvals[a].act])
      BY <2>1, <3>1 DEF Sanctioned
    <3>3. Clean(approvals', granted)
      BY <2>1, <2>2, <2>3, <3>2, ApproveClean
    <3>4. /\ granted \in IncidentStates /\ 1 \in DOMAIN granted.approved
          /\ granted.approved[1] \in ApprovedAction
      BY <2>1, <2>2, ApproveType
    <3> HIDE DEF granted
    <3>5. item = granted.approved[1]
      BY <3>4 DEF ApprovedAction
    <3>6. Sanctioned(approvals', granted.approved[1])
      BY <3>3, <3>4 DEF Clean
    <3> QED BY <3>3, <3>5, <3>6
  <2>6. resumed.st = granted /\ resumed.ckpt = NoState /\ refused.st = NoState /\ refused.ckpt = NoState
    BY DEF Call
  <2> HIDE DEF i, a, st, granted, resumed, refused, item
  <2>7. CASE decision = "approved" /\ calls' = [calls EXCEPT ![NewCall] = resumed]
             /\ executions' = [executions EXCEPT ![NewCall] = item] /\ UNCHANGED <<session, snapshot>>
    <3>1. \A c \in CallIds : /\ calls'[c].st \in {calls[c].st, granted}
                             /\ calls'[c].ckpt \in {calls[c].ckpt, NoState}
                             /\ executions'[c] \in {executions[c], item}
      BY <1>0, <2>6, <2>7 DEF TypeOK
    <3> QED BY <1>3, <2>5, <2>7, <3>1 DEF StepClean
  <2>8. CASE /\ calls' = [calls EXCEPT ![NewCall] = refused]
             /\ session' = [status |-> "completed", pending |-> st.feedback,
                            istate |-> st, ckpt |-> st]
             /\ snapshot' = st
             /\ UNCHANGED executions
    <3>1. \A c \in CallIds : /\ calls'[c].st \in {calls[c].st, NoState}
                             /\ calls'[c].ckpt \in {calls[c].ckpt, NoState}
      BY <1>0, <2>6, <2>8 DEF TypeOK
    <3>2. session'.istate = st /\ session'.ckpt = st
      BY <2>8
    <3> QED BY <1>3, <2>3, <2>8, <3>1, <3>2 DEF StepClean
  <2> QED BY <2>4, <2>7, <2>8
<1>9. ASSUME NEW a \in ApprovalIds, NEW decision \in Decisions, Decide(a, decision)
      PROVE  StepClean
  <2>1. /\ calls' = [calls EXCEPT ![NewCall] = Call("ingest", "decide", NoState, NoState, NoId, a)]
        /\ UNCHANGED <<session, snapshot, executions>>
    BY <1>9 DEF Decide
  <2>2. \A c \in CallIds : /\ calls'[c].st \in {calls[c].st, NoState}
                           /\ calls'[c].ckpt \in {calls[c].ckpt, NoState}
    BY <1>0, <2>1 DEF TypeOK, Call
  <2> QED BY <1>3, <2>1, <2>2 DEF StepClean
<1>10. ASSUME NEW a \in ApprovalIds, NEW to \in {"expired", "cancelled"}, ResolveTerminal(a, to)
       PROVE  StepClean
  <2>1. /\ session'.istate = RestoredState /\ session'.ckpt = RestoredState
        /\ snapshot' = RestoredState
        /\ UNCHANGED <<calls, executions>>
    BY <1>10 DEF ResolveTerminal, Conclude
  <2> QED BY <1>3, <2>1 DEF StepClean
<1>11. ASSUME NEW a \in ApprovalIds, NEW to \in Decisions \cup {"expired", "cancelled"},
              RaiseAfterResolving(a, to)
       PROVE  StepClean
  BY <1>11 DEF RaiseAfterResolving, StepClean
<1>12. ASSUME NEW c \in CallIds, Retrieved(c) PROVE StepClean
  <2>1. \/ UNCHANGED session
        \/ session' = NewSession(calls[c].st)
    BY <1>12 DEF Retrieved
  <2>2. /\ calls' = [calls EXCEPT ![c].pc = "loop"]
        /\ UNCHANGED <<snapshot, executions>>
    BY <1>12 DEF Retrieved
  <2>3. session'.istate \in {session.istate, calls[c].st} /\ session'.ckpt \in {session.ckpt, NoState}
    BY <2>1 DEF NewSession
  <2>4. \A d \in CallIds : calls'[d].st = calls[d].st /\ calls'[d].ckpt = calls[d].ckpt
    BY <1>0, <2>2 DEF TypeOK, CallRows
  <2> QED BY <1>3, <2>2, <2>3, <2>4 DEF StepClean
<1>13. ASSUME NEW c \in CallIds, AskClarification(c) PROVE StepClean
  <2>1. /\ session'.istate = calls[c].st /\ session'.ckpt = calls[c].ckpt
        /\ calls' = [calls EXCEPT ![c].pc = "done"]
        /\ UNCHANGED <<snapshot, executions>>
    BY <1>13 DEF AskClarification, Finished
  <2>2. \A d \in CallIds : calls'[d].st = calls[d].st /\ calls'[d].ckpt = calls[d].ckpt
    BY <1>0, <2>1 DEF TypeOK, CallRows
  <2> QED BY <1>3, <2>1, <2>2 DEF StepClean
<1>14. ASSUME NEW c \in CallIds, FailRound(c) \/ DecidedExecutionReturned(c) PROVE StepClean
  <2>1. session'.istate = session.istate /\ session'.ckpt \in {session.ckpt, NoState}
    BY <1>0, <1>14 DEF FailRound, DecidedExecutionReturned, store, TypeOK, SessionRows
  <2>2. \A d \in CallIds : calls'[d].st = calls[d].st /\ calls'[d].ckpt = calls[d].ckpt
    <3>1. CASE FailRound(c)
      BY <1>0, <3>1 DEF FailRound, Finished, TypeOK, CallRows
    <3>2. CASE DecidedExecutionReturned(c)
      <4>1. PICK r \in Outcomes : calls' = [calls EXCEPT ![c].pc = "commit", ![c].result = r]
        BY <3>2 DEF DecidedExecutionReturned
      <4> QED BY <1>0, <4>1 DEF TypeOK, CallRows
    <3> QED BY <1>14, <3>1, <3>2
  <2>3. UNCHANGED <<snapshot, executions>>
    BY <1>14 DEF FailRound, DecidedExecutionReturned, store
  <2> QED BY <1>3, <2>1, <2>2, <2>3 DEF StepClean
<1>15. ASSUME NEW c \in CallIds, DirectAnswer(c) \/ DiagnoseOnly(c) PROVE StepClean
  <2>1. PICK st \in {calls[c].st, [calls[c].st EXCEPT !.primary = "no_action"]} :
          /\ calls' = [calls EXCEPT ![c].pc = "commit", ![c].st = AskFeedback(st), ![c].result = "completed"]
          /\ UNCHANGED <<session, snapshot, executions>>
          /\ RoomForFeedback(st)
          /\ calls[c].pc = "loop"
    BY <1>15 DEF DirectAnswer, DiagnoseOnly, EndRound
  <2>2. calls[c].st \in IncidentStates
    BY <1>0, <2>1 DEF CallsHaveState
  <2>3. st \in IncidentStates /\ st.approved = calls[c].st.approved
    BY <2>2 DEF IncidentStates, Primaries
  <2>4. AskFeedback(st).approved = calls[c].st.approved
    BY <1>0, <2>1, <2>3, AskFeedbackType
  <2>5. Clean(approvals', AskFeedback(st))
    BY <1>3, <2>2, <2>4, CleanSame
  <2>6. \A d \in CallIds : /\ calls'[d].st \in {calls[d].st, AskFeedback(st)}
                           /\ calls'[d].ckpt = calls[d].ckpt
    BY <1>0, <2>1 DEF TypeOK, CallRows
  <2> QED BY <2>1, <2>5, <2>6 DEF StepClean
<1>16. ASSUME NEW c \in CallIds, RequestApproval(c) PROVE StepClean
  <2>1. PICK act \in HighRisk :
          calls' = [calls EXCEPT ![c].pc = "commit", ![c].st = Ranked(calls[c].st, act, TRUE),
                                 ![c].wait = NewId(interrupts, NoInterrupt),
                                 ![c].result = "awaiting_approval"]
    BY <1>16 DEF RequestApproval
  <2> DEFINE st == Ranked(calls[c].st, act, TRUE)
  <2>2. UNCHANGED <<session, snapshot, executions>> /\ calls[c].st \in IncidentStates
    BY <1>0, <1>16 DEF RequestApproval, CallsHaveState
  <2>3. Clean(approvals', st)
    <3>1. act \in Primaries
      BY DEF Primaries, Actions
    <3>2. st.approved = calls[c].st.approved
      BY <2>2, <3>1, RankedType
    <3> QED BY <1>3, <2>2, <3>2, CleanSame
  <2> HIDE DEF st
  <2>4. \A d \in CallIds : /\ calls'[d].st \in {calls[d].st, st}
                           /\ calls'[d].ckpt = calls[d].ckpt
    BY <1>0, <2>1 DEF TypeOK, CallRows, st
  <2> QED BY <2>2, <2>3, <2>4 DEF StepClean
<1>17. ASSUME NEW c \in CallIds, AutoApprove(c) \/ RejectProposal(c) PROVE StepClean
  <2>1. calls[c].pc = "loop" /\ calls[c].st \in IncidentStates /\ UNCHANGED <<session, snapshot>>
    BY <1>0, <1>17 DEF AutoApprove, RejectProposal, CallsHaveState, store
  <2>2. PICK act \in Actions : \E st :
          /\ \/ st = Approve(Ranked(calls[c].st, act, FALSE), AutoApproved, act) /\ act \in LowRisk
             \/ st = Ranked(calls[c].st, act, FALSE) /\ st.approved # <<>>
          /\ calls' = [calls EXCEPT ![c].pc = "exec", ![c].st = st]
          /\ executions' = [executions EXCEPT ![c] = [ap |-> st.approved[1].ap, act |-> st.approved[1].act]]
    BY <1>17 DEF AutoApprove, RejectProposal, ExecuteFirst, Execute, Actions
  <2>a. PICK st :
          /\ \/ st = Approve(Ranked(calls[c].st, act, FALSE), AutoApproved, act) /\ act \in LowRisk
             \/ st = Ranked(calls[c].st, act, FALSE) /\ st.approved # <<>>
          /\ calls' = [calls EXCEPT ![c].pc = "exec", ![c].st = st]
          /\ executions' = [executions EXCEPT ![c] = [ap |-> st.approved[1].ap, act |-> st.approved[1].act]]
    BY <2>2
  <2>3. /\ Ranked(calls[c].st, act, FALSE) \in IncidentStates
        /\ Clean(approvals', Ranked(calls[c].st, act, FALSE))
    <3>1. act \in Primaries
      BY DEF Primaries
    <3>2. /\ Ranked(calls[c].st, act, FALSE) \in IncidentStates
          /\ Ranked(calls[c].st, act, FALSE).approved = calls[c].st.approved
      BY <2>1, <3>1, RankedType
    <3> QED BY <1>3, <2>1, <3>2, CleanSame
  <2>4. Clean(approvals', st) /\ st.approved[1] \in ApprovedAction /\ Sanctioned(approvals', st.approved[1])
    <3>1. CASE st = Ranked(calls[c].st, act, FALSE) /\ st.approved # <<>>
      BY <2>3, <3>1, FirstApproved, FirstSanctioned
    <3>2. CASE st = Approve(Ranked(calls[c].st, act, FALSE), AutoApproved, act) /\ act \in LowRisk
      <4>1. Sanctioned(approvals', [ap |-> AutoApproved, act |-> act])
        BY <3>2 DEF Sanctioned
      <4>2. /\ Clean(approvals', st) /\ st \in IncidentStates
            /\ 1 \in DOMAIN st.approved /\ st.approved[1] \in ApprovedAction
        BY <2>3, <3>2, <4>1, ApproveClean, ApproveType
      <4> QED BY <4>2 DEF Clean
    <3> QED BY <2>a, <3>1, <3>2
  <2>5. [ap |-> st.approved[1].ap, act |-> st.approved[1].act] = st.approved[1]
    BY <2>4 DEF ApprovedAction
  <2>6. \A d \in CallIds : /\ calls'[d].st \in {calls[d].st, st}
                           /\ calls'[d].ckpt = calls[d].ckpt
                           /\ executions'[d] \in {executions[d], st.approved[1]}
    BY <1>0, <2>a, <2>5 DEF TypeOK, CallRows
  <2> QED BY <2>1, <2>4, <2>6 DEF StepClean
<1>18. ASSUME NEW c \in CallIds, Ingest(c) PROVE StepClean
  <2> DEFINE a  == calls[c].approval
             st == [session.istate EXCEPT !.asked = FALSE]
             granted == Approve(st, a, approvals[a].act)
             item == [ap |-> a, act |-> approvals[a].act]
  <2>1. /\ calls[c].pc = "ingest" /\ a \in ApprovalIds /\ approvals[a].act \in Actions
        /\ UNCHANGED <<session, approvals, snapshot>>
    BY <1>0, <1>18 DEF Ingest, CallsHaveState, ApprovalsNameActions, store
  <2>2. /\ session.istate \in IncidentStates /\ st \in IncidentStates
        /\ st.approved = session.istate.approved
    BY <1>0, <2>1 DEF Shape, TypeOK, SessionRows, States, SessionHasState, IncidentStates
  <2>3. Clean(approvals', st)
    BY <1>3, <2>2, CleanSame
  <2>4. \/ /\ approvals[a].status = "approved"
           /\ calls' = [calls EXCEPT ![c].pc = "exec", ![c].st = granted]
           /\ executions' = [executions EXCEPT ![c] = item]
        \/ /\ calls' = [calls EXCEPT ![c].pc = "commit", ![c].st = st, ![c].result = "completed"]
           /\ UNCHANGED executions
    BY <1>18 DEF Ingest, Execute
  <2>5. ASSUME approvals[a].status = "approved"
        PROVE  Clean(approvals', granted) /\ Sanctioned(approvals', item)
    <3>1. approvals'[a] = [status |-> "approved", act |-> approvals[a].act]
      BY <1>0, <2>1, <2>5 DEF TypeOK, ApprovalRows
    <3>2. Sanctioned(approvals', item)
      BY <2>1, <3>1 DEF Sanctioned
    <3> QED BY <2>1, <2>2, <2>3, <3>2, ApproveClean
  <2> HIDE DEF a, st, granted, item
  <2>6. CASE /\ approvals[a].status = "approved"
             /\ calls' = [calls EXCEPT ![c].pc = "exec", ![c].st = granted]
             /\ executions' = [executions EXCEPT ![c] = item]
    <3>1. \A d \in CallIds : /\ calls'[d].st \in {calls[d].st, granted}
                             /\ calls'[d].ckpt = calls[d].ckpt
                             /\ executions'[d] \in {executions[d], item}
      BY <1>0, <2>6 DEF TypeOK, CallRows
    <3> QED BY <2>1, <2>5, <2>6, <3>1 DEF StepClean
  <2>7. CASE /\ calls' = [calls EXCEPT ![c].pc = "commit", ![c].st = st, ![c].result = "completed"]
             /\ UNCHANGED executions
    <3>1. \A d \in CallIds : /\ calls'[d].st \in {calls[d].st, st}
                             /\ calls'[d].ckpt = calls[d].ckpt
      BY <1>0, <2>7 DEF TypeOK, CallRows
    <3> QED BY <2>1, <2>3, <2>7, <3>1 DEF StepClean
  <2> QED BY <2>4, <2>6, <2>7
<1>19. ASSUME NEW c \in CallIds, ExecutionReturned(c) \/ ApprovedExecutionReturned(c)
       PROVE  StepClean
  <2> DEFINE st  == calls[c].st
             st2 == AskFeedback(st)
  <2>1. calls[c].pc = "exec" /\ RoomForFeedback(st) /\ st \in IncidentStates
    BY <1>0, <1>19 DEF ExecutionReturned, ApprovedExecutionReturned, CallsHaveState
  <2>2. Clean(approvals', st2)
    BY <1>0, <1>3, <2>1, AskFeedbackType, CleanSame
  <2>3. CASE ExecutionReturned(c)
    <3>1. PICK r \in Outcomes :
            calls' = [calls EXCEPT ![c].pc = "commit", ![c].result = r, ![c].st = st2]
      BY <2>3 DEF ExecutionReturned
    <3>2. UNCHANGED <<session, snapshot, executions>>
      BY <2>3 DEF ExecutionReturned
    <3> HIDE DEF st2
    <3>3. \A d \in CallIds : /\ calls'[d].st \in {calls[d].st, st2}
                             /\ calls'[d].ckpt = calls[d].ckpt
      BY <1>0, <3>1 DEF TypeOK, CallRows
    <3> QED BY <2>2, <3>2, <3>3 DEF StepClean
  <2>4. CASE ApprovedExecutionReturned(c)
    <3>1. PICK r \in Outcomes : Conclude(r, st2.feedback, st2)
      BY <2>4 DEF ApprovedExecutionReturned
    <3>2. UNCHANGED executions /\ calls' = [calls EXCEPT ![c].pc = "done"]
      BY <2>4 DEF ApprovedExecutionReturned, Finished
    <3> HIDE DEF st2
    <3>3. session'.istate = st2 /\ session'.ckpt = st2 /\ snapshot' = st2
      BY <3>1 DEF Conclude
    <3>4. \A d \in CallIds : calls'[d].st = calls[d].st /\ calls'[d].ckpt = calls[d].ckpt
      BY <1>0, <3>2 DEF TypeOK, CallRows
    <3> QED BY <2>2, <3>2, <3>3, <3>4 DEF StepClean
  <2> QED BY <1>19, <2>3, <2>4
<1>20. ASSUME NEW c \in CallIds, Commit(c) PROVE StepClean
  <2>1. /\ session'.istate = calls[c].st /\ session'.ckpt = calls[c].st /\ snapshot' = calls[c].st
        /\ calls' = [calls EXCEPT ![c].pc = "done"]
        /\ UNCHANGED executions
    BY <1>20 DEF Commit, Conclude, Finished
  <2>2. \A d \in CallIds : calls'[d].st = calls[d].st /\ calls'[d].ckpt = calls[d].ckpt
    BY <1>0, <2>1 DEF TypeOK, CallRows
  <2> QED BY <1>3, <2>1, <2>2 DEF StepClean
<1>21. CASE Crash
  <2>1. /\ calls' = [c \in CallIds |->
             IF c \in InFlight
             THEN Call("lost", calls[c].kind, NoState, NoState, NoId, calls[c].approval)
             ELSE calls[c]]
        /\ UNCHANGED <<session, snapshot, executions>>
    BY <1>21 DEF Crash, store
  <2>2. \A c \in CallIds : /\ calls'[c].st \in {calls[c].st, NoState}
                           /\ calls'[c].ckpt \in {calls[c].ckpt, NoState}
    BY <2>1 DEF Call
  <2> QED BY <1>3, <2>1, <2>2 DEF StepClean
<1>22. CASE UNCHANGED vars
  BY <1>22 DEF vars, StepClean
<1>23. CASE Accept
  BY <1>4, <1>5, <1>6, <1>7, <1>8, <1>9, <1>10, <1>11, <1>23 DEF Accept
<1>24. ASSUME NEW c \in CallIds, Proceed(c) PROVE StepClean
  BY <1>12, <1>13, <1>14, <1>15, <1>16, <1>17, <1>18, <1>19, <1>20, <1>24 DEF Proceed
<1> QED BY <1>21, <1>22, <1>23, <1>24 DEF Next

LEMMA InitIInv == Init => IInv
<1> SUFFICES ASSUME Init PROVE IInv
  OBVIOUS
<1>1. CopiesClean
  BY NoStateClean DEF Init, CopiesClean, NoSession, IdleCall, Call
<1>2. OnlyApprovedExecuted
  BY ConversationAssumptions DEF Init, OnlyApprovedExecuted, NoExecution
<1> QED BY <1>1, <1>2, InitShape DEF IInv

LEMMA NextIInv == IInv /\ [Next]_vars => IInv'
<1> SUFFICES ASSUME IInv, [Next]_vars PROVE IInv'
  OBVIOUS
<1>1. Shape'
  BY NextShape DEF IInv
<1>2. ApprovalsStep
  BY NextApprovals DEF IInv
<1>3. CopiesClean' /\ OnlyApprovedExecuted'
  BY <1>2, NextClean, StepCleanSuffices
<1> QED BY <1>1, <1>3 DEF IInv

\* Nothing of high risk is executed without an approval for exactly that
\* action: for any actions, calls and bounds, and however rounds, decisions,
\* restored checkpoints and crashes interleave.
THEOREM NothingUnapprovedExecuted == Spec => []OnlyApprovedExecuted
<1>1. IInv => OnlyApprovedExecuted
  BY DEF IInv
<1> QED BY <1>1, InitIInv, NextIInv, PTL DEF Spec

-----------------------------------------------------------------------------
\* What a step may do to the calls.

\* An unused id becomes a call that diagnoses.  Unless the client creates the
\* conversation again, the row then waits for nothing or for something open.
BeginsRound(c) ==
  /\ calls[c] = IdleCall
  /\ calls'[c].kind \in {"start", "message", "clarify", "reopen"}
  /\ calls'[c].pc \in {"rag", "guide"}
  /\ calls'[c].approval = NoId
  /\ ReuseTicketId \/ session.pending = NoId \/ InterruptOpen(session.pending)

\* An unused id becomes a call about an open approval, which it resolves
\* together with the open interrupt of the row.
BeginsDecision(c) ==
  /\ calls[c] = IdleCall
  /\ InterruptOpen(session.pending)
  /\ interrupts' = ResolvedInterrupt(session.pending, "answered")
  /\ ApprovalOpen(calls'[c].approval)
  /\ \E to \in Decisions : approvals' = ResolvedApproval(calls'[c].approval, to)
  /\ \/ calls'[c].kind = "approve" /\ calls'[c].pc = "done"
     \/ /\ calls'[c].kind = "approve" /\ calls'[c].pc = "exec"
        /\ calls'[c].wait = session.pending
     \/ calls'[c].kind = "decide" /\ calls'[c].pc = "ingest"

\* A call in progress goes on, and remains about the same approval.
GoesOn(c) ==
  /\ calls[c].pc \notin {"unused", "done", "lost"}
  /\ calls'[c].kind = calls[c].kind
  /\ calls'[c].approval = calls[c].approval
  /\ calls'[c].pc # "unused"
  /\ (calls[c].kind = "approve" /\ calls[c].pc = "exec") => calls'[c].pc = "done"

\* The calls in progress are lost.
AllLost ==
  calls' = [c \in CallIds |->
    IF c \in InFlight
    THEN Call("lost", calls[c].kind, NoState, NoState, NoId, calls[c].approval)
    ELSE calls[c]]

CallsStep ==
  \/ UNCHANGED calls
  \/ \E c \in CallIds : /\ \A d \in CallIds \ {c} : calls'[d] = calls[d]
                        /\ BeginsRound(c) \/ BeginsDecision(c) \/ GoesOn(c)
  \/ AllLost /\ UNCHANGED <<interrupts, approvals>>

\* A step accepts one call, takes one further, or is the end of all.
LEMMA NextCalls == Shape /\ [Next]_vars => CallsStep
<1> SUFFICES ASSUME Shape, [Next]_vars PROVE CallsStep
  OBVIOUS
<1>0. TypeOK /\ DOMAIN calls = CallIds /\ \A c \in CallIds : calls[c] \in CallRows
  BY DEF Shape, TypeOK
<1>1. ASSUME NEW kind \in {"start", "message", "clarify", "reopen"}, NEW pc \in {"rag", "guide"},
             NEW st, NEW ckpt, CanAccept,
             ReuseTicketId \/ session.pending = NoId \/ InterruptOpen(session.pending),
             calls' = [calls EXCEPT ![NewCall] = Call(pc, kind, st, ckpt, NoId, NoId)]
      PROVE  CallsStep
  <2>1. NewCall \in CallIds /\ calls[NewCall] = IdleCall
    BY <1>0, <1>1, NewCallIsUnused
  <2>2. calls'[NewCall] = Call(pc, kind, st, ckpt, NoId, NoId)
    BY <1>0, <1>1, <2>1
  <2>3. BeginsRound(NewCall)
    BY <1>1, <2>1, <2>2 DEF BeginsRound, Call
  <2>4. \A d \in CallIds \ {NewCall} : calls'[d] = calls[d]
    BY <1>0, <1>1
  <2> QED BY <2>1, <2>3, <2>4 DEF CallsStep
<1>2. CASE Start \/ PostMessage \/ PostMessageSuperseding \/ ResumeClarification \/ RejectFeedback
  <2>1. /\ CanAccept
        /\ ReuseTicketId \/ session.pending = NoId \/ InterruptOpen(session.pending)
    BY <1>2 DEF Start, PostMessage, PostMessageSuperseding, ResumeClarification, RejectFeedback,
                NoSession
  <2>2. \E kind \in {"start", "message", "clarify", "reopen"}, pc \in {"rag", "guide"} :
          \E st, ckpt : calls' = [calls EXCEPT ![NewCall] = Call(pc, kind, st, ckpt, NoId, NoId)]
    BY <1>2 DEF Start, PostMessage, PostMessageSuperseding, ResumeClarification, RejectFeedback,
                BeginRound, Accepted
  <2> QED BY <1>1, <2>1, <2>2
<1>3. ASSUME NEW decision \in Decisions, ResumeApproval(decision) PROVE CallsStep
  <2> DEFINE i == session.pending
             a == interrupts[i].approval
  <2>1. /\ NewCall \in CallIds /\ calls[NewCall] = IdleCall
        /\ InterruptOpen(i) /\ ApprovalOpen(a)
        /\ interrupts' = ResolvedInterrupt(i, "answered") /\ approvals' = ResolvedApproval(a, decision)
    BY <1>0, <1>3, NewCallIsUnused DEF ResumeApproval
  <2>2. PICK new :
          /\ calls' = [calls EXCEPT ![NewCall] = new]
          /\ \/ \E st : new = Call("exec", "approve", st, NoState, i, a)
             \/ new = Call("done", "approve", NoState, NoState, NoId, a)
    BY <1>3 DEF ResumeApproval
  <2>3. /\ new.kind = "approve" /\ new.approval = a
        /\ new.pc = "done" \/ (new.pc = "exec" /\ new.wait = i)
    BY <2>2 DEF Call
  <2>4. calls'[NewCall] = new /\ \A d \in CallIds \ {NewCall} : calls'[d] = calls[d]
    BY <1>0, <2>1, <2>2
  <2>5. BeginsDecision(NewCall)
    BY <2>1, <2>3, <2>4 DEF BeginsDecision
  <2> QED BY <2>1, <2>4, <2>5 DEF CallsStep
<1>4. ASSUME NEW a \in ApprovalIds, NEW decision \in Decisions, Decide(a, decision)
      PROVE  CallsStep
  <2> DEFINE new == Call("ingest", "decide", NoState, NoState, NoId, a)
  <2>1. /\ NewCall \in CallIds /\ calls[NewCall] = IdleCall
        /\ InterruptOpen(session.pending) /\ ApprovalOpen(a)
        /\ interrupts' = ResolvedInterrupt(session.pending, "answered")
        /\ approvals' = ResolvedApproval(a, decision)
        /\ calls' = [calls EXCEPT ![NewCall] = new]
    BY <1>0, <1>4, NewCallIsUnused DEF Decide, CanDecide
  <2>2. new.kind = "decide" /\ new.approval = a /\ new.pc = "ingest"
    BY DEF Call
  <2> HIDE DEF new
  <2>3. calls'[NewCall] = new /\ \A d \in CallIds \ {NewCall} : calls'[d] = calls[d]
    BY <1>0, <2>1
  <2>4. BeginsDecision(NewCall)
    BY <2>1, <2>2, <2>3 DEF BeginsDecision
  <2> QED BY <2>1, <2>3, <2>4 DEF CallsStep
<1>5. ASSUME NEW c \in CallIds, Proceed(c) PROVE CallsStep
  <2>1. calls[c].pc \in {"rag", "guide", "loop", "ingest", "exec", "commit"}
    BY <1>5 DEF Proceed, Retrieved, AskClarification, DirectAnswer, DiagnoseOnly, RequestApproval,
                AutoApprove, RejectProposal, FailRound, Ingest, ExecutionReturned,
                ApprovedExecutionReturned, DecidedExecutionReturned, Commit
  <2>2. \A d \in CallIds \ {c} : calls'[d] = calls[d]
    BY <1>0, <1>5
       DEF Proceed, Retrieved, AskClarification, DirectAnswer, DiagnoseOnly, RequestApproval,
           AutoApprove, RejectProposal, FailRound, Ingest, ExecutionReturned, EndRound, Finished,
           ApprovedExecutionReturned, DecidedExecutionReturned, Commit
  <2>3. GoesOn(c)
    <3>1. ASSUME NEW pc \in {"loop", "exec", "commit", "done"}, NEW st, NEW wait, NEW result,
                 (calls[c].kind = "approve" /\ calls[c].pc = "exec") => pc = "done",
                 \/ calls' = [calls EXCEPT ![c].pc = pc]
                 \/ calls' = [calls EXCEPT ![c].pc = pc, ![c].st = st]
                 \/ calls' = [calls EXCEPT ![c].pc = pc, ![c].result = result]
                 \/ calls' = [calls EXCEPT ![c].pc = pc, ![c].st = st, ![c].result = result]
                 \/ calls' = [calls EXCEPT ![c].pc = pc, ![c].result = result, ![c].st = st]
                 \/ calls' = [calls EXCEPT ![c].pc = pc, ![c].st = st, ![c].wait = wait,
                                           ![c].result = result]
          PROVE  GoesOn(c)
      <4>1. /\ calls'[c].kind = calls[c].kind /\ calls'[c].approval = calls[c].approval
            /\ calls'[c].pc = pc
        BY <1>0, <3>1 DEF CallRows
      <4> QED BY <2>1, <3>1, <4>1 DEF GoesOn
    <3>2. CASE Retrieved(c)
      BY <3>1, <3>2 DEF Retrieved
    <3>3. CASE AskClarification(c) \/ FailRound(c) \/ ApprovedExecutionReturned(c) \/ Commit(c)
      BY <3>1, <3>3 DEF AskClarification, FailRound, ApprovedExecutionReturned, Commit, Finished
    <3>4. CASE RequestApproval(c)
      <4>1. PICK act \in HighRisk :
              calls' = [calls EXCEPT ![c].pc = "commit", ![c].st = Ranked(calls[c].st, act, TRUE),
                                     ![c].wait = NewId(interrupts, NoInterrupt),
                                     ![c].result = "awaiting_approval"]
        BY <3>4 DEF RequestApproval
      <4>2. calls[c].pc = "loop"
        BY <3>4 DEF RequestApproval
      <4> QED BY <3>1, <4>1, <4>2
    <3>8. CASE DirectAnswer(c) \/ DiagnoseOnly(c)
      BY <3>1, <3>8 DEF DirectAnswer, DiagnoseOnly, EndRound
    <3>5. CASE AutoApprove(c) \/ RejectProposal(c)
      BY <3>1, <3>5 DEF AutoApprove, RejectProposal
    <3>6. CASE Ingest(c)
      BY <3>1, <3>6 DEF Ingest
    <3>7. CASE ExecutionReturned(c) \/ DecidedExecutionReturned(c)
      BY <3>1, <3>7 DEF ExecutionReturned, DecidedExecutionReturned
    <3> QED BY <1>5, <3>2, <3>3, <3>4, <3>5, <3>6, <3>7, <3>8 DEF Proceed
  <2> QED BY <2>2, <2>3 DEF CallsStep
<1>6. CASE Crash
  BY <1>6 DEF Crash, CallsStep, AllLost, store
<1>7. CASE UNCHANGED vars
  BY <1>7 DEF vars, CallsStep
<1>8. CASE Accept
  <2>1. CASE AcceptFeedback
    BY <2>1 DEF AcceptFeedback, CallsStep
  <2>2. ASSUME NEW a \in ApprovalIds, NEW to \in {"expired", "cancelled"}, ResolveTerminal(a, to)
        PROVE  CallsStep
    BY <2>2 DEF ResolveTerminal, CallsStep
  <2>3. ASSUME NEW a \in ApprovalIds, NEW to \in Decisions \cup {"expired", "cancelled"},
               RaiseAfterResolving(a, to)
        PROVE  CallsStep
    BY <2>3 DEF RaiseAfterResolving, CallsStep
  <2> QED BY <1>2, <1>3, <1>4, <1>8, <2>1, <2>2, <2>3 DEF Accept
<1> QED BY <1>5, <1>6, <1>7, <1>8 DEF Next

-----------------------------------------------------------------------------
(* One call per decision.                                                  *)

\* A call is about an approval that has been decided.
DecisionsTaken ==
  \A c \in CallIds : calls[c].approval # NoId =>
    approvals[calls[c].approval].status \in Resolutions

DecisionInv == Shape /\ DecisionsTaken /\ OneCallPerDecision

LEMMA NextDecision == DecisionInv /\ [Next]_vars => DecisionInv'
<1> SUFFICES ASSUME DecisionInv, [Next]_vars PROVE DecisionInv'
  OBVIOUS
<1>0. Shape /\ TypeOK /\ DecisionsTaken /\ OneCallPerDecision /\ Shape' /\ NoId \notin ApprovalIds
  BY NextShape DEF DecisionInv, Shape, NoId, ApprovalIds
<1>1. ApprovalsStep /\ CallsStep
  BY <1>0, NextApprovals, NextCalls
<1>2. \A a \in ApprovalIds :
        approvals[a].status \in Resolutions => approvals'[a].status \in Resolutions
  BY <1>0, <1>1 DEF TypeOK, ApprovalsStep, ApprovalOpen, ResolvedApproval, NoApproval, Resolutions
<1>3. \A c \in CallIds : calls[c].approval # NoId => calls[c].approval \in ApprovalIds
  BY <1>0 DEF TypeOK, CallRows
<1>4. CASE \A c \in CallIds : calls'[c].approval \in {calls[c].approval, NoId}
  BY <1>0, <1>2, <1>3, <1>4 DEF DecisionInv, DecisionsTaken, OneCallPerDecision
<1>5. ASSUME NEW c \in CallIds, \A d \in CallIds \ {c} : calls'[d] = calls[d], BeginsDecision(c)
      PROVE  DecisionInv'
  <2> DEFINE a == calls'[c].approval
  <2>1. ApprovalOpen(a) /\ a \in ApprovalIds /\ approvals[a].status = "pending"
    BY <1>5 DEF BeginsDecision, ApprovalOpen
  <2>2. PICK to \in Decisions : approvals' = ResolvedApproval(a, to)
    BY <1>5 DEF BeginsDecision
  <2>3. approvals'[a].status \in Resolutions
    BY <1>0, <2>1, <2>2 DEF TypeOK, ResolvedApproval, ApprovalRows, Decisions, Resolutions
  <2>4. \A d \in CallIds : calls[d].approval # a
    BY <1>0, <2>1 DEF DecisionsTaken, Resolutions
  <2> HIDE DEF a
  <2>5. calls'[c].approval = a
    BY DEF a
  <2>6. DecisionsTaken'
    BY <1>0, <1>2, <1>3, <1>5, <2>3, <2>5 DEF DecisionsTaken
  <2>7. OneCallPerDecision'
    BY <1>0, <1>5, <2>4, <2>5 DEF OneCallPerDecision
  <2> QED BY <1>0, <2>6, <2>7 DEF DecisionInv
<1>6. CASE AllLost
  <2>1. \A c \in CallIds : calls'[c].approval = calls[c].approval
    BY <1>6 DEF AllLost, Call
  <2> QED BY <1>4, <2>1
<1>7. ASSUME NEW c \in CallIds, \A d \in CallIds \ {c} : calls'[d] = calls[d],
             BeginsRound(c) \/ GoesOn(c)
      PROVE  DecisionInv'
  <2>1. calls'[c].approval \in {calls[c].approval, NoId}
    BY <1>7 DEF BeginsRound, GoesOn
  <2> QED BY <1>4, <1>7, <2>1
<1> QED BY <1>1, <1>4, <1>5, <1>6, <1>7 DEF CallsStep

\* Through whatever endpoints decisions arrive, and whatever runs or dies in
\* between, at most one call ever acts on the decision of an approval.
THEOREM OneCallActsOnADecision == Spec => []OneCallPerDecision
<1>1. Init => DecisionInv
  BY InitShape DEF Init, DecisionInv, DecisionsTaken, OneCallPerDecision, IdleCall, Call
<1>2. DecisionInv => OneCallPerDecision
  BY DEF DecisionInv
<1> QED BY <1>1, <1>2, NextDecision, PTL DEF Spec

-----------------------------------------------------------------------------
(* No message while an approved action is executed.                        *)

\* The resume of an approval executes or is over, and the interrupt it
\* executes for has been answered.
AnsweredBefore ==
  \A c \in CallIds : calls[c].kind = "approve" =>
    /\ calls[c].pc \in {"exec", "done", "lost"}
    /\ calls[c].pc = "exec" => /\ calls[c].wait \in InterruptIds
                               /\ interrupts[calls[c].wait].status \notin {"absent", "pending"}

\* What a step may do to the interrupts: record new ones, and resolve the
\* open one the row points at.
InterruptsStep ==
  \A i \in InterruptIds :
    \/ interrupts'[i] = interrupts[i]
    \/ interrupts[i] = NoInterrupt /\ interrupts'[i].status = "pending"
    \/ /\ i = session.pending /\ InterruptOpen(i)
       /\ \E to \in {"answered", "expired", "cancelled"} :
            interrupts'[i] = [interrupts[i] EXCEPT !.status = to]

LEMMA NextInterrupts == Shape /\ [Next]_vars => InterruptsStep
<1> SUFFICES ASSUME Shape, [Next]_vars PROVE InterruptsStep
  OBVIOUS
<1>0. TypeOK /\ DOMAIN interrupts = InterruptIds
  BY DEF Shape, TypeOK
<1>1. CASE UNCHANGED interrupts
  BY <1>1 DEF InterruptsStep
<1>2. ASSUME InterruptOpen(session.pending), NEW to \in {"answered", "expired", "cancelled"},
             interrupts' = ResolvedInterrupt(session.pending, to)
      PROVE  InterruptsStep
  BY <1>0, <1>2 DEF InterruptsStep, ResolvedInterrupt
<1>3. ASSUME HasRoom(interrupts, NoInterrupt), NEW kind, NEW ap, NEW about,
             interrupts' = [interrupts EXCEPT ![NewId(interrupts, NoInterrupt)] =
                              Interrupt(kind, ap, about)]
      PROVE  InterruptsStep
  <2>1. /\ NewId(interrupts, NoInterrupt) \in InterruptIds
        /\ interrupts[NewId(interrupts, NoInterrupt)] = NoInterrupt
    BY <1>0, <1>3, NewIdIsUnused
  <2>2. Interrupt(kind, ap, about).status = "pending"
    BY DEF Interrupt
  <2> QED BY <1>0, <1>3, <2>1, <2>2 DEF InterruptsStep
<1>4. ASSUME NEW st, RoomForFeedback(st), interrupts' = InterruptsAfterFeedback(st)
      PROVE  InterruptsStep
  BY <1>1, <1>3, <1>4 DEF InterruptsAfterFeedback, RoomForFeedback
<1>5. CASE Accept
  <2>1. CASE Start \/ PostMessage
    BY <1>1, <2>1 DEF Start, PostMessage, store
  <2>2. CASE PostMessageSuperseding
    BY <1>2, <2>2 DEF PostMessageSuperseding
  <2>3. CASE ResumeClarification \/ AcceptFeedback \/ RejectFeedback
    BY <1>2, <2>3 DEF ResumeClarification, AcceptFeedback, RejectFeedback
  <2>4. ASSUME NEW decision \in Decisions, ResumeApproval(decision) PROVE InterruptsStep
    BY <1>2, <2>4 DEF ResumeApproval
  <2>5. ASSUME NEW a \in ApprovalIds, NEW decision \in Decisions, Decide(a, decision)
        PROVE  InterruptsStep
    BY <1>2, <2>5 DEF Decide
  <2>6. ASSUME NEW a \in ApprovalIds, NEW to \in {"expired", "cancelled"}, ResolveTerminal(a, to)
        PROVE  InterruptsStep
    BY <1>2, <2>6 DEF ResolveTerminal
  <2>7. ASSUME NEW a \in ApprovalIds, NEW to \in Decisions \cup {"expired", "cancelled"},
               RaiseAfterResolving(a, to)
        PROVE  InterruptsStep
    BY <1>1, <2>7 DEF RaiseAfterResolving
  <2> QED BY <1>5, <2>1, <2>2, <2>3, <2>4, <2>5, <2>6, <2>7 DEF Accept
<1>6. ASSUME NEW c \in CallIds, Proceed(c) PROVE InterruptsStep
  <2>1. CASE AskClarification(c)
    BY <1>3, <2>1 DEF AskClarification
  <2>2. CASE RequestApproval(c)
    <3>1. PICK ap, about : interrupts' = [interrupts EXCEPT ![NewId(interrupts, NoInterrupt)] =
                                            Interrupt("approval", ap, about)]
      BY <2>2 DEF RequestApproval
    <3> QED BY <1>3, <2>2, <3>1 DEF RequestApproval
  <2>3. CASE DirectAnswer(c) \/ DiagnoseOnly(c)
    BY <1>4, <2>3 DEF DirectAnswer, DiagnoseOnly, EndRound
  <2>4. CASE ExecutionReturned(c) \/ ApprovedExecutionReturned(c)
    BY <1>4, <2>4 DEF ExecutionReturned, ApprovedExecutionReturned
  <2>5. CASE \/ Retrieved(c) \/ AutoApprove(c) \/ RejectProposal(c) \/ FailRound(c) \/ Ingest(c)
             \/ DecidedExecutionReturned(c) \/ Commit(c)
    BY <1>1, <2>5 DEF Retrieved, AutoApprove, RejectProposal, FailRound, Ingest,
                      DecidedExecutionReturned, Commit, store
  <2> QED BY <1>6, <2>1, <2>2, <2>3, <2>4, <2>5 DEF Proceed
<1>7. CASE Crash \/ UNCHANGED vars
  BY <1>1, <1>7 DEF Crash, vars, store
<1> QED BY <1>5, <1>6, <1>7 DEF Next

ExecutionInv == Shape /\ AnsweredBefore

LEMMA NextExecution == ExecutionInv /\ [Next]_vars => ExecutionInv'
<1> SUFFICES ASSUME ExecutionInv, [Next]_vars PROVE ExecutionInv'
  OBVIOUS
<1>0. Shape /\ TypeOK /\ AnsweredBefore /\ Shape' /\ InterruptsStep /\ CallsStep
  BY NextShape, NextInterrupts, NextCalls DEF ExecutionInv, Shape
<1>1. \A i \in InterruptIds : interrupts[i].status \notin {"absent", "pending"}
                               => interrupts'[i].status \notin {"absent", "pending"}
  <2> SUFFICES ASSUME NEW i \in InterruptIds, interrupts[i].status \notin {"absent", "pending"}
               PROVE  interrupts'[i] = interrupts[i]
    OBVIOUS
  <2>1. NoInterrupt.status = "absent" /\ (InterruptOpen(i) => interrupts[i].status = "pending")
    BY DEF NoInterrupt, InterruptOpen
  <2> QED BY <1>0, <2>1 DEF InterruptsStep
<1>2. CASE UNCHANGED calls
  BY <1>0, <1>1, <1>2 DEF ExecutionInv, AnsweredBefore
<1>3. CASE AllLost
  <2>1. \A c \in CallIds : calls'[c] = calls[c] \/ (calls'[c].pc = "lost")
    BY <1>3 DEF AllLost, Call
  <2> QED BY <1>0, <1>1, <2>1 DEF ExecutionInv, AnsweredBefore
<1>4. ASSUME NEW c \in CallIds, \A d \in CallIds \ {c} : calls'[d] = calls[d],
             BeginsRound(c) \/ BeginsDecision(c) \/ GoesOn(c)
      PROVE  ExecutionInv'
  <2>1. ASSUME calls'[c].kind = "approve"
        PROVE  /\ calls'[c].pc \in {"exec", "done", "lost"}
               /\ calls'[c].pc = "exec" =>
                    /\ calls'[c].wait \in InterruptIds
                    /\ interrupts'[calls'[c].wait].status \notin {"absent", "pending"}
    <3>1. CASE BeginsRound(c)
      BY <2>1, <3>1 DEF BeginsRound
    <3>2. CASE BeginsDecision(c)
      <4>1. session.pending \in InterruptIds
            /\ interrupts'[session.pending].status = "answered"
        BY <1>0, <3>2 DEF BeginsDecision, InterruptOpen, ResolvedInterrupt, TypeOK, InterruptRows
      <4> QED BY <2>1, <3>2, <4>1 DEF BeginsDecision
    <3>3. CASE GoesOn(c)
      BY <1>0, <2>1, <3>3 DEF GoesOn, AnsweredBefore
    <3> QED BY <1>4, <3>1, <3>2, <3>3
  <2> QED BY <1>0, <1>1, <1>4, <2>1 DEF ExecutionInv, AnsweredBefore
<1> QED BY <1>0, <1>2, <1>3, <1>4 DEF CallsStep

\* While an approved action is being executed for the interrupt the row still
\* points at, no call is accepted, unless a client creates the conversation
\* again.
THEOREM ExecutionIsUndisturbed == ASSUME ~ReuseTicketId PROVE Spec => NoMessageDuringExecution
<1>1. Init => ExecutionInv
  BY InitShape DEF Init, ExecutionInv, AnsweredBefore, IdleCall, Call
<1>2. ASSUME ExecutionInv, [Next]_vars, NEW c \in InFlight,
             calls[c].kind = "approve", calls[c].wait = session.pending,
             NEW d \in CallIds, calls[d].pc = "unused"
      PROVE  calls'[d].pc = "unused"
  <2>1. Shape /\ CallsStep
    BY <1>2, NextCalls DEF ExecutionInv
  <2>2. ~InterruptOpen(session.pending) /\ session.pending # NoId
    BY <1>2 DEF ExecutionInv, AnsweredBefore, InFlight, InterruptOpen, NoId, InterruptIds
  <2>3. ASSUME NEW e \in CallIds, \A f \in CallIds \ {e} : calls'[f] = calls[f],
               BeginsRound(e) \/ BeginsDecision(e) \/ GoesOn(e)
        PROVE  calls'[d].pc = "unused"
    BY <1>2, <2>2, <2>3 DEF BeginsRound, BeginsDecision, GoesOn
  <2>4. CASE AllLost
    <3>1. d \notin InFlight
      BY <1>2 DEF InFlight
    <3> QED BY <1>2, <2>4, <3>1 DEF AllLost
  <2> QED BY <1>2, <2>1, <2>3, <2>4 DEF CallsStep
<1>3. ExecutionInv /\ [Next]_vars =>
        [(\E c \in InFlight : calls[c].kind = "approve" /\ calls[c].wait = session.pending)
           => \A d \in CallIds : calls[d].pc = "unused" => calls'[d].pc = "unused"]_vars
  BY <1>2
<1> QED BY <1>1, <1>3, NextExecution, PTL DEF Spec, NoMessageDuringExecution

-----------------------------------------------------------------------------
(* An approval and its interrupt are resolved together.                    *)

\* Every approval interrupt names a request of its own, and both are open or
\* neither is.
Paired ==
  \A i \in InterruptIds : interrupts[i].kind = "approval" =>
    LET a == interrupts[i].approval
    IN /\ a \in ApprovalIds /\ approvals[a].status # "absent"
       /\ InterruptOpen(i) <=> ApprovalOpen(a)
       /\ \A j \in InterruptIds :
            (interrupts[j].kind = "approval" /\ interrupts[j].approval = a) => j = i

\* Neither side of a pair is touched, a new pair is made, or one is resolved.
PairsStep ==
  \/ /\ UNCHANGED approvals
     /\ \A i \in InterruptIds :
          \/ interrupts'[i] = interrupts[i]
          \/ interrupts[i].kind # "approval" /\ interrupts'[i].kind # "approval"
  \/ \E i \in InterruptIds, a \in ApprovalIds, act \in HighRisk :
       /\ interrupts[i] = NoInterrupt /\ approvals[a] = NoApproval
       /\ \E about : interrupts' = [interrupts EXCEPT ![i] = Interrupt("approval", a, about)]
       /\ approvals' = [approvals EXCEPT ![a] = [status |-> "pending", act |-> act]]
  \/ \E i \in InterruptIds, answer \in {"answered", "cancelled"}, to \in Resolutions :
       /\ interrupts[i].kind = "approval"
       /\ InterruptOpen(i) /\ ApprovalOpen(interrupts[i].approval)
       /\ interrupts' = ResolvedInterrupt(i, answer)
       /\ approvals' = ResolvedApproval(interrupts[i].approval, to)

LEMMA NextPairs == ASSUME ~DecisionApi PROVE Shape /\ Paired /\ [Next]_vars => PairsStep
<1> SUFFICES ASSUME Shape, Paired, [Next]_vars PROVE PairsStep
  OBVIOUS
<1>0. TypeOK /\ DOMAIN interrupts = InterruptIds /\ DOMAIN approvals = ApprovalIds
  BY DEF Shape, TypeOK
<1>1. CASE UNCHANGED <<interrupts, approvals>>
  BY <1>1 DEF PairsStep
<1>2. ASSUME interrupts[session.pending].kind # "approval", InterruptOpen(session.pending),
             NEW to \in {"answered", "cancelled"},
             interrupts' = ResolvedInterrupt(session.pending, to), UNCHANGED approvals
      PROVE  PairsStep
  <2>1. session.pending \in InterruptIds
    BY <1>2 DEF InterruptOpen
  <2>2. interrupts[session.pending] \in InterruptRows
    BY <1>0, <2>1 DEF TypeOK
  <2>3. interrupts'[session.pending].kind # "approval"
    BY <1>0, <1>2, <2>1, <2>2 DEF ResolvedInterrupt, InterruptRows
  <2>4. \A i \in InterruptIds \ {session.pending} : interrupts'[i] = interrupts[i]
    BY <1>0, <1>2 DEF ResolvedInterrupt
  <2> QED BY <1>2, <2>3, <2>4 DEF PairsStep
<1>3. ASSUME HasRoom(interrupts, NoInterrupt), NEW kind \in {"feedback", "clarification"},
             NEW about, UNCHANGED approvals,
             interrupts' = [interrupts EXCEPT ![NewId(interrupts, NoInterrupt)] =
                              Interrupt(kind, NoId, about)]
      PROVE  PairsStep
  <2> DEFINE i == NewId(interrupts, NoInterrupt)
  <2>1. i \in InterruptIds /\ interrupts[i] = NoInterrupt
    BY <1>0, <1>3, NewIdIsUnused
  <2>2. interrupts'[i].kind # "approval" /\ interrupts[i].kind # "approval"
    BY <1>0, <1>3, <2>1 DEF Interrupt, NoInterrupt
  <2> HIDE DEF i
  <2>3. \A j \in InterruptIds \ {i} : interrupts'[j] = interrupts[j]
    BY <1>0, <1>3 DEF i
  <2> QED BY <1>3, <2>2, <2>3 DEF PairsStep
<1>4. ASSUME NEW st, RoomForFeedback(st), interrupts' = InterruptsAfterFeedback(st),
             UNCHANGED approvals
      PROVE  PairsStep
  BY <1>1, <1>3, <1>4 DEF InterruptsAfterFeedback, RoomForFeedback
<1>5. ASSUME NEW answer \in {"answered", "cancelled"}, NEW to \in Resolutions,
             InterruptOpen(session.pending), interrupts[session.pending].kind = "approval",
             ApprovalOpen(interrupts[session.pending].approval),
             interrupts' = ResolvedInterrupt(session.pending, answer),
             approvals' = ResolvedApproval(interrupts[session.pending].approval, to)
      PROVE  PairsStep
  <2>1. session.pending \in InterruptIds
    BY <1>5 DEF InterruptOpen
  <2> QED BY <1>5, <2>1 DEF PairsStep
<1>6. CASE Accept
  <2>1. CASE Start \/ PostMessage
    BY <1>1, <2>1 DEF Start, PostMessage, store
  <2>2. CASE PostMessageSuperseding
    <3>1. CASE interrupts[session.pending].kind = "approval"
      <4>1. "cancelled" \in Resolutions
        BY DEF Resolutions
      <4> QED BY <1>5, <2>2, <3>1, <4>1 DEF PostMessageSuperseding
    <3>2. CASE interrupts[session.pending].kind # "approval"
      BY <1>2, <2>2, <3>2 DEF PostMessageSuperseding
    <3> QED BY <3>1, <3>2
  <2>3. CASE ResumeClarification \/ AcceptFeedback \/ RejectFeedback
    BY <1>2, <2>3 DEF ResumeClarification, AcceptFeedback, RejectFeedback, Waiting
  <2>4. ASSUME NEW decision \in Decisions, ResumeApproval(decision) PROVE PairsStep
    <3>1. decision \in Resolutions
      BY DEF Decisions, Resolutions
    <3> QED BY <1>5, <2>4, <3>1 DEF ResumeApproval, Waiting
  <2>5. ASSUME NEW a \in ApprovalIds, NEW to \in Decisions \cup {"expired", "cancelled"},
               RaiseAfterResolving(a, to)
        PROVE  PairsStep
    <3>1. /\ interrupts[session.pending].kind = "approval"
          /\ interrupts[session.pending].approval = a
          /\ session.pending # NoId /\ ~InterruptOpen(session.pending) /\ ApprovalOpen(a)
      BY <2>5 DEF RaiseAfterResolving, CanDecide, Waiting
    <3>2. session.pending \in InterruptIds
      BY <1>0, <3>1 DEF TypeOK, SessionRows
    <3> QED BY <3>1, <3>2 DEF Paired
  <2> QED BY <1>6, <2>1, <2>2, <2>3, <2>4, <2>5 DEF Accept, Decide, ResolveTerminal, CanDecide
<1>7. ASSUME NEW c \in CallIds, Proceed(c) PROVE PairsStep
  <2>1. CASE AskClarification(c)
    BY <1>3, <2>1 DEF AskClarification
  <2>2. CASE RequestApproval(c)
    <3>1. /\ NewId(interrupts, NoInterrupt) \in InterruptIds
          /\ interrupts[NewId(interrupts, NoInterrupt)] = NoInterrupt
          /\ NewId(approvals, NoApproval) \in ApprovalIds
          /\ approvals[NewId(approvals, NoApproval)] = NoApproval
      BY <1>0, <2>2, NewIdIsUnused DEF RequestApproval
    <3>2. PICK act \in HighRisk :
            /\ \E about : interrupts' = [interrupts EXCEPT ![NewId(interrupts, NoInterrupt)] =
                 Interrupt("approval", NewId(approvals, NoApproval), about)]
            /\ approvals' = [approvals EXCEPT ![NewId(approvals, NoApproval)] =
                 [status |-> "pending", act |-> act]]
      BY <2>2 DEF RequestApproval
    <3> QED BY <3>1, <3>2 DEF PairsStep
  <2>3. CASE DirectAnswer(c) \/ DiagnoseOnly(c)
    BY <1>4, <2>3 DEF DirectAnswer, DiagnoseOnly, EndRound
  <2>4. CASE ExecutionReturned(c) \/ ApprovedExecutionReturned(c)
    BY <1>4, <2>4 DEF ExecutionReturned, ApprovedExecutionReturned
  <2>5. CASE \/ Retrieved(c) \/ AutoApprove(c) \/ RejectProposal(c) \/ FailRound(c) \/ Ingest(c)
             \/ DecidedExecutionReturned(c) \/ Commit(c)
    BY <1>1, <2>5 DEF Retrieved, AutoApprove, RejectProposal, FailRound, Ingest,
                      DecidedExecutionReturned, Commit, store
  <2> QED BY <1>7, <2>1, <2>2, <2>3, <2>4, <2>5 DEF Proceed
<1>8. CASE Crash \/ UNCHANGED vars
  BY <1>1, <1>8 DEF Crash, vars, store
<1> QED BY <1>6, <1>7, <1>8 DEF Next

\* Each of the three keeps the pairs.
LEMMA PairsStay ==
  ASSUME TypeOK, Paired, PairsStep
  PROVE  Paired'
<1>0. \A i \in InterruptIds : interrupts[i] \in InterruptRows
  BY DEF TypeOK
<1>1. CASE /\ UNCHANGED approvals
           /\ \A i \in InterruptIds :
                \/ interrupts'[i] = interrupts[i]
                \/ interrupts[i].kind # "approval" /\ interrupts'[i].kind # "approval"
  BY <1>1 DEF Paired, InterruptOpen, ApprovalOpen
<1>2. ASSUME NEW i \in InterruptIds, NEW a \in ApprovalIds, NEW act \in HighRisk, NEW about,
             interrupts[i] = NoInterrupt, approvals[a] = NoApproval,
             interrupts' = [interrupts EXCEPT ![i] = Interrupt("approval", a, about)],
             approvals' = [approvals EXCEPT ![a] = [status |-> "pending", act |-> act]]
      PROVE  Paired'
  <2>1. /\ interrupts'[i].status = "pending" /\ interrupts'[i].approval = a
        /\ approvals'[a].status = "pending"
    BY <1>2 DEF TypeOK, Interrupt
  <2>2. \A j \in InterruptIds \ {i} : interrupts'[j] = interrupts[j]
    BY <1>2 DEF TypeOK
  <2>3. \A b \in ApprovalIds \ {a} : approvals'[b] = approvals[b]
    BY <1>2 DEF TypeOK
  <2>4. \A j \in InterruptIds : interrupts[j].kind = "approval" => interrupts[j].approval # a /\ j # i
    BY <1>2 DEF Paired, NoApproval, NoInterrupt
  <2> QED BY <2>1, <2>2, <2>3, <2>4 DEF Paired, InterruptOpen, ApprovalOpen
<1>3. ASSUME NEW i \in InterruptIds, NEW answer \in {"answered", "cancelled"},
             NEW to \in Resolutions, interrupts[i].kind = "approval",
             InterruptOpen(i), ApprovalOpen(interrupts[i].approval),
             interrupts' = ResolvedInterrupt(i, answer),
             approvals' = ResolvedApproval(interrupts[i].approval, to)
      PROVE  Paired'
  <2> DEFINE a == interrupts[i].approval
  <2>1. interrupts'[i].status = answer /\ interrupts'[i].approval = a
    BY <1>0, <1>3 DEF TypeOK, ResolvedInterrupt, InterruptRows
  <2>2. a \in ApprovalIds /\ approvals'[a].status = to
    BY <1>3 DEF TypeOK, ResolvedApproval, ApprovalOpen, ApprovalRows
  <2>3. \A j \in InterruptIds \ {i} : interrupts'[j] = interrupts[j]
    BY <1>3 DEF TypeOK, ResolvedInterrupt
  <2>4. \A b \in ApprovalIds \ {a} : approvals'[b] = approvals[b]
    BY <1>3 DEF TypeOK, ResolvedApproval
  <2>5. \A j \in InterruptIds \ {i} : interrupts[j].kind = "approval" => interrupts[j].approval # a
    BY <1>3 DEF Paired
  <2>6. answer # "pending" /\ to \notin {"pending", "absent"}
    BY DEF Resolutions
  <2> HIDE DEF a
  <2>7. ASSUME NEW j \in InterruptIds, interrupts'[j].kind = "approval"
        PROVE  LET b == interrupts'[j].approval
               IN /\ b \in ApprovalIds /\ approvals'[b].status # "absent"
                  /\ InterruptOpen(j)' <=> (b \in ApprovalIds /\ approvals'[b].status = "pending")
                  /\ \A k \in InterruptIds :
                       (interrupts'[k].kind = "approval" /\ interrupts'[k].approval = b) => k = j
    <3>1. CASE j = i
      BY <2>1, <2>2, <2>3, <2>5, <2>6, <3>1 DEF InterruptOpen
    <3>2. CASE j # i
      BY <1>3, <2>1, <2>3, <2>4, <2>5, <2>7, <3>2 DEF Paired, InterruptOpen, ApprovalOpen
    <3> QED BY <3>1, <3>2
  <2> QED BY <2>7 DEF Paired, ApprovalOpen
<1> QED BY <1>1, <1>2, <1>3 DEF PairsStep

PairsInv == Shape /\ Paired

LEMMA InitPairs == Init => PairsInv
BY InitShape DEF Init, PairsInv, Paired, NoInterrupt

LEMMA NextPairsInv == ASSUME ~DecisionApi PROVE PairsInv /\ [Next]_vars => PairsInv'
BY NextShape, NextPairs, PairsStay DEF PairsInv, Shape

\* Without the approval endpoints an approval and its interrupt are resolved
\* together: for any number of calls in progress, and whichever of them die.
THEOREM ApprovalAndInterruptAgree == ASSUME ~DecisionApi PROVE Spec => []InterruptFollowsApproval
<1>1. PairsInv => InterruptFollowsApproval
  BY DEF PairsInv, Paired, InterruptFollowsApproval
<1> QED BY <1>1, InitPairs, NextPairsInv, PTL DEF Spec

-----------------------------------------------------------------------------
(* A conversation that awaits an approval can be resumed.                  *)

\* The interrupt a state names for feedback is one for feedback.
NamesFeedback(table, st) ==
  (st \in IncidentStates /\ st.feedback # NoId) => table[st.feedback].kind = "feedback"

\* In every copy of the incident state.
CopiesNameFeedback ==
  /\ NamesFeedback(interrupts, session.istate) /\ NamesFeedback(interrupts, session.ckpt)
  /\ NamesFeedback(interrupts, snapshot)
  /\ \A c \in CallIds : /\ NamesFeedback(interrupts, calls[c].st)
                        /\ NamesFeedback(interrupts, calls[c].ckpt)

\* The diagnosis of this call has asked for an approval, and the row does not
\* say so yet.
AwaitsCommit(c) == calls[c].pc = "commit" /\ calls[c].result = "awaiting_approval"

\* What such a call is about to point the row at is open, and its own.
UncommittedOpen ==
  \A c \in CallIds : AwaitsCommit(c) =>
    LET i == calls[c].wait
    IN /\ i \in InterruptIds /\ interrupts[i].kind = "approval" /\ InterruptOpen(i)
       /\ session.pending # i
       /\ \A d \in CallIds : (AwaitsCommit(d) /\ calls[d].wait = i) => d = c

\* The resume of the interrupt is executing what was approved.
Executing(c, i) == calls[c].kind = "approve" /\ calls[c].pc = "exec" /\ calls[c].wait = i

\* The row points at an interrupt there is; when it says it awaits an
\* approval, at one that is open or being executed for.
AwaitedOpen ==
  /\ session.pending # NoId => interrupts[session.pending].kind # "none"
  /\ session.status = "awaiting_approval" =>
       /\ session.pending \in InterruptIds
       /\ interrupts[session.pending].kind = "approval"
       /\ InterruptOpen(session.pending) \/ \E c \in CallIds : Executing(c, session.pending)

\* What a step does to the row: its status and pending stay, with everything
\* that is open or executing, or an answer to what it points at is being
\* executed, or it stops awaiting an approval, or a call points it at the
\* interrupt of its approval.
RowStep ==
  \/ /\ session'.status = session.status /\ session'.pending = session.pending
     /\ \A i \in InterruptIds : InterruptOpen(i) => interrupts'[i] = interrupts[i]
     /\ \A c \in CallIds : calls[c].kind = "approve" /\ calls[c].pc = "exec" => calls'[c] = calls[c]
  \/ /\ session'.status = session.status /\ session'.pending = session.pending
     /\ session.pending # NoId
     /\ \E c \in CallIds : /\ calls'[c].kind = "approve" /\ calls'[c].pc = "exec"
                           /\ calls'[c].wait = session.pending
  \/ /\ session'.status # "awaiting_approval"
     /\ session'.pending # NoId => interrupts'[session'.pending].kind \in {"clarification", "feedback"}
  \/ /\ UNCHANGED interrupts
     /\ \E c \in CallIds : /\ AwaitsCommit(c) /\ session'.pending = calls[c].wait
                           /\ calls'[c].pc = "done"

\* A call newly awaits the commit of its approval only with a new interrupt.
WaitsStep ==
  \A c \in CallIds : AwaitsCommit(c)' =>
    \/ calls'[c] = calls[c]
    \/ /\ UNCHANGED session
       /\ \A d \in CallIds \ {c} : calls'[d] = calls[d]
       /\ calls'[c].wait \in InterruptIds /\ interrupts[calls'[c].wait] = NoInterrupt
       /\ interrupts'[calls'[c].wait].status = "pending"
       /\ interrupts'[calls'[c].wait].kind = "approval"

WaitInv == Shape /\ CopiesNameFeedback /\ UncommittedOpen /\ AwaitedOpen

\* An interrupt keeps its kind, and is open until it is answered through the
\* row.
LEMMA KindsStay ==
  ASSUME TypeOK, InterruptsStep, NEW i \in InterruptIds, interrupts[i].kind # "none"
  PROVE  /\ interrupts'[i].kind = interrupts[i].kind
         /\ (InterruptOpen(i) /\ i # session.pending) => InterruptOpen(i)'
<1>1. interrupts[i] \in InterruptRows /\ NoInterrupt.kind = "none"
  BY DEF TypeOK, NoInterrupt
<1>2. interrupts[i] # NoInterrupt
  BY <1>1
<1>3. ASSUME NEW to
      PROVE  [interrupts[i] EXCEPT !.status = to].kind = interrupts[i].kind
  BY <1>1 DEF InterruptRows
<1> QED BY <1>2, <1>3, ZenonT(30) DEF InterruptsStep, InterruptOpen

\* The row and the waits go on from what the two parts of a step say.
LEMMA WaitStepSuffices ==
  ASSUME WaitInv, InterruptsStep, RowStep, WaitsStep
  PROVE  UncommittedOpen' /\ AwaitedOpen'
<1>0. /\ TypeOK /\ NoId \notin InterruptIds /\ NoInterrupt.kind = "none"
      /\ session.pending \in InterruptIds \cup {NoId}
      /\ \A c \in CallIds : calls[c].wait \in InterruptIds \cup {NoId}
  BY DEF WaitInv, Shape, TypeOK, SessionRows, CallRows, NoId, InterruptIds, NoInterrupt
<1>1. \A i \in InterruptIds : interrupts[i].kind # "none" =>
        /\ interrupts'[i].kind = interrupts[i].kind
        /\ (InterruptOpen(i) /\ i # session.pending) => interrupts'[i].status = "pending"
  BY <1>0, KindsStay DEF InterruptOpen
<1>2. ASSUME NEW c \in CallIds, AwaitsCommit(c)', NEW i, i = calls'[c].wait
      PROVE  /\ i \in InterruptIds /\ interrupts'[i].kind = "approval"
             /\ interrupts'[i].status = "pending" /\ session'.pending # i
             /\ \A d \in CallIds : (AwaitsCommit(d)' /\ calls'[d].wait = i) => d = c
  <2>1. CASE calls'[c] = calls[c]
    <3>1. AwaitsCommit(c) /\ i = calls[c].wait
      BY <1>2, <2>1 DEF AwaitsCommit
    <3>2. /\ i \in InterruptIds /\ interrupts[i].kind = "approval" /\ InterruptOpen(i)
          /\ session.pending # i
          /\ \A d \in CallIds : (AwaitsCommit(d) /\ calls[d].wait = i) => d = c
      BY <3>1 DEF WaitInv, UncommittedOpen
    <3>3. interrupts'[i].kind = "approval" /\ interrupts'[i].status = "pending"
      BY <1>1, <3>2
    <3>4. session'.pending # i
      BY <1>0, <1>2, <2>1, <3>2, <3>3 DEF RowStep, AwaitsCommit
    <3>5. ASSUME NEW d \in CallIds, AwaitsCommit(d)', calls'[d].wait = i
          PROVE  d = c
      <4>1. CASE calls'[d] = calls[d]
        BY <3>2, <3>5, <4>1 DEF AwaitsCommit
      <4>2. CASE calls'[d] # calls[d]
        BY <1>0, <3>2, <3>5, <4>2 DEF WaitsStep
      <4> QED BY <4>1, <4>2
    <3> QED BY <3>2, <3>3, <3>4, <3>5
  <2>2. CASE calls'[c] # calls[c]
    <3>1. /\ UNCHANGED session
          /\ \A d \in CallIds \ {c} : calls'[d] = calls[d]
          /\ i \in InterruptIds /\ interrupts[i] = NoInterrupt
          /\ interrupts'[i].status = "pending" /\ interrupts'[i].kind = "approval"
      BY <1>2, <2>2 DEF WaitsStep
    <3>2. session.pending # i
      BY <1>0, <3>1 DEF WaitInv, AwaitedOpen
    <3>3. ASSUME NEW d \in CallIds, AwaitsCommit(d)', calls'[d].wait = i
          PROVE  d = c
      <4> SUFFICES ASSUME d # c PROVE FALSE
        OBVIOUS
      <4>1. AwaitsCommit(d) /\ calls[d].wait = i
        BY <3>1, <3>3 DEF AwaitsCommit
      <4> QED BY <1>0, <3>1, <4>1 DEF WaitInv, UncommittedOpen
    <3> QED BY <3>1, <3>2, <3>3
  <2> QED BY <2>1, <2>2
<1>3. UncommittedOpen'
  BY <1>2 DEF UncommittedOpen, InterruptOpen
<1>4. AwaitedOpen'
  <2>1. CASE /\ session'.status = session.status /\ session'.pending = session.pending
             /\ \A i \in InterruptIds : InterruptOpen(i) => interrupts'[i] = interrupts[i]
             /\ \A c \in CallIds : calls[c].kind = "approve" /\ calls[c].pc = "exec"
                                     => calls'[c] = calls[c]
    <3>1. \A i \in InterruptIds : InterruptOpen(i) => InterruptOpen(i)'
      BY <2>1 DEF InterruptOpen
    <3>2. \A c \in CallIds : Executing(c, session.pending) => Executing(c, session.pending)'
      BY <2>1 DEF Executing
    <3> QED BY <1>0, <1>1, <2>1, <3>1, <3>2 DEF WaitInv, AwaitedOpen
  <2>2. CASE /\ session'.status = session.status /\ session'.pending = session.pending
             /\ session.pending # NoId
             /\ \E c \in CallIds : /\ calls'[c].kind = "approve" /\ calls'[c].pc = "exec"
                                   /\ calls'[c].wait = session.pending
    <3>1. \E c \in CallIds : Executing(c, session.pending)'
      BY <2>2 DEF Executing
    <3> QED BY <1>0, <1>1, <2>2, <3>1 DEF WaitInv, AwaitedOpen
  <2>3. CASE /\ session'.status # "awaiting_approval"
             /\ session'.pending # NoId
                  => interrupts'[session'.pending].kind \in {"clarification", "feedback"}
    BY <2>3 DEF AwaitedOpen
  <2>4. ASSUME UNCHANGED interrupts, NEW c \in CallIds, AwaitsCommit(c),
               session'.pending = calls[c].wait
        PROVE  AwaitedOpen'
    <3>1. /\ calls[c].wait \in InterruptIds /\ interrupts[calls[c].wait].kind = "approval"
          /\ InterruptOpen(calls[c].wait)
      BY <2>4 DEF WaitInv, UncommittedOpen
    <3> QED BY <2>4, <3>1 DEF AwaitedOpen, InterruptOpen
  <2> QED BY <2>1, <2>2, <2>3, <2>4 DEF RowStep
<1> QED BY <1>3, <1>4

-----------------------------------------------------------------------------
\* A step moves the copies of the state around or replaces them by states
\* that name feedback interrupts.
StepNames ==
  /\ session'.istate = session.istate \/ NamesFeedback(interrupts', session'.istate)
  /\ session'.ckpt = session.ckpt \/ NamesFeedback(interrupts', session'.ckpt)
  /\ snapshot' = snapshot \/ NamesFeedback(interrupts', snapshot')
  /\ \A c \in CallIds :
       /\ calls'[c].st = calls[c].st \/ NamesFeedback(interrupts', calls'[c].st)
       /\ calls'[c].ckpt = calls[c].ckpt \/ NamesFeedback(interrupts', calls'[c].ckpt)

\* A name for feedback stays one.
LEMMA NamesStay ==
  ASSUME TypeOK, InterruptsStep, NEW st, NamesFeedback(interrupts, st)
  PROVE  NamesFeedback(interrupts', st)
<1> SUFFICES ASSUME st \in IncidentStates, st.feedback # NoId
             PROVE  interrupts'[st.feedback].kind = "feedback"
  BY DEF NamesFeedback
<1>1. st.feedback \in InterruptIds /\ interrupts[st.feedback].kind = "feedback"
  BY DEF NamesFeedback, IncidentStates
<1> QED BY <1>1, KindsStay

\* A state that names the same interrupt, or none, does so too.
LEMMA NamesSame ==
  ASSUME NEW table, NEW st \in IncidentStates, NamesFeedback(table, st),
         NEW st2, st2.feedback \in {st.feedback, NoId}
  PROVE  NamesFeedback(table, st2)
BY DEF NamesFeedback

\* Approving and ranking leave the interrupt of a state alone.
LEMMA ApproveNames ==
  ASSUME NEW st \in IncidentStates, NEW ap, NEW act
  PROVE  Approve(st, ap, act).feedback = st.feedback
BY DEF Approve, IncidentStates

LEMMA RankedNames ==
  ASSUME NEW st \in IncidentStates, NEW p, NEW asked
  PROVE  Ranked(st, p, asked).feedback = st.feedback
BY DEF Ranked, IncidentStates

LEMMA NoStateNames ==
  ASSUME NEW table
  PROVE  NamesFeedback(table, NoState)
BY NoStateIsNone DEF NamesFeedback

\* What is asked for feedback with is recorded as that.
LEMMA AskFeedbackNames ==
  ASSUME TypeOK, InterruptsStep, NEW st \in IncidentStates, RoomForFeedback(st),
         NamesFeedback(interrupts, st), interrupts' = InterruptsAfterFeedback(st)
  PROVE  /\ NamesFeedback(interrupts', AskFeedback(st))
         /\ \A i \in InterruptIds : InterruptOpen(i) => interrupts'[i] = interrupts[i]
<1> DEFINE i == NewId(interrupts, NoInterrupt)
<1>1. CASE NeedsFeedback(st)
  <2>1. i \in InterruptIds /\ interrupts[i] = NoInterrupt
    BY <1>1, NewIdIsUnused DEF RoomForFeedback, TypeOK
  <2>2. interrupts' = [interrupts EXCEPT ![i] = Interrupt("feedback", NoId, st.about)]
    BY <1>1 DEF InterruptsAfterFeedback
  <2>3. AskFeedback(st).feedback = i
    BY <1>1 DEF AskFeedback, IncidentStates
  <2> HIDE DEF i
  <2>4. interrupts'[i].kind = "feedback"
    BY <2>1, <2>2 DEF TypeOK, Interrupt
  <2>5. ~InterruptOpen(i)
    BY <2>1 DEF InterruptOpen, NoInterrupt
  <2> QED BY <2>2, <2>3, <2>4, <2>5 DEF NamesFeedback, TypeOK
<1>2. CASE ~NeedsFeedback(st)
  BY <1>2 DEF AskFeedback, InterruptsAfterFeedback
<1> QED BY <1>1, <1>2

\* Without crashes and without the approval endpoints.
LEMMA NextWaits ==
  ASSUME ~DecisionApi, MaxCrashes = 0
  PROVE  WaitInv /\ [Next]_vars => StepNames /\ RowStep /\ WaitsStep
<1> SUFFICES ASSUME WaitInv, [Next]_vars PROVE StepNames /\ RowStep /\ WaitsStep
  OBVIOUS
<1> DEFINE Goal == StepNames /\ RowStep /\ WaitsStep
<1>0. /\ Shape /\ TypeOK /\ CallsHaveState /\ InterruptsStep /\ DOMAIN interrupts = InterruptIds
      /\ DOMAIN calls = CallIds /\ \A c \in CallIds : calls[c] \in CallRows
  BY NextInterrupts DEF WaitInv, Shape, TypeOK
<1>1. \A st : NamesFeedback(interrupts, st) => NamesFeedback(interrupts', st)
  BY <1>0, NamesStay
<1>2. /\ NamesFeedback(interrupts, session.istate) /\ NamesFeedback(interrupts, session.ckpt)
      /\ NamesFeedback(interrupts, RestoredState) /\ NamesFeedback(interrupts, NoState)
      /\ \A c \in CallIds : /\ NamesFeedback(interrupts, calls[c].st)
                            /\ NamesFeedback(interrupts, calls[c].ckpt)
  BY NoStateNames DEF WaitInv, CopiesNameFeedback, RestoredState
<1>3. CASE \/ Start \/ PostMessage \/ PostMessageSuperseding
           \/ ResumeClarification \/ RejectFeedback
  <2> DEFINE reopened == [RestoredState EXCEPT !.feedback = NoId]
  <2>1. /\ NewCall \in CallIds /\ calls[NewCall] = IdleCall
        /\ NamesFeedback(interrupts', FreshState(NewCall))
    BY <1>0, <1>3, NewCallIsUnused
       DEF Start, PostMessage, PostMessageSuperseding, ResumeClarification, RejectFeedback,
           NamesFeedback, FreshState
  <2>2. (ResumeClarification \/ RejectFeedback) =>
          RestoredState \in IncidentStates /\ NamesFeedback(interrupts', reopened)
    <3> SUFFICES ASSUME ResumeClarification \/ RejectFeedback
                 PROVE  RestoredState \in IncidentStates /\ NamesFeedback(interrupts', reopened)
      OBVIOUS
    <3>1. RestoredState \in IncidentStates
      BY <1>0, RestoredStateType DEF ResumeClarification, RejectFeedback, Waiting
    <3>2. reopened.feedback = NoId
      BY <3>1 DEF IncidentStates
    <3> QED BY <3>1, <3>2 DEF NamesFeedback
  <2>3. PICK kind \in {"start", "message", "clarify", "reopen"}, pc \in {"rag", "guide"},
             ckpt \in {session.ckpt, NoState},
             st \in {FreshState(NewCall), RestoredState, reopened} :
          /\ calls' = [calls EXCEPT ![NewCall] = Call(pc, kind, st, ckpt, NoId, NoId)]
          /\ \/ st = FreshState(NewCall)
             \/ st = RestoredState
             \/ (ResumeClarification \/ RejectFeedback) /\ st = reopened
          /\ \/ UNCHANGED <<session, interrupts>>
             \/ session' = NewSession(st)
             \/ session' = Reactivated(session.istate)
             \/ session' = Reactivated(st)
    BY <1>3 DEF Start, PostMessage, PostMessageSuperseding, ResumeClarification, RejectFeedback,
                BeginRound, Accepted, store
  <2>4. NamesFeedback(interrupts', st)
    BY <1>1, <1>2, <2>1, <2>2, <2>3
  <2> HIDE DEF reopened
  <2> DEFINE new == Call(pc, kind, st, ckpt, NoId, NoId)
  <2>5. new.pc # "commit" /\ new.st = st /\ new.ckpt = ckpt
    BY DEF Call
  <2> HIDE DEF new
  <2>6. calls'[NewCall] = new /\ \A d \in CallIds \ {NewCall} : calls'[d] = calls[d]
    BY <1>0, <2>1, <2>3 DEF new
  <2>7. WaitsStep
    BY <2>5, <2>6 DEF WaitsStep, AwaitsCommit
  <2>8. \/ UNCHANGED <<session, interrupts>>
        \/ /\ session'.status = "active" /\ session'.pending = NoId
           /\ session'.istate \in {session.istate, st} /\ session'.ckpt \in {session.ckpt, NoState}
    <3>1. CASE session' = NewSession(st)
      BY <3>1 DEF NewSession
    <3>2. ASSUME NEW new2, session' = Reactivated(new2)
          PROVE  /\ session'.status = "active" /\ session'.pending = NoId
                 /\ session'.istate = new2 /\ session'.ckpt = session.ckpt
      BY <1>0, <3>2 DEF Reactivated, TypeOK, SessionRows
    <3> QED BY <2>3, <3>1, <3>2
  <2>9. RowStep
    <3>1. calls[NewCall].kind # "approve"
      BY <2>1 DEF IdleCall, Call
    <3> QED BY <2>6, <2>8, <3>1 DEF RowStep
  <2>10. UNCHANGED snapshot
    BY <1>3 DEF Start, PostMessage, PostMessageSuperseding, ResumeClarification, RejectFeedback, store
  <2>11. StepNames
    BY <1>1, <1>2, <2>3, <2>4, <2>5, <2>6, <2>8, <2>10 DEF StepNames
  <2> QED BY <2>7, <2>9, <2>11
<1>4. CASE AcceptFeedback
  <2>1. /\ session'.status = "completed" /\ session'.pending = NoId
        /\ session'.istate = session.istate /\ session'.ckpt = session.ckpt
        /\ UNCHANGED <<snapshot, calls>>
    BY <1>0, <1>4 DEF AcceptFeedback, TypeOK, SessionRows
  <2> QED BY <2>1 DEF StepNames, RowStep, WaitsStep
<1>5. ASSUME NEW decision \in Decisions, ResumeApproval(decision) PROVE Goal
  <2> DEFINE i  == session.pending
             a  == interrupts[i].approval
             st == [session.istate EXCEPT !.asked = FALSE]
             granted == Approve(st, a, approvals[a].act)
             resumed == Call("exec", "approve", granted, NoState, i, a)
             refused == Call("done", "approve", NoState, NoState, NoId, a)
  <2>1. /\ NewCall \in CallIds /\ calls[NewCall] = IdleCall /\ i # NoId
        /\ session.istate \in IncidentStates
    BY <1>0, <1>5, NewCallIsUnused
       DEF ResumeApproval, Waiting, Shape, TypeOK, SessionRows, States, SessionHasState
  <2>a. st \in IncidentStates /\ st.feedback = session.istate.feedback
    BY <2>1 DEF IncidentStates
  <2>2. /\ st \in IncidentStates /\ st.feedback = session.istate.feedback
        /\ granted.feedback = st.feedback
    BY <2>a, ApproveNames
  <2>b. NamesFeedback(interrupts', session.istate)
    BY <1>1, <1>2
  <2>3. NamesFeedback(interrupts', st) /\ NamesFeedback(interrupts', granted)
    BY <2>1, <2>2, <2>b DEF NamesFeedback
  <2>4. \/ /\ calls' = [calls EXCEPT ![NewCall] = resumed]
           /\ UNCHANGED <<session, snapshot>>
        \/ /\ calls' = [calls EXCEPT ![NewCall] = refused]
           /\ session' = [status |-> "completed", pending |-> st.feedback,
                          istate |-> st, ckpt |-> st]
           /\ snapshot' = st
    BY <1>5 DEF ResumeApproval, Conclude
  <2>5. /\ resumed.pc = "exec" /\ resumed.kind = "approve" /\ resumed.wait = i
        /\ resumed.st = granted /\ resumed.ckpt = NoState
        /\ refused.pc = "done" /\ refused.st = NoState /\ refused.ckpt = NoState
    BY DEF Call
  <2> HIDE DEF i, a, st, granted, resumed, refused
  <2>6. CASE calls' = [calls EXCEPT ![NewCall] = resumed] /\ UNCHANGED <<session, snapshot>>
    <3>1. calls'[NewCall] = resumed /\ \A d \in CallIds \ {NewCall} : calls'[d] = calls[d]
      BY <1>0, <2>1, <2>6
    <3>3. RowStep
      BY <2>1, <2>5, <2>6, <3>1 DEF RowStep, i
    <3>4. WaitsStep /\ StepNames
      BY <1>1, <1>2, <2>3, <2>5, <2>6, <3>1 DEF WaitsStep, AwaitsCommit, StepNames
    <3> QED BY <3>3, <3>4
  <2>7. CASE /\ calls' = [calls EXCEPT ![NewCall] = refused]
             /\ session' = [status |-> "completed", pending |-> st.feedback,
                            istate |-> st, ckpt |-> st]
             /\ snapshot' = st
    <3>1. calls'[NewCall] = refused /\ \A d \in CallIds \ {NewCall} : calls'[d] = calls[d]
      BY <1>0, <2>1, <2>7
    <3>2. /\ session'.status = "completed" /\ session'.pending = st.feedback
          /\ session'.istate = st /\ session'.ckpt = st
      BY <2>7
    <3>3. RowStep
      BY <2>2, <2>3, <3>2 DEF RowStep, NamesFeedback
    <3>4. WaitsStep /\ StepNames
      BY <1>1, <1>2, <2>3, <2>5, <2>7, <3>1, <3>2 DEF WaitsStep, AwaitsCommit, StepNames
    <3> QED BY <3>3, <3>4
  <2> QED BY <2>4, <2>6, <2>7
<1>6. CASE \/ UNCHANGED vars
           \/ \E a \in ApprovalIds, to \in Decisions \cup {"expired", "cancelled"} :
                RaiseAfterResolving(a, to)
  BY <1>6 DEF RaiseAfterResolving, vars, StepNames, RowStep, WaitsStep
<1>7. ASSUME NEW c \in CallIds, Retrieved(c) PROVE Goal
  <2>1. /\ calls[c].pc = "rag" /\ calls' = [calls EXCEPT ![c].pc = "loop"]
        /\ UNCHANGED <<interrupts, snapshot>>
        /\ UNCHANGED session \/ session' = NewSession(calls[c].st)
    BY <1>7 DEF Retrieved
  <2>2. /\ calls'[c].pc = "loop" /\ \A d \in CallIds \ {c} : calls'[d] = calls[d]
        /\ \A d \in CallIds : calls'[d].st = calls[d].st /\ calls'[d].ckpt = calls[d].ckpt
    BY <1>0, <2>1 DEF CallRows
  <2>3. \/ UNCHANGED session
        \/ /\ session'.status = "active" /\ session'.pending = NoId
           /\ session'.istate = calls[c].st /\ session'.ckpt = NoState
    BY <2>1 DEF NewSession
  <2> QED BY <1>1, <1>2, <2>1, <2>2, <2>3 DEF StepNames, RowStep, WaitsStep, AwaitsCommit
<1>8. ASSUME NEW c \in CallIds, AskClarification(c) PROVE Goal
  <2> DEFINE i == NewId(interrupts, NoInterrupt)
  <2>1. /\ interrupts' = [interrupts EXCEPT ![i] = Interrupt("clarification", NoId, calls[c].st.about)]
        /\ session'.status = "awaiting_clarification" /\ session'.pending = i
        /\ session'.istate = calls[c].st /\ session'.ckpt = calls[c].ckpt
        /\ calls' = [calls EXCEPT ![c].pc = "done"]
        /\ UNCHANGED snapshot
    BY <1>8 DEF AskClarification, Finished
  <2>2. i \in InterruptIds
    BY <1>0, <1>8, NewIdIsUnused DEF AskClarification
  <2>3. interrupts'[i].kind = "clarification"
    BY <1>0, <2>1, <2>2 DEF Interrupt
  <2> HIDE DEF i
  <2>4. /\ calls'[c].pc = "done" /\ \A d \in CallIds \ {c} : calls'[d] = calls[d]
        /\ \A d \in CallIds : calls'[d].st = calls[d].st /\ calls'[d].ckpt = calls[d].ckpt
    BY <1>0, <2>1 DEF CallRows
  <2> QED BY <1>1, <1>2, <2>1, <2>3, <2>4 DEF StepNames, RowStep, WaitsStep, AwaitsCommit
<1>9. ASSUME NEW c \in CallIds, DirectAnswer(c) \/ DiagnoseOnly(c) \/ ExecutionReturned(c)
      PROVE  Goal
  <2>1. PICK st \in {calls[c].st, [calls[c].st EXCEPT !.primary = "no_action"]}, r \in Outcomes :
          /\ \/ calls' = [calls EXCEPT ![c].pc = "commit", ![c].st = AskFeedback(st), ![c].result = r]
             \/ calls' = [calls EXCEPT ![c].pc = "commit", ![c].result = r, ![c].st = AskFeedback(st)]
          /\ UNCHANGED <<session, snapshot>>
          /\ RoomForFeedback(st)
          /\ interrupts' = InterruptsAfterFeedback(st)
          /\ calls[c].pc \in {"loop", "exec"}
          /\ ~(calls[c].pc = "exec" /\ calls[c].kind = "approve")
    BY <1>9 DEF DirectAnswer, DiagnoseOnly, EndRound, ExecutionReturned, Outcomes
  <2>2. calls[c].st \in IncidentStates
    BY <1>0, <2>1 DEF CallsHaveState
  <2>3. st \in IncidentStates /\ st.feedback = calls[c].st.feedback
    BY <2>2 DEF IncidentStates, Primaries
  <2>4. NamesFeedback(interrupts, st)
    BY <1>2, <2>2, <2>3, NamesSame
  <2>5. /\ NamesFeedback(interrupts', AskFeedback(st))
        /\ \A i \in InterruptIds : InterruptOpen(i) => interrupts'[i] = interrupts[i]
    BY <1>0, <2>1, <2>3, <2>4, AskFeedbackNames
  <2>6. /\ calls'[c].result = r /\ calls'[c].st = AskFeedback(st) /\ calls'[c].ckpt = calls[c].ckpt
        /\ \A d \in CallIds \ {c} : calls'[d] = calls[d]
    BY <1>0, <2>1 DEF CallRows
  <2>7. r # "awaiting_approval"
    BY DEF Outcomes
  <2>8. StepNames
    BY <2>1, <2>5, <2>6 DEF StepNames
  <2>9. RowStep /\ WaitsStep
    BY <2>1, <2>5, <2>6, <2>7 DEF RowStep, WaitsStep, AwaitsCommit
  <2> QED BY <2>8, <2>9
<1>10. ASSUME NEW c \in CallIds, RequestApproval(c) PROVE Goal
  <2> DEFINE i == NewId(interrupts, NoInterrupt)
  <2>1. i \in InterruptIds /\ interrupts[i] = NoInterrupt
    BY <1>0, <1>10, NewIdIsUnused DEF RequestApproval
  <2>2. PICK act \in HighRisk :
          /\ interrupts' = [interrupts EXCEPT ![i] =
               Interrupt("approval", NewId(approvals, NoApproval), Ranked(calls[c].st, act, TRUE).about)]
          /\ calls' = [calls EXCEPT ![c].pc = "commit", ![c].st = Ranked(calls[c].st, act, TRUE),
                                    ![c].wait = i, ![c].result = "awaiting_approval"]
    BY <1>10 DEF RequestApproval
  <2>3. /\ calls[c].pc = "loop" /\ UNCHANGED <<session, snapshot>>
        /\ calls[c].st \in IncidentStates
    BY <1>0, <1>10 DEF RequestApproval, CallsHaveState
  <2>4. NamesFeedback(interrupts', Ranked(calls[c].st, act, TRUE))
    <3>1. Ranked(calls[c].st, act, TRUE).feedback = calls[c].st.feedback
      BY <2>3, RankedNames
    <3>2. NamesFeedback(interrupts', calls[c].st)
      BY <1>1, <1>2
    <3> QED BY <2>3, <3>1, <3>2 DEF NamesFeedback
  <2> HIDE DEF i
  <2>5. interrupts'[i].status = "pending" /\ interrupts'[i].kind = "approval"
    BY <1>0, <2>1, <2>2 DEF Interrupt
  <2>6. \A j \in InterruptIds : InterruptOpen(j) => interrupts'[j] = interrupts[j]
    <3>1. ~InterruptOpen(i)
      BY <2>1 DEF InterruptOpen, NoInterrupt
    <3> QED BY <1>0, <2>2, <3>1
  <2>7. /\ calls'[c].wait = i /\ calls'[c].st = Ranked(calls[c].st, act, TRUE)
        /\ calls'[c].ckpt = calls[c].ckpt
        /\ \A d \in CallIds \ {c} : calls'[d] = calls[d]
    BY <1>0, <2>2 DEF CallRows
  <2>8. StepNames
    BY <2>3, <2>4, <2>7 DEF StepNames
  <2>9. RowStep /\ WaitsStep
    BY <2>1, <2>3, <2>5, <2>6, <2>7 DEF RowStep, WaitsStep
  <2> QED BY <2>8, <2>9
<1>11. ASSUME NEW c \in CallIds, AutoApprove(c) \/ RejectProposal(c) PROVE Goal
  <2>1. /\ calls[c].pc = "loop" /\ calls[c].st \in IncidentStates
        /\ UNCHANGED <<session, interrupts, snapshot>>
    BY <1>0, <1>11 DEF AutoApprove, RejectProposal, CallsHaveState, store
  <2>2. PICK act \in Actions :
        \E st :
          /\ \/ st = Approve(Ranked(calls[c].st, act, FALSE), AutoApproved, act)
             \/ st = Ranked(calls[c].st, act, FALSE)
          /\ calls' = [calls EXCEPT ![c].pc = "exec", ![c].st = st]
    BY <1>11 DEF AutoApprove, RejectProposal, Actions
  <2>a. PICK st :
          /\ \/ st = Approve(Ranked(calls[c].st, act, FALSE), AutoApproved, act)
             \/ st = Ranked(calls[c].st, act, FALSE)
          /\ calls' = [calls EXCEPT ![c].pc = "exec", ![c].st = st]
    BY <2>2
  <2>3. /\ Ranked(calls[c].st, act, FALSE) \in IncidentStates
        /\ Ranked(calls[c].st, act, FALSE).feedback = calls[c].st.feedback
    BY <2>1, RankedType, RankedNames DEF Primaries
  <2>4. st.feedback = calls[c].st.feedback
    <3>1. CASE st = Ranked(calls[c].st, act, FALSE)
      BY <2>3, <3>1
    <3>2. CASE st = Approve(Ranked(calls[c].st, act, FALSE), AutoApproved, act)
      <4>1. Approve(Ranked(calls[c].st, act, FALSE), AutoApproved, act).feedback =
              Ranked(calls[c].st, act, FALSE).feedback
        BY <2>3, ApproveNames
      <4> QED BY <2>3, <3>2, <4>1
    <3> QED BY <2>a, <3>1, <3>2
  <2>5. NamesFeedback(interrupts', st)
    BY <1>1, <1>2, <2>1, <2>4, NamesSame
  <2>6. /\ calls'[c].pc = "exec" /\ calls'[c].st = st /\ calls'[c].ckpt = calls[c].ckpt
        /\ \A d \in CallIds \ {c} : calls'[d] = calls[d]
    BY <1>0, <2>a DEF CallRows
  <2> QED BY <2>1, <2>5, <2>6 DEF StepNames, RowStep, WaitsStep, AwaitsCommit
<1>12. ASSUME NEW c \in CallIds, FailRound(c) PROVE Goal
  <2>1. /\ session'.status = "failed" /\ session'.pending = NoId
        /\ session'.istate = session.istate /\ session'.ckpt = NoState
        /\ calls' = [calls EXCEPT ![c].pc = "done"] /\ UNCHANGED snapshot
    BY <1>0, <1>12 DEF FailRound, Finished, TypeOK, SessionRows
  <2>2. /\ calls'[c].pc = "done" /\ \A d \in CallIds \ {c} : calls'[d] = calls[d]
        /\ \A d \in CallIds : calls'[d].st = calls[d].st /\ calls'[d].ckpt = calls[d].ckpt
    BY <1>0, <2>1 DEF CallRows
  <2> QED BY <1>1, <1>2, <2>1, <2>2 DEF StepNames, RowStep, WaitsStep, AwaitsCommit
<1>13. ASSUME NEW c \in CallIds, Ingest(c) PROVE Goal
  <2> DEFINE a  == calls[c].approval
             st == [session.istate EXCEPT !.asked = FALSE]
             granted == Approve(st, a, approvals[a].act)
  <2>1. calls[c].pc = "ingest" /\ UNCHANGED <<session, interrupts, snapshot>>
    BY <1>13 DEF Ingest, store
  <2>2. session.istate \in IncidentStates
    BY <1>0, <2>1 DEF Shape, TypeOK, SessionRows, States, SessionHasState
  <2>a. st \in IncidentStates /\ st.feedback = session.istate.feedback
    BY <2>2 DEF IncidentStates
  <2>3. /\ st \in IncidentStates /\ st.feedback = session.istate.feedback
        /\ granted.feedback = st.feedback
    BY <2>a, ApproveNames
  <2>b. NamesFeedback(interrupts', session.istate)
    BY <1>1, <1>2
  <2>4. NamesFeedback(interrupts', st) /\ NamesFeedback(interrupts', granted)
    BY <2>2, <2>3, <2>b DEF NamesFeedback
  <2>5. PICK pc \in {"exec", "commit"}, new \in {st, granted}, r \in {calls[c].result, "completed"} :
          /\ \/ calls' = [calls EXCEPT ![c].pc = pc, ![c].st = new]
             \/ calls' = [calls EXCEPT ![c].pc = pc, ![c].st = new, ![c].result = r]
          /\ pc = "commit" => calls' = [calls EXCEPT ![c].pc = pc, ![c].st = new, ![c].result = "completed"]
    BY <1>13 DEF Ingest
  <2> HIDE DEF a, st, granted
  <2>6. /\ calls'[c].pc = pc /\ calls'[c].st = new /\ calls'[c].ckpt = calls[c].ckpt
        /\ pc = "commit" => calls'[c].result = "completed"
        /\ \A d \in CallIds \ {c} : calls'[d] = calls[d]
    BY <1>0, <2>5 DEF CallRows
  <2> QED BY <2>1, <2>4, <2>5, <2>6 DEF StepNames, RowStep, WaitsStep, AwaitsCommit
<1>14. ASSUME NEW c \in CallIds, DecidedExecutionReturned(c) PROVE Goal
  <2>1. PICK r \in Outcomes :
          /\ calls' = [calls EXCEPT ![c].pc = "commit", ![c].result = r]
          /\ calls[c].kind = "decide" /\ UNCHANGED <<session, interrupts, snapshot>>
    BY <1>14 DEF DecidedExecutionReturned, store
  <2>2. /\ calls'[c].result = r /\ \A d \in CallIds \ {c} : calls'[d] = calls[d]
        /\ \A d \in CallIds : calls'[d].st = calls[d].st /\ calls'[d].ckpt = calls[d].ckpt
    BY <1>0, <2>1 DEF CallRows
  <2> QED BY <2>1, <2>2 DEF StepNames, RowStep, WaitsStep, AwaitsCommit, Outcomes
<1>15. ASSUME NEW c \in CallIds, ApprovedExecutionReturned(c) PROVE Goal
  <2> DEFINE st  == calls[c].st
             st2 == AskFeedback(st)
  <2>1. /\ RoomForFeedback(st) /\ interrupts' = InterruptsAfterFeedback(st)
        /\ st \in IncidentStates /\ calls' = [calls EXCEPT ![c].pc = "done"]
    BY <1>0, <1>15 DEF ApprovedExecutionReturned, CallsHaveState, Finished
  <2>2. NamesFeedback(interrupts', st2)
    BY <1>0, <1>2, <2>1, AskFeedbackNames
  <2>3. st2 \in IncidentStates
    BY <1>0, <2>1, AskFeedbackType
  <2>4. PICK r \in Outcomes : Conclude(r, st2.feedback, st2)
    BY <1>15 DEF ApprovedExecutionReturned
  <2> HIDE DEF st, st2
  <2>5. /\ session'.status = r /\ session'.pending = st2.feedback
        /\ session'.istate = st2 /\ session'.ckpt = st2 /\ snapshot' = st2
    BY <2>4 DEF Conclude
  <2>6. /\ calls'[c].pc = "done" /\ \A d \in CallIds \ {c} : calls'[d] = calls[d]
        /\ \A d \in CallIds : calls'[d].st = calls[d].st /\ calls'[d].ckpt = calls[d].ckpt
    BY <1>0, <2>1 DEF CallRows
  <2>7. RowStep
    BY <2>2, <2>3, <2>5 DEF RowStep, NamesFeedback, Outcomes
  <2> QED BY <2>2, <2>5, <2>6, <2>7 DEF StepNames, WaitsStep, AwaitsCommit
<1>16. ASSUME NEW c \in CallIds, Commit(c) PROVE Goal
  <2> DEFINE st == calls[c].st
  <2>1. /\ calls[c].pc = "commit" /\ st \in IncidentStates /\ UNCHANGED interrupts
        /\ calls' = [calls EXCEPT ![c].pc = "done"]
    BY <1>0, <1>16 DEF Commit, CallsHaveState, Finished
  <2>2. /\ session'.istate = st /\ session'.ckpt = st /\ snapshot' = st
        /\ \/ calls[c].result = "awaiting_approval" /\ session'.pending = calls[c].wait
           \/ session'.status \in Outcomes /\ session'.pending = st.feedback
    BY <1>16 DEF Commit, Conclude, Outcomes
  <2>3. /\ calls'[c].pc = "done" /\ \A d \in CallIds \ {c} : calls'[d] = calls[d]
        /\ \A d \in CallIds : calls'[d].st = calls[d].st /\ calls'[d].ckpt = calls[d].ckpt
    BY <1>0, <2>1 DEF CallRows
  <2>4. NamesFeedback(interrupts', st)
    BY <1>1, <1>2
  <2> HIDE DEF st
  <2>5. CASE calls[c].result = "awaiting_approval" /\ session'.pending = calls[c].wait
    <3>1. RowStep
      BY <2>1, <2>3, <2>5 DEF RowStep, AwaitsCommit
    <3> QED BY <2>2, <2>3, <2>4, <3>1 DEF StepNames, WaitsStep, AwaitsCommit
  <2>6. CASE session'.status \in Outcomes /\ session'.pending = st.feedback
    <3>1. RowStep
      BY <2>1, <2>4, <2>6 DEF RowStep, NamesFeedback, Outcomes
    <3> QED BY <2>2, <2>3, <2>4, <3>1 DEF StepNames, WaitsStep, AwaitsCommit
  <2> QED BY <2>2, <2>5, <2>6
<1>17. ~Crash
  BY <1>0 DEF Crash, TypeOK
<1>18. ASSUME NEW c \in CallIds, Proceed(c) PROVE Goal
  BY <1>7, <1>8, <1>9, <1>10, <1>11, <1>12, <1>13, <1>14, <1>15, <1>16, <1>18 DEF Proceed
<1>19. CASE Accept
  BY <1>3, <1>4, <1>5, <1>6, <1>19 DEF Accept, Decide, ResolveTerminal, CanDecide
<1> QED BY <1>6, <1>17, <1>18, <1>19 DEF Next

LEMMA NextWaitInv ==
  ASSUME ~DecisionApi, MaxCrashes = 0
  PROVE  WaitInv /\ [Next]_vars => WaitInv'
<1> SUFFICES ASSUME WaitInv, [Next]_vars PROVE WaitInv'
  OBVIOUS
<1>1. Shape /\ TypeOK /\ Shape' /\ InterruptsStep
  BY NextShape, NextInterrupts DEF WaitInv, Shape
<1>2. StepNames /\ RowStep /\ WaitsStep
  BY NextWaits
<1>3. UncommittedOpen' /\ AwaitedOpen'
  BY <1>1, <1>2, WaitStepSuffices
<1>4. \A st : NamesFeedback(interrupts, st) => NamesFeedback(interrupts', st)
  BY <1>1, NamesStay
<1>5. CopiesNameFeedback'
  BY <1>2, <1>4 DEF StepNames, WaitInv, CopiesNameFeedback
<1> QED BY <1>1, <1>3, <1>5 DEF WaitInv

\* Rounds that overlap never leave the conversation waiting for an approval
\* that nobody can answer any more: with every call over, what the row points
\* at is open, and so is the approval behind it.  It takes that the process
\* does not die and that decisions come through the conversation.
THEOREM AwaitedApprovalCanBeAnswered ==
  ASSUME ~DecisionApi, MaxCrashes = 0
  PROVE  Spec => []AwaitingIsResumable
<1>1. Init => WaitInv
  <2> SUFFICES ASSUME Init PROVE WaitInv
    OBVIOUS
  <2>1. CopiesNameFeedback
    BY NoStateNames DEF Init, CopiesNameFeedback, NoSession, IdleCall, Call
  <2>2. UncommittedOpen /\ AwaitedOpen
    BY DEF Init, UncommittedOpen, AwaitsCommit, AwaitedOpen, NoSession, IdleCall, Call
  <2> QED BY <2>1, <2>2, InitShape DEF WaitInv
<1>2. WaitInv /\ PairsInv => AwaitingIsResumable
  <2> SUFFICES ASSUME AwaitedOpen, Paired, session.status = "awaiting_approval", InFlight = {}
               PROVE  /\ InterruptOpen(session.pending)
                      /\ interrupts[session.pending].kind = "approval"
                      /\ ApprovalOpen(interrupts[session.pending].approval)
    BY DEF WaitInv, PairsInv, AwaitingIsResumable
  <2>1. \A c \in CallIds : ~Executing(c, session.pending)
    BY DEF Executing, InFlight
  <2> QED BY <2>1 DEF AwaitedOpen, Paired
<1> QED BY <1>1, <1>2, InitPairs, NextPairsInv, NextWaitInv, PTL DEF Spec

=============================================================================
