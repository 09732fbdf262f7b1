----------------------------- MODULE ApprovalStore -----------------------------
(***************************************************************************)
(* The approval store, as several server processes share it.               *)
(*                                                                         *)
(* Every mutator opens its own connection.  create_request inserts the row *)
(* and a "created" audit event in one transaction.  _transition_request    *)
(* reads the row's status and checks it against                            *)
(* ALLOWED_APPROVAL_TRANSITIONS; only then does it run                     *)
(*   update ... where approval_id = ? and status = 'pending'               *)
(* whose row count nobody looks at, insert the audit event and commit.     *)
(* Between the read and the write another process may resolve the same     *)
(* request: its row is then left alone, but the event is inserted anyway.  *)
(***************************************************************************)
EXTENDS Naturals, Sequences

CONSTANTS Approvals,   \* approval ids
          Processes,   \* server processes that share one database
          MaxEvents    \* bound: audit events per request

ASSUME MaxEventsAssumption == MaxEvents \in Nat

VARIABLES status,   \* approval_request_v2.status, "absent" before the insert
          events,   \* approval_audit_event rows of each request, by event_id
          call      \* the mutator each process is in, between read and write

approvalVars == <<status, events, call>>

Resolutions == {"approved", "rejected", "expired", "cancelled"}
Statuses    == {"absent", "pending"} \cup Resolutions
AuditEventTypes  == {"created", "resumed"} \cup Resolutions

NoCall  == [on |-> "none", to |-> "none"]
Calls == [on : Approvals, to : Resolutions]

\* ALLOWED_APPROVAL_TRANSITIONS: only a pending request may be resolved.
AllowedFrom(s) == IF s = "pending" THEN Resolutions ELSE {}

Logged(a, type) == [events EXCEPT ![a] = Append(@, type)]

StoreInit ==
  /\ status = [a \in Approvals |-> "absent"]
  /\ events = [a \in Approvals |-> <<>>]
  /\ call   = [p \in Processes |-> NoCall]

\* Seeded bug: the request is stored as a draft.
CreateRequest_Draft(a) ==
  /\ status[a] = "absent"
  /\ status' = [status EXCEPT ![a] = "draft"]
  /\ UNCHANGED <<events, call>>

CreateRequest(a) ==
  /\ status[a] = "absent"
  /\ Len(events[a]) < MaxEvents
  /\ status' = [status EXCEPT ![a] = "pending"]
  /\ events' = Logged(a, "created")
  /\ UNCHANGED call

\* First half of _transition_request.  An illegal transition raises
\* ApprovalStateError, an unknown id KeyError: no step.
ReadStatus(p, a, to) ==
  /\ call[p] = NoCall
  /\ to \in AllowedFrom(status[a])
  /\ call' = [call EXCEPT ![p] = [on |-> a, to |-> to]]
  /\ UNCHANGED <<status, events>>

\* Seeded bug: the update has no "and status = 'pending'".
UpdatedStatus_Unguarded(a, to) == [status EXCEPT ![a] = to]

\* The guarded update: a row that is not pending any more is not touched.
UpdatedStatus(a, to) ==
  IF status[a] = "pending" THEN [status EXCEPT ![a] = to] ELSE status

\* Second half of _transition_request, one transaction.
WriteTransition(p) ==
  /\ call[p] # NoCall
  /\ LET a  == call[p].on
         to == call[p].to
     IN  /\ Len(events[a]) < MaxEvents
         /\ status' = UpdatedStatus(a, to)
         /\ events' = Logged(a, to)
  /\ call' = [call EXCEPT ![p] = NoCall]

\* record_resumed only checks that the row exists.
RecordResumed(a) ==
  /\ status[a] # "absent"
  /\ Len(events[a]) < MaxEvents
  /\ events' = Logged(a, "resumed")
  /\ UNCHANGED <<status, call>>

\* The process dies, or its statement fails, before the commit.
Abort(p) ==
  /\ call[p] # NoCall
  /\ call' = [call EXCEPT ![p] = NoCall]
  /\ UNCHANGED <<status, events>>

StoreNext ==
  \/ \E a \in Approvals : CreateRequest(a) \/ RecordResumed(a)
  \/ \E p \in Processes, a \in Approvals, to \in Resolutions : ReadStatus(p, a, to)
  \/ \E p \in Processes : WriteTransition(p) \/ Abort(p)

StoreSpec == StoreInit /\ [][StoreNext]_approvalVars

-----------------------------------------------------------------------------
ApprovalStoreTypeOK ==
  /\ status \in [Approvals -> Statuses]
  /\ events \in [Approvals -> Seq(AuditEventTypes)]
  /\ call \in [Processes -> Calls \cup {NoCall}]

\* The audit trail tells who won.  Whatever races happened, the first
\* resolution in a request's event list is the status its row holds, and a
\* pending row has none: GET /approvals/{id}/events can be trusted to name
\* the decision that took effect as the first one.
FirstResolutionWins ==
  \A a \in Approvals :
    \/ /\ status[a] \in {"absent", "pending"}
       /\ \A i \in DOMAIN events[a] : events[a][i] \notin Resolutions
    \/ \E i \in DOMAIN events[a] :
         /\ events[a][i] = status[a]
         /\ \A j \in 1..(i - 1) : events[a][j] \notin Resolutions

\* The store implements the contract: row statuses are lifecycles.
Contract == INSTANCE ApprovalContract WITH lifecycle <- status
ImplementsContract == Contract!ContractSpec
=============================================================================
