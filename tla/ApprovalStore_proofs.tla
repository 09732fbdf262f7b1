-------------------------- MODULE ApprovalStore_proofs --------------------------
(***************************************************************************)
(* What ApprovalStore promises, for any number of requests and processes.  *)
(*                                                                         *)
(* FirstResolutionWins is not inductive alone: a mutator past its check    *)
(* would log a resolution for a row that is still absent.  CallsOnRequests *)
(* rules that out, and IInv adds it to the type invariant.                 *)
(***************************************************************************)
EXTENDS ApprovalStore, TLAPS

\* A mutator between its read and its write works on a row that exists.
CallsOnRequests ==
  \A p \in Processes : call[p] # NoCall => status[call[p].on] # "absent"

IInv == ApprovalStoreTypeOK /\ FirstResolutionWins /\ CallsOnRequests

\* The audit trail of a, given its status and its events.
Trail(s, evs) ==
  \/ /\ s \in {"absent", "pending"}
     /\ \A i \in DOMAIN evs : evs[i] \notin Resolutions
  \/ \E i \in DOMAIN evs :
       /\ evs[i] = s
       /\ \A j \in 1..(i - 1) : evs[j] \notin Resolutions

-----------------------------------------------------------------------------
\* The names of a request's statuses and events are told apart.
LEMMA ResolutionNames ==
  /\ "absent" \notin Resolutions /\ "pending" \notin Resolutions
  /\ "created" \notin Resolutions /\ "resumed" \notin Resolutions
BY DEF Resolutions

\* An event that resolves nothing keeps a trail what it was.
LEMMA TrailAppendOther ==
  ASSUME NEW s \in Statuses, NEW evs \in Seq(AuditEventTypes), NEW e \in {"created", "resumed"},
         Trail(s, evs)
  PROVE  Trail(s, Append(evs, e))
<1> DEFINE new == Append(evs, e)
<1>0. e \in AuditEventTypes /\ e \notin Resolutions
  BY DEF AuditEventTypes, Resolutions
<1>1. /\ DOMAIN new = 1..(Len(evs) + 1) /\ DOMAIN evs = 1..Len(evs) /\ Len(evs) \in Nat
      /\ \A i \in DOMAIN evs : new[i] = evs[i]
      /\ new[Len(evs) + 1] = e
  BY <1>0
<1>2. CASE s \in {"absent", "pending"} /\ \A i \in DOMAIN evs : evs[i] \notin Resolutions
  <2>1. \A i \in DOMAIN new : new[i] \notin Resolutions
    BY <1>0, <1>1, <1>2
  <2> QED BY <1>2, <2>1 DEF Trail
<1>3. CASE \E i \in DOMAIN evs :
             evs[i] = s /\ \A j \in 1..(i - 1) : evs[j] \notin Resolutions
  <2>1. PICK i \in DOMAIN evs :
          evs[i] = s /\ \A j \in 1..(i - 1) : evs[j] \notin Resolutions
    BY <1>3
  <2>2. i \in DOMAIN new /\ new[i] = s
    BY <1>1, <2>1
  <2>3. \A j \in 1..(i - 1) : new[j] \notin Resolutions
    BY <1>1, <2>1
  <2> QED BY <2>2, <2>3 DEF Trail
<1> QED BY <1>2, <1>3 DEF Trail

\* Logging a resolution of a request that exists, and taking it over only
\* when the request is pending, keeps a trail.
LEMMA TrailAppendResolution ==
  ASSUME NEW s \in Statuses, NEW evs \in Seq(AuditEventTypes), NEW to \in Resolutions,
         s # "absent", Trail(s, evs)
  PROVE  Trail(IF s = "pending" THEN to ELSE s, Append(evs, to))
<1> DEFINE new == Append(evs, to)
<1>0. to \in AuditEventTypes
  BY DEF AuditEventTypes
<1>1. /\ DOMAIN new = 1..(Len(evs) + 1) /\ DOMAIN evs = 1..Len(evs) /\ Len(evs) \in Nat
      /\ \A i \in DOMAIN evs : new[i] = evs[i]
      /\ new[Len(evs) + 1] = to
  BY <1>0
<1>2. CASE s = "pending" /\ \A i \in DOMAIN evs : evs[i] \notin Resolutions
  <2>1. \A j \in 1..(Len(evs) + 1 - 1) : new[j] \notin Resolutions
    BY <1>1, <1>2
  <2>2. Len(evs) + 1 \in DOMAIN new /\ new[Len(evs) + 1] = to
    BY <1>1
  <2> QED BY <1>2, <2>1, <2>2 DEF Trail
<1>3. CASE \E i \in DOMAIN evs :
             evs[i] = s /\ \A j \in 1..(i - 1) : evs[j] \notin Resolutions
  <2>1. PICK i \in DOMAIN evs :
          evs[i] = s /\ \A j \in 1..(i - 1) : evs[j] \notin Resolutions
    BY <1>3
  <2>2. i \in DOMAIN new /\ new[i] = s
    BY <1>1, <2>1
  <2>3. \A j \in 1..(i - 1) : new[j] \notin Resolutions
    BY <1>1, <2>1
  <2>4. s # "pending"
    BY <2>1 DEF AuditEventTypes, Resolutions
  <2> QED BY <2>2, <2>3, <2>4 DEF Trail
<1> QED BY <1>2, <1>3 DEF Trail

-----------------------------------------------------------------------------
\* IInv holds initially.
LEMMA InitIInv == StoreInit => IInv
<1> SUFFICES ASSUME StoreInit PROVE IInv
  OBVIOUS
<1>1. ApprovalStoreTypeOK
  BY DEF StoreInit, ApprovalStoreTypeOK, Statuses
<1>2. FirstResolutionWins
  <2>1. \A a \in Approvals : status[a] = "absent" /\ events[a] = << >>
    BY DEF StoreInit
  <2>2. \A evs \in Seq(AuditEventTypes) : evs = << >> => DOMAIN evs = {}
    OBVIOUS
  <2>3. << >> \in Seq(AuditEventTypes)
    OBVIOUS
  <2> QED BY <2>1, <2>2, <2>3 DEF FirstResolutionWins
<1>3. CallsOnRequests
  BY DEF StoreInit, CallsOnRequests
<1> QED BY <1>1, <1>2, <1>3 DEF IInv

\* FirstResolutionWins says that every request has such a trail.
LEMMA TrailsOfRequests ==
  FirstResolutionWins <=> \A a \in Approvals : Trail(status[a], events[a])
BY DEF FirstResolutionWins, Trail

\* Every step keeps IInv.
LEMMA NextIInv == IInv /\ [StoreNext]_approvalVars => IInv'
<1> SUFFICES ASSUME IInv, [StoreNext]_approvalVars PROVE IInv'
  OBVIOUS
<1>0. ApprovalStoreTypeOK /\ CallsOnRequests /\ \A a \in Approvals : Trail(status[a], events[a])
  BY TrailsOfRequests DEF IInv
<1>1. ASSUME NEW a \in Approvals, CreateRequest(a) PROVE IInv'
  <2>0. status[a] = "absent" /\ events[a] \in Seq(AuditEventTypes) /\ status \in [Approvals -> Statuses]
    BY <1>0, <1>1 DEF CreateRequest, ApprovalStoreTypeOK
  <2>1. ApprovalStoreTypeOK'
    BY <1>0, <1>1 DEF CreateRequest, ApprovalStoreTypeOK, Logged, AuditEventTypes, Statuses
  <2>2. Trail("pending", Append(events[a], "created"))
    <3>1. \A i \in DOMAIN events[a] : events[a][i] \notin Resolutions
      <4>1. Trail("absent", events[a])
        BY <1>0, <2>0
      <4>2. CASE \E i \in DOMAIN events[a] : events[a][i] = "absent"
        <5>1. PICK i \in DOMAIN events[a] : events[a][i] = "absent"
          BY <4>2
        <5>2. events[a][i] \in AuditEventTypes
          BY <2>0
        <5> QED BY <5>1, <5>2 DEF AuditEventTypes, Resolutions
      <4> QED BY <4>1, <4>2 DEF Trail
    <3>2. Trail("pending", events[a])
      BY <3>1 DEF Trail
    <3> QED BY <2>0, <3>2, TrailAppendOther DEF Statuses
  <2>3. \A b \in Approvals : Trail(status'[b], events'[b])
    <3> SUFFICES ASSUME NEW b \in Approvals PROVE Trail(status'[b], events'[b])
      OBVIOUS
    <3>1. CASE b = a
      BY <1>0, <1>1, <2>2, <3>1 DEF CreateRequest, Logged, ApprovalStoreTypeOK
    <3>2. CASE b # a
      <4>1. status'[b] = status[b] /\ events'[b] = events[b]
        BY <1>0, <1>1, <3>2 DEF CreateRequest, Logged, ApprovalStoreTypeOK
      <4> QED BY <1>0, <4>1
    <3> QED BY <3>1, <3>2
  <2>4. CallsOnRequests'
    BY <1>0, <1>1 DEF CreateRequest, CallsOnRequests, ApprovalStoreTypeOK
  <2> QED BY <2>1, <2>3, <2>4, TrailsOfRequests DEF IInv, FirstResolutionWins, Trail
<1>2. ASSUME NEW a \in Approvals, RecordResumed(a) PROVE IInv'
  <2>0. events[a] \in Seq(AuditEventTypes) /\ status[a] \in Statuses
    BY <1>0 DEF ApprovalStoreTypeOK
  <2>1. ApprovalStoreTypeOK'
    BY <1>0, <1>2 DEF RecordResumed, ApprovalStoreTypeOK, Logged, AuditEventTypes
  <2>2. Trail(status[a], Append(events[a], "resumed"))
    BY <1>0, <2>0, TrailAppendOther
  <2>3. \A b \in Approvals : Trail(status'[b], events'[b])
    BY <1>0, <1>2, <2>2 DEF RecordResumed, Logged, ApprovalStoreTypeOK
  <2>4. CallsOnRequests'
    BY <1>0, <1>2 DEF RecordResumed, CallsOnRequests
  <2> QED BY <2>1, <2>3, <2>4 DEF IInv, FirstResolutionWins, Trail
<1>3. ASSUME NEW p \in Processes, NEW a \in Approvals, NEW to \in Resolutions,
             ReadStatus(p, a, to)
      PROVE IInv'
  <2>1. ApprovalStoreTypeOK'
    BY <1>0, <1>3 DEF ReadStatus, ApprovalStoreTypeOK, Calls
  <2>2. status[a] = "pending"
    BY <1>3 DEF ReadStatus, AllowedFrom
  <2>3. CallsOnRequests'
    BY <1>0, <1>3, <2>2 DEF ReadStatus, CallsOnRequests, ApprovalStoreTypeOK
  <2> QED BY <1>0, <1>3, <2>1, <2>3 DEF IInv, FirstResolutionWins, Trail, ReadStatus
<1>4. ASSUME NEW p \in Processes, WriteTransition(p) PROVE IInv'
  <2> DEFINE a  == call[p].on
             to == call[p].to
  <2>0. /\ call[p] \in Calls /\ a \in Approvals /\ to \in Resolutions
        /\ status[a] \in Statuses /\ status[a] # "absent" /\ events[a] \in Seq(AuditEventTypes)
    BY <1>0, <1>4 DEF WriteTransition, ApprovalStoreTypeOK, Calls, NoCall, CallsOnRequests
  <2>1. /\ status' = [status EXCEPT ![a] = IF status[a] = "pending" THEN to ELSE status[a]]
        /\ events' = [events EXCEPT ![a] = Append(@, to)]
        /\ call' = [call EXCEPT ![p] = NoCall]
    BY <1>0, <1>4, <2>0 DEF WriteTransition, UpdatedStatus, Logged, ApprovalStoreTypeOK
  <2> HIDE DEF a, to
  <2>2. ApprovalStoreTypeOK'
    BY <1>0, <2>0, <2>1 DEF ApprovalStoreTypeOK, AuditEventTypes, Statuses
  <2>3. Trail(IF status[a] = "pending" THEN to ELSE status[a], Append(events[a], to))
    BY <1>0, <2>0, TrailAppendResolution
  <2>4. \A b \in Approvals : Trail(status'[b], events'[b])
    BY <1>0, <2>0, <2>1, <2>3 DEF ApprovalStoreTypeOK
  <2>5. CallsOnRequests'
    BY <1>0, <2>0, <2>1 DEF CallsOnRequests, ApprovalStoreTypeOK, Resolutions, Calls
  <2> QED BY <2>2, <2>4, <2>5 DEF IInv, FirstResolutionWins, Trail
<1>5. ASSUME NEW p \in Processes, Abort(p) PROVE IInv'
  <2>1. ApprovalStoreTypeOK' /\ CallsOnRequests'
    BY <1>0, <1>5 DEF Abort, ApprovalStoreTypeOK, CallsOnRequests
  <2> QED BY <1>0, <1>5, <2>1 DEF IInv, FirstResolutionWins, Trail, Abort
<1>6. CASE UNCHANGED approvalVars
  BY <1>0, <1>6 DEF IInv, ApprovalStoreTypeOK, FirstResolutionWins, CallsOnRequests, Trail, approvalVars
<1> QED BY <1>1, <1>2, <1>3, <1>4, <1>5, <1>6 DEF StoreNext

\* The invariant holds in every reachable state.
THEOREM Invariance == StoreSpec => []IInv
<1>1. StoreInit => IInv
  BY InitIInv
<1>2. IInv /\ [StoreNext]_approvalVars => IInv'
  BY NextIInv
<1> QED BY <1>1, <1>2, PTL DEF StoreSpec

\* Type correctness of the store, for any requests and processes.
THEOREM TypeCorrect == StoreSpec => []ApprovalStoreTypeOK
<1>1. IInv => ApprovalStoreTypeOK
  BY DEF IInv
<1> QED BY <1>1, Invariance, PTL

\* The audit trail names the decision that took effect first.
THEOREM AuditTrailIsRight == StoreSpec => []FirstResolutionWins
<1>1. IInv => FirstResolutionWins
  BY DEF IInv
<1> QED BY <1>1, Invariance, PTL

-----------------------------------------------------------------------------
\* Every step of the store is a step of the contract or leaves the row
\* statuses alone.
LEMMA StepRefinesContract ==
  ASSUME IInv, [StoreNext]_approvalVars
  PROVE  [Contract!ContractNext]_status
<1>0. ApprovalStoreTypeOK
  BY DEF IInv
<1>1. ASSUME NEW a \in Approvals, CreateRequest(a) PROVE Contract!ContractNext
  <2>1. Contract!Request(a)
    BY <1>1 DEF CreateRequest, Contract!Request
  <2> QED BY <2>1 DEF Contract!ContractNext
<1>2. ASSUME NEW p \in Processes, WriteTransition(p) PROVE [Contract!ContractNext]_status
  <2> DEFINE a  == call[p].on
             to == call[p].to
  <2>0. a \in Approvals /\ to \in Resolutions
    BY <1>0, <1>2 DEF WriteTransition, ApprovalStoreTypeOK, Calls, NoCall
  <2>1. CASE status[a] = "pending"
    <3>1. Contract!Resolve(a, to)
      BY <1>2, <2>1 DEF WriteTransition, UpdatedStatus, Contract!Resolve
    <3> QED BY <2>0, <3>1 DEF Contract!ContractNext, Contract!Resolutions, Resolutions
  <2>2. CASE status[a] # "pending"
    BY <1>2, <2>2 DEF WriteTransition, UpdatedStatus
  <2> QED BY <2>1, <2>2
<1>3. ASSUME NEW p \in Processes, Abort(p) PROVE UNCHANGED status
  BY <1>3 DEF Abort
<1>4. ASSUME NEW a \in Approvals, RecordResumed(a) PROVE UNCHANGED status
  BY <1>4 DEF RecordResumed
<1>5. ASSUME NEW p \in Processes, NEW a \in Approvals, NEW to \in Resolutions,
             ReadStatus(p, a, to)
      PROVE UNCHANGED status
  BY <1>5 DEF ReadStatus
<1>6. CASE UNCHANGED approvalVars
  BY <1>6 DEF approvalVars
<1> QED BY <1>1, <1>2, <1>3, <1>4, <1>5, <1>6 DEF StoreNext

\* The store implements the approval contract, for any requests and any
\* number of processes that race on them.
THEOREM StoreImplementsContract == StoreSpec => ImplementsContract
<1>1. StoreInit => Contract!ContractInit
  BY DEF StoreInit, Contract!ContractInit
<1>2. IInv /\ [StoreNext]_approvalVars => [Contract!ContractNext]_status
  BY StepRefinesContract
<1> QED BY <1>1, <1>2, Invariance, PTL DEF StoreSpec, ImplementsContract, Contract!ContractSpec
=============================================================================
