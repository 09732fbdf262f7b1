---------------------------- MODULE ApprovalContract ----------------------------
(***************************************************************************)
(* What the approval subsystem promises to everything that uses it: a      *)
(* request is created pending, it is resolved at most once, by a decision, *)
(* an expiry or a cancellation, and what it was resolved to never changes. *)
(*                                                                         *)
(* The store (ApprovalStore) and the conversation runtime (Conversation)   *)
(* are both shown to implement this specification.                         *)
(***************************************************************************)

CONSTANT Approvals          \* the approval requests that may ever exist

VARIABLE lifecycle          \* where each request stands

Resolutions == {"approved", "rejected", "expired", "cancelled"}
Lifecycles  == {"absent", "pending"} \cup Resolutions

ContractInit == lifecycle = [a \in Approvals |-> "absent"]

\* ApprovalStore.create_request
Request(a) ==
  /\ lifecycle[a] = "absent"
  /\ lifecycle' = [lifecycle EXCEPT ![a] = "pending"]

\* record_decision, expire_request or cancel_request
Resolve(a, resolution) ==
  /\ lifecycle[a] = "pending"
  /\ lifecycle' = [lifecycle EXCEPT ![a] = resolution]

ContractNext ==
  \E a \in Approvals : Request(a) \/ \E r \in Resolutions : Resolve(a, r)

ContractSpec == ContractInit /\ [][ContractNext]_lifecycle
=============================================================================
