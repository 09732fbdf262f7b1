---------------------------- MODULE PlanContract ----------------------------
(***************************************************************************)
(* What an execution plan promises: it is started once, reaches one end    *)
(* and stays there, the action it stands for is sent out at most once and  *)
(* only while it runs, and it is not completed unless it was sent.         *)
(***************************************************************************)
EXTENDS Naturals

CONSTANT Plans

VARIABLES status, sent

vars == <<status, sent>>

PlanStatuses == {"absent", "running", "completed", "failed"}

Init ==
  /\ status = [p \in Plans |-> "absent"]
  /\ sent = [p \in Plans |-> 0]

Move(p, from, to) ==
  /\ status[p] = from
  /\ status' = [status EXCEPT ![p] = to]
  /\ UNCHANGED sent

Begin(p) == Move(p, "absent", "running")

Send(p) ==
  /\ status[p] = "running"
  /\ sent[p] = 0
  /\ sent' = [sent EXCEPT ![p] = 1]
  /\ UNCHANGED status

Complete(p) == sent[p] = 1 /\ Move(p, "running", "completed")

Fail(p) == Move(p, "running", "failed")

Next == \E p \in Plans : Begin(p) \/ Send(p) \/ Complete(p) \/ Fail(p)

Spec == Init /\ [][Next]_vars
=============================================================================
