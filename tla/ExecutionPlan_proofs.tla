------------------------ MODULE ExecutionPlan_proofs ------------------------
(***************************************************************************)
(* What ExecutionPlan keeps for any number of plans, skipped proposals,    *)
(* crashes and failing writes.  Every fact below is about one plan and     *)
(* where its coroutine is, so a step of another plan leaves it alone.      *)
(***************************************************************************)
EXTENDS ExecutionPlan, TLAPS

\* The action has not been handed out, and the except branch is not taken yet.
BeforeCall == {"idle"} \cup Setup \cup InTry

\* The answer is being recorded.
Recording == {"store_result", "start_finalize", "end_finalize", "end_plan"}

\* The plan's row says running for as long as the coroutine is here.
Open == Setup \cup InTry \cup Recording \cup {"await", "fail_step", "fail_plan"}

RowFollowsTask(p) ==
  /\ task[p].at = "idle" => plan[p].status = "absent"
  /\ task[p].at \in Open => plan[p].status = "running"

\* What is stored by the time the action goes out, and stays stored.
CallFollowsRows(p) ==
  /\ sent[p] \in {0, 1}
  /\ task[p].at \in BeforeCall => sent[p] = 0
  /\ task[p].at \in Recording \cup {"await"} => sent[p] = 1
  /\ task[p].at \in {"advance", "start_primary", "call"} => step[p][Precheck] = "completed"
  /\ task[p].at \in {"start_primary", "call"} => plan[p].recovery.last_completed = Precheck
  /\ task[p].at = "call" => step[p][Primary] = "running"
  /\ sent[p] = 1 =>
       /\ task[p].failedStep = Primary
       /\ step[p][Precheck] = "completed"
       /\ step[p][Primary] \in {"running", "completed", "failed"}
       /\ plan[p].recovery.last_completed = Precheck \/ plan[p].status # "running"

\* Which step a failure is blamed on.
BlameIsSet(p) ==
  /\ task[p].at \in (Setup \ {"create_precheck"}) \cup InTry => task[p].failedStep = Precheck
  /\ task[p].at \in Failing => task[p].failedStep \in {Precheck, Primary}
  /\ task[p].at = "fail_plan" => step[p][task[p].failedStep] = "failed"
  /\ plan[p].status = "failed" /\ plan[p].recovery.failed = Precheck => sent[p] = 0

\* What is stored by the time the plan's end is.
EndFollowsSteps(p) ==
  /\ task[p].at \in {"start_finalize", "end_finalize", "end_plan"} =>
       step[p][Primary] = task[p].result
  /\ task[p].at = "end_plan" => step[p][Finalize] = "completed"
  /\ \A s \in Steps \ {Precheck, Primary, Finalize} : step[p][s] \in {"absent", "skipped"}
  /\ plan[p].status = "completed" =>
       /\ plan[p].steps = Existing(p)
       /\ {Precheck, Primary, Finalize} \subseteq plan[p].steps
       /\ \A s \in plan[p].steps : step[p][s] \in {"completed", "skipped"}
       /\ plan[p].recovery.action = "none"
  /\ plan[p].status = "failed" =>
       /\ step[p][plan[p].recovery.failed] = "failed"
       /\ plan[p].recovery.action = "manual_intervention"

\* Which steps cannot have been started yet, and what has ended before the others.
Waits(p, s)   == step[p][s] \in {"absent", "pending"}
HasEnded(p, s) == step[p][s] \in {"completed", "failed"}

StepsInOrder(p) ==
  /\ task[p].at \in BeforeCall \ {"call"} => Waits(p, Primary)
  /\ task[p].at \in BeforeCall => Waits(p, Finalize)
  /\ task[p].at \in (BeforeCall \cup Recording \cup {"await"}) \ {"end_plan"} =>
       \A s \in Steps \ {Precheck, Primary, Finalize} : step[p][s] = "absent"
  /\ task[p].at = "fail_step" /\ task[p].failedStep = Primary => HasEnded(p, Precheck)
  /\ Waits(p, Primary) \/ HasEnded(p, Precheck)
  /\ Waits(p, Finalize) \/ HasEnded(p, Primary)
  /\ \A s \in Steps \ {Precheck, Primary, Finalize} :
       step[p][s] = "skipped" => step[p][Finalize] = "completed"

RowInv(p)  == RowFollowsTask(p) /\ CallFollowsRows(p) /\ BlameIsSet(p) /\ EndFollowsSteps(p)
PlanInv(p) == RowInv(p) /\ StepsInOrder(p)

IInv == TypeInvariant /\ \A p \in Plans : PlanInv(p)

-----------------------------------------------------------------------------
LEMMA StepFacts ==
  /\ {Precheck, Primary, Finalize} \subseteq Steps /\ NoStep \notin Steps
  /\ Precheck # Primary /\ Precheck # Finalize /\ Primary # Finalize
BY ExecutionPlanAssumptions DEF Steps, Precheck, Primary, Finalize, NoStep, SkippedStep

\* The counter of skipped steps stays inside the plan's sequence numbers.
LEMMA SequenceFacts ==
  ASSUME NEW n \in SkipCounts, NEW q \in Sequences, q <= SkippedStep(n)
  PROVE  q \in Steps \ {Precheck, Primary, Finalize} /\ q + 10 \in Sequences
<1>1. PICK i \in 1..MaxSkipped + 1 : q = 30 + 10 * i
  BY DEF Sequences, SkippedStep
<1>2. i \in 1..MaxSkipped /\ i + 1 \in 1..MaxSkipped + 1 /\ q + 10 = 30 + 10 * (i + 1)
  BY <1>1, ExecutionPlanAssumptions DEF SkippedStep, SkipCounts
<1> QED
  BY <1>1, <1>2 DEF Steps, Sequences, SkippedStep, Precheck, Primary, Finalize

LEMMA PlaceFacts ==
  /\ InTry \subseteq Places /\ Setup \subseteq Places
  /\ Failing \subseteq Places /\ Ending \subseteq Places
  /\ {"idle", "await", "close", "done", "lost"} \subseteq Places
BY DEF Places

-----------------------------------------------------------------------------
\* What a step does to one row of a table.
LEMMA MovedTask ==
  ASSUME TypeInvariant, NEW p \in Plans, NEW place \in Places, GoTo(p, place)
  PROVE  task' \in [Plans -> Tasks]
BY DEF TypeInvariant, GoTo, Tasks

LEMMA SteppedRow ==
  ASSUME TypeInvariant, NEW p \in Plans, NEW s \in Steps, NEW status \in StepStatuses,
         SetStep(p, s, status)
  PROVE  step' \in [Plans -> [Steps -> StepStatuses]]
BY DEF TypeInvariant, SetStep

LEMMA BlamedTask ==
  ASSUME TypeInvariant, NEW p \in Plans, NEW place \in Places,
         NEW f \in {NoStep, Precheck, Primary},
         task' = [task EXCEPT ![p].at = place, ![p].failedStep = f]
  PROVE  task' \in [Plans -> Tasks]
<1>1. [task[p] EXCEPT !.at = place, !.failedStep = f] \in Tasks
  BY DEF TypeInvariant, Tasks
<1> QED
  BY <1>1 DEF TypeInvariant

LEMMA AnsweredTask ==
  ASSUME TypeInvariant, NEW p \in Plans, NEW place \in Places,
         NEW r \in {"completed", "failed"},
         task' = [task EXCEPT ![p].at = place, ![p].result = r]
  PROVE  task' \in [Plans -> Tasks]
<1>1. [task[p] EXCEPT !.at = place, !.result = r] \in Tasks
  BY DEF TypeInvariant, Tasks
<1> QED
  BY <1>1 DEF TypeInvariant

LEMMA PlanRowType ==
  ASSUME NEW status \in {"absent", "running", "completed", "failed"},
         NEW listed \in SUBSET Steps, NEW current \in Steps \cup {NoStep},
         NEW recovery \in Recoveries
  PROVE  PlanRow(status, listed, current, recovery) \in PlanRows
BY DEF PlanRow, PlanRows

LEMMA RecoveryType ==
  ASSUME NEW c \in BOOLEAN,
         NEW a \in {"none", "execute_primary_step", "manual_intervention"},
         NEW r \in Steps \cup {NoStep}, NEW f \in Steps \cup {NoStep},
         NEW l \in Steps \cup {NoStep}
  PROVE  Recovery(c, a, r, f, l) \in Recoveries
BY DEF Recovery, Recoveries

LEMMA CheckpointType ==
  ASSUME NEW q \in Plans \cup {NoPlan}, NEW f \in BOOLEAN, NEW b \in Plans \cup {NoPlan}
  PROVE  [plan |-> q, failed |-> f, by |-> b] \in Checkpoints
BY DEF Checkpoints

-----------------------------------------------------------------------------
LEMMA TypeInit == Init => TypeInvariant
<1>1. 40 \in Sequences /\ 0 \in SkipCounts
  BY ExecutionPlanAssumptions DEF Sequences, SkipCounts, SkippedStep
<1>2. Unused \in Tasks
  BY <1>1, PlaceFacts DEF Unused, Tasks, Entries
<1>3. NoPlanRow \in PlanRows
  BY RecoveryType, PlanRowType DEF NoPlanRow, NothingToRecover
<1>4. ASSUME Init PROVE nodeCheckpoints \in BOOLEAN
  BY <1>4, ExecutionPlanAssumptions, Zenon DEF Init
<1>5. [plan |-> NoPlan, failed |-> FALSE, by |-> NoPlan] \in Checkpoints
  BY CheckpointType
<1> QED
  BY <1>2, <1>3, <1>4, <1>5 DEF Init, TypeInvariant, StepStatuses

LEMMA TypeStep == TypeInvariant /\ [Next]_vars => TypeInvariant'
<1> SUFFICES ASSUME TypeInvariant, [Next]_vars PROVE TypeInvariant'
  OBVIOUS
<1> USE StepFacts, PlaceFacts
<1>a. \A p \in Plans : /\ task[p] \in Tasks /\ plan[p] \in PlanRows
                       /\ task[p].failedStep \in {NoStep, Precheck, Primary}
                       /\ task[p].result \in {"completed", "failed"}
  BY DEF TypeInvariant, Tasks
<1>1. ASSUME NEW p \in Plans, CreatePlan(p) PROVE TypeInvariant'
  <2>1. PlanRow("running", {}, NoStep,
                Recovery(TRUE, "execute_primary_step", NoStep, NoStep, NoStep)) \in PlanRows
    BY PlanRowType, RecoveryType
  <2>2. PICK e \in Entries, n \in SkipCounts :
          task' = [task EXCEPT ![p].at = "create_precheck", ![p].entry = e, ![p].skipped = n]
    BY <1>1 DEF CreatePlan
  <2>3. [task[p] EXCEPT !.at = "create_precheck", !.entry = e, !.skipped = n] \in Tasks
    BY <1>a DEF Tasks, Setup
  <2> QED
    BY <1>1, <2>1, <2>2, <2>3 DEF CreatePlan, TypeInvariant, Budgets
<1>2. ASSUME NEW p \in Plans, NEW here, NEW s \in {Precheck, Primary, Finalize},
             NEW next \in Places, CreateStep(p, here, s, next)
      PROVE  TypeInvariant'
  BY <1>2, BlamedTask, SteppedRow DEF CreateStep, TypeInvariant, Budgets, StepStatuses
<1>3. ASSUME NEW p \in Plans, ListSteps(p) PROVE TypeInvariant'
  <2>1. [plan[p] EXCEPT !.steps = {Precheck, Primary, Finalize}, !.current = Precheck]
          \in PlanRows
    BY <1>a DEF PlanRows
  <2> QED
    BY <1>3, <2>1, MovedTask DEF ListSteps, TypeInvariant, Budgets, Setup
<1>4. ASSUME NEW p \in Plans, CheckpointStarted(p) PROVE TypeInvariant'
  BY <1>4, MovedTask, CheckpointType
  DEF CheckpointStarted, NodeCheckpoint, TypeInvariant, Budgets, InTry
<1>5. ASSUME NEW p \in Plans, StartPrecheck(p) PROVE TypeInvariant'
  BY <1>5, MovedTask, SteppedRow DEF StartPrecheck, TypeInvariant, Budgets, InTry, StepStatuses
<1>6. ASSUME NEW p \in Plans, ValidateBinding(p) PROVE TypeInvariant'
  BY <1>6, MovedTask, SteppedRow
  DEF ValidateBinding, TypeInvariant, Budgets, InTry, Failing, StepStatuses
<1>7. ASSUME NEW p \in Plans, AdvanceToPrimary(p) PROVE TypeInvariant'
  <2>1. Recovery(TRUE, "execute_primary_step", Primary, NoStep, Precheck) \in Recoveries
    BY RecoveryType
  <2>2. ASSUME NEW r \in Recoveries
        PROVE  [plan[p] EXCEPT !.current = Primary, !.recovery = r] \in PlanRows
    BY <1>a DEF PlanRows
  <2> QED
    BY <1>7, <2>1, <2>2, MovedTask DEF AdvanceToPrimary, TypeInvariant, Budgets, InTry
<1>8. ASSUME NEW p \in Plans, StartPrimary(p) PROVE TypeInvariant'
  BY <1>8, MovedTask, SteppedRow DEF StartPrimary, TypeInvariant, Budgets, InTry, StepStatuses
<1>9. ASSUME NEW p \in Plans, CallTool(p) PROVE TypeInvariant'
  <2>1. task' \in [Plans -> Tasks]
    BY <1>9, BlamedTask DEF CallTool, Failing
  <2>2. sent' \in [Plans -> Nat] /\ loop' \in Plans \cup {NoPlan}
    BY <1>9 DEF CallTool, TypeInvariant
  <2> QED
    BY <1>9, <2>1, <2>2 DEF CallTool, TypeInvariant, Budgets, store
<1>10. ASSUME NEW p \in Plans, CallReturns(p) PROVE TypeInvariant'
  BY <1>10, MovedTask, AnsweredTask DEF CallReturns, TypeInvariant, Budgets, store, Failing, Ending
<1>11. ASSUME NEW p \in Plans, StoreResult(p) PROVE TypeInvariant'
  BY <1>11, <1>a, MovedTask, SteppedRow
  DEF StoreResult, TypeInvariant, Budgets, Ending, StepStatuses
<1>12. ASSUME NEW p \in Plans, StartFinalize(p) PROVE TypeInvariant'
  BY <1>12, MovedTask, SteppedRow DEF StartFinalize, TypeInvariant, Budgets, Ending, StepStatuses
<1>13. ASSUME NEW p \in Plans, EndFinalize(p) PROVE TypeInvariant'
  BY <1>13, MovedTask, SteppedRow DEF EndFinalize, TypeInvariant, Budgets, Ending, StepStatuses
<1>14. ASSUME NEW p \in Plans, RecordSkipped(p) PROVE TypeInvariant'
  <2>1. task[p].sequence \in Steps /\ task[p].sequence + 10 \in Sequences
    BY <1>14, <1>a, SequenceFacts DEF RecordSkipped, Tasks
  <2>2. [task[p] EXCEPT !.sequence = @ + 10] \in Tasks
    BY <1>a, <2>1 DEF Tasks
  <2> QED
    BY <1>14, <2>1, <2>2, SteppedRow DEF RecordSkipped, TypeInvariant, Budgets, StepStatuses
<1>15. ASSUME NEW p \in Plans, EndPlan(p) PROVE TypeInvariant'
  <2>1. FinalPlanRow(p) \in PlanRows
    BY PlanRowType, RecoveryType DEF FinalPlanRow, Existing
  <2> QED
    BY <1>15, <2>1, MovedTask DEF EndPlan, TypeInvariant, Budgets, Ending
<1>16. ASSUME NEW p \in Plans, CheckpointFinished(p) \/ CheckpointFailed(p)
       PROVE  TypeInvariant'
  <2>1. PICK failed \in BOOLEAN : NodeCheckpoint(p, failed)
    BY <1>16, Zenon DEF CheckpointFinished, CheckpointFailed
  <2>2. newest' \in Checkpoints
    BY <2>1, CheckpointType DEF NodeCheckpoint, TypeInvariant
  <2>3. task' \in [Plans -> Tasks] /\ loop' \in Plans \cup {NoPlan}
    BY <1>16, MovedTask DEF CheckpointFinished, CheckpointFailed, Return
  <2> QED
    BY <1>16, <2>2, <2>3 DEF CheckpointFinished, CheckpointFailed, TypeInvariant, Budgets
<1>17. ASSUME NEW p \in Plans, FailStep(p) PROVE TypeInvariant'
  <2>1. step' \in [Plans -> [Steps -> StepStatuses]]
    BY <1>17 DEF FailStep, SetStep, TypeInvariant, StepStatuses
  <2> QED
    BY <1>17, <2>1, AnsweredTask DEF FailStep, TypeInvariant, Budgets, Failing
<1>18. ASSUME NEW p \in Plans, FailPlan(p) PROVE TypeInvariant'
  <2> DEFINE f == task[p].failedStep
             r == Recovery(TRUE, "manual_intervention", f, f,
                           IF f = Precheck THEN NoStep ELSE Precheck)
  <2>1. r \in Recoveries /\ f \in Steps \cup {NoStep}
    BY <1>a, RecoveryType
  <2>2. PlanRow("failed", {Precheck, Primary, Finalize}, f, r) \in PlanRows
    BY <2>1, PlanRowType
  <2> QED
    BY <1>18, <2>2, MovedTask DEF FailPlan, TypeInvariant, Budgets, Failing
<1>19. ASSUME NEW p \in Plans, Close(p) PROVE TypeInvariant'
  BY <1>19, MovedTask, CheckpointType DEF Close, CallerCheckpoint, TypeInvariant, Budgets
<1>20. ASSUME NEW p \in Plans, WriteRaises(p) PROVE TypeInvariant'
  BY <1>20, MovedTask, ExecutionPlanAssumptions
  DEF WriteRaises, Lose, TypeInvariant, store, Failing
<1>21. CASE OtherRound
  BY <1>21, CheckpointType DEF OtherRound, TypeInvariant, Budgets
<1>22. CASE Crash
  <2>1. \A p \in Plans : [task[p] EXCEPT !.at = "lost"] \in Tasks
    BY <1>a DEF Tasks
  <2> QED
    BY <1>22, <1>a, <2>1 DEF Crash, TypeInvariant, store
<1>23. CASE UNCHANGED vars
  BY <1>23 DEF vars, TypeInvariant
<1>24. {"create_primary", "create_finalize", "list_steps"} \subseteq Places
  BY DEF Setup
<1>25. ASSUME NEW p \in Plans, Progress(p) PROVE TypeInvariant'
  BY <1>2, <1>3, <1>4, <1>5, <1>6, <1>7, <1>8, <1>9, <1>10, <1>11, <1>12, <1>13, <1>14,
     <1>15, <1>16, <1>17, <1>18, <1>19, <1>24, <1>25, Zenon
  DEF Progress
<1> QED
  BY <1>1, <1>20, <1>21, <1>22, <1>23, <1>25 DEF Next

\* Every variable keeps its type, whatever the bounds and however many writes
\* raise or crashes happen.
THEOREM TypeCorrect == Spec => []TypeInvariant
  BY TypeInit, TypeStep, PTL DEF Spec

-----------------------------------------------------------------------------
\* PlanInv(q) only looks at the rows, the coroutine and the history of q.
LEMMA Frame ==
  ASSUME NEW q \in Plans, PlanInv(q),
         task'[q] = task[q], plan'[q] = plan[q], step'[q] = step[q], sent'[q] = sent[q]
  PROVE  PlanInv(q)'
BY DEF PlanInv, RowInv, RowFollowsTask, CallFollowsRows, BlameIsSet, EndFollowsSteps, Existing,
   StepsInOrder, Waits, HasEnded

\* One plan's step leaves the others alone.
LEMMA OthersUnchanged ==
  ASSUME TypeInvariant, NEW p \in Plans, NEW q \in Plans \ {p},
         CreatePlan(p) \/ Progress(p) \/ WriteRaises(p)
  PROVE  task'[q] = task[q] /\ plan'[q] = plan[q] /\ step'[q] = step[q] /\ sent'[q] = sent[q]
<1> USE DEF TypeInvariant, store, GoTo, SetStep
<1>1. CASE CreatePlan(p)
  BY <1>1 DEF CreatePlan
<1>2. CASE WriteRaises(p)
  BY <1>2 DEF WriteRaises, Lose
<1>3. CASE Progress(p)
  BY <1>3 DEF Progress, CreateStep, ListSteps, CheckpointStarted, StartPrecheck,
     ValidateBinding, AdvanceToPrimary, StartPrimary, CallTool, CallReturns, StoreResult,
     StartFinalize, EndFinalize, RecordSkipped, EndPlan, CheckpointFinished, FailStep,
     FailPlan, CheckpointFailed, Return, Close
<1> QED
  BY <1>1, <1>2, <1>3

LEMMA RowStep ==
  ASSUME TypeInvariant, TypeInvariant', NEW p \in Plans, RowInv(p),
         CreatePlan(p) \/ Progress(p) \/ WriteRaises(p)
  PROVE  RowInv(p)'
<1> USE StepFacts
<1> USE DEF RowInv, RowFollowsTask, CallFollowsRows, BlameIsSet, EndFollowsSteps
<1> USE DEF TypeInvariant, store, At, GoTo, SetStep, PlanRow, Recovery
<1> USE DEF BeforeCall, Recording, Open, Setup, InTry, Failing
<1>0. task[p] \in Tasks /\ plan[p] \in PlanRows /\ step[p] \in [Steps -> StepStatuses]
  OBVIOUS
<1>1. CASE CreatePlan(p)
  <2>1. PICK e \in Entries, n \in SkipCounts :
          task' = [task EXCEPT ![p].at = "create_precheck", ![p].entry = e, ![p].skipped = n]
    BY <1>1 DEF CreatePlan
  <2>2. task'[p] = [task[p] EXCEPT !.at = "create_precheck", !.entry = e, !.skipped = n]
    BY <2>1
  <2>3. task'[p].at = "create_precheck"
    BY <1>0, <2>2 DEF Tasks
  <2>4. plan'[p].status = "running" /\ step'[p] = step[p] /\ sent'[p] = sent[p]
    BY <1>1 DEF CreatePlan
  <2>5. sent[p] = 0
    BY <1>1 DEF CreatePlan
  <2> QED
    BY <1>0, <2>3, <2>4, <2>5
<1>2. CASE ListSteps(p)
  BY <1>0, <1>2 DEF ListSteps, Existing, Tasks, PlanRows
<1>3. CASE CheckpointStarted(p)
  BY <1>0, <1>3 DEF CheckpointStarted, Existing, Tasks, PlanRows
<1>4. CASE StartPrecheck(p)
  BY <1>0, <1>4 DEF StartPrecheck, Existing, Tasks, PlanRows
<1>5. CASE ValidateBinding(p)
  BY <1>0, <1>5 DEF ValidateBinding, Existing, Tasks, PlanRows
<1>6. CASE AdvanceToPrimary(p)
  BY <1>0, <1>6 DEF AdvanceToPrimary, Existing, Tasks, PlanRows
<1>7. CASE StartPrimary(p)
  BY <1>0, <1>7 DEF StartPrimary, Existing, Tasks, PlanRows
<1>8. CASE CallTool(p)
  BY <1>0, <1>8 DEF CallTool, Existing, Tasks, PlanRows
<1>9. CASE CallReturns(p)
  BY <1>0, <1>9 DEF CallReturns, Existing, Tasks, PlanRows
<1>10. CASE StoreResult(p)
  BY <1>0, <1>10 DEF StoreResult, Existing, Tasks, PlanRows
<1>11. CASE StartFinalize(p)
  BY <1>0, <1>11 DEF StartFinalize, Existing, Tasks, PlanRows
<1>12. CASE EndFinalize(p)
  BY <1>0, <1>12 DEF EndFinalize, Existing, Tasks, PlanRows
<1>13. CASE RecordSkipped(p)
  <2>1. task[p].sequence \in Steps \ {Precheck, Primary, Finalize}
    BY <1>0, <1>13, SequenceFacts DEF RecordSkipped, Tasks
  <2> QED
    BY <1>0, <1>13, <2>1 DEF RecordSkipped, Existing, Tasks, PlanRows
<1>14. CASE EndPlan(p)
  <2>1. /\ task'[p] = [task[p] EXCEPT !.at = "checkpoint_finished"]
        /\ plan'[p] = FinalPlanRow(p) /\ step'[p] = step[p] /\ sent'[p] = sent[p]
    BY <1>14 DEF EndPlan
  <2>2. /\ task'[p].at = "checkpoint_finished" /\ task[p].at = "end_plan"
        /\ task'[p].failedStep = task[p].failedStep
    BY <1>0, <1>14, <2>1 DEF EndPlan, Tasks
  <2>3. CASE task[p].result = "completed"
    <3>1. /\ plan'[p].status = "completed" /\ plan'[p].steps = Existing(p)
          /\ plan'[p].recovery.action = "none"
      BY <2>1, <2>3 DEF FinalPlanRow
    <3>2. /\ \A s \in {Precheck, Primary, Finalize} : step[p][s] = "completed"
          /\ \A s \in Existing(p) : step[p][s] \in {"completed", "skipped"}
      BY <1>0, <2>2, <2>3 DEF Existing
    <3>3. Existing(p)' = Existing(p) /\ {Precheck, Primary, Finalize} \subseteq Existing(p)
      BY <1>0, <2>1, <3>2 DEF Existing
    <3>4. EndFollowsSteps(p)'
      BY <1>0, <2>1, <2>2, <3>1, <3>2, <3>3
    <3> QED
      BY <1>0, <2>1, <2>2, <3>1, <3>4
  <2>4. CASE task[p].result = "failed"
    <3>1. /\ plan'[p].status = "failed" /\ plan'[p].recovery.failed = Primary
          /\ plan'[p].recovery.action = "manual_intervention"
      BY <2>1, <2>4 DEF FinalPlanRow
    <3> QED
      BY <1>0, <2>1, <2>2, <2>4, <3>1 DEF Existing
  <2> QED
    BY <1>0, <2>3, <2>4 DEF Tasks
<1>15. CASE CheckpointFinished(p)
  BY <1>0, <1>15 DEF Return, CheckpointFinished, Existing, Tasks, PlanRows
<1>16. CASE CheckpointFailed(p)
  BY <1>0, <1>16 DEF Return, CheckpointFailed, Existing, Tasks, PlanRows
<1>17. CASE FailStep(p)
  BY <1>0, <1>17 DEF FailStep, Existing, Tasks, PlanRows
<1>18. CASE FailPlan(p)
  BY <1>0, <1>18 DEF FailPlan, Existing, Tasks, PlanRows
<1>19. CASE Close(p)
  BY <1>0, <1>19 DEF Close, Existing, Tasks, PlanRows
<1>20. CASE WriteRaises(p)
  BY <1>0, <1>20 DEF Lose, WriteRaises, Existing, Tasks, PlanRows
<1>21. ASSUME NEW here \in Setup, NEW s \in {Precheck, Primary, Finalize}, NEW next \in Setup \ {"create_precheck"},
             CreateStep(p, here, s, next)
       PROVE RowInv(p)'
  BY <1>0, <1>21 DEF CreateStep, Existing, Tasks, PlanRows
<1> QED
  BY <1>1, <1>2, <1>3, <1>4, <1>5, <1>6, <1>7, <1>8, <1>9, <1>10, <1>11, <1>12, <1>13, <1>14, <1>15, <1>16, <1>17, <1>18, <1>19, <1>20, <1>21 DEF Progress

LEMMA OrderStep ==
  ASSUME TypeInvariant, TypeInvariant', NEW p \in Plans, PlanInv(p),
         CreatePlan(p) \/ Progress(p) \/ WriteRaises(p)
  PROVE  StepsInOrder(p)'
<1> USE StepFacts
<1> USE DEF StepsInOrder, Waits, HasEnded
<1> USE DEF TypeInvariant, store, At, GoTo, SetStep
<1> USE DEF BeforeCall, Recording, Setup, InTry
<1>0. /\ task[p] \in Tasks /\ step[p] \in [Steps -> StepStatuses]
      /\ StepsInOrder(p) /\ RowInv(p)
  BY DEF PlanInv
<1>1. CASE CreatePlan(p)
  <2>1. PICK e \in Entries, n \in SkipCounts :
          task' = [task EXCEPT ![p].at = "create_precheck", ![p].entry = e, ![p].skipped = n]
    BY <1>1 DEF CreatePlan
  <2>2. task'[p] = [task[p] EXCEPT !.at = "create_precheck", !.entry = e, !.skipped = n]
    BY <2>1
  <2>3. task'[p].at = "create_precheck"
    BY <1>0, <2>2 DEF Tasks
  <2>4. task[p].at = "idle" /\ step'[p] = step[p]
    BY <1>1 DEF CreatePlan
  <2> QED
    BY <1>0, <2>3, <2>4
<1>2. CASE ListSteps(p)
  BY <1>0, <1>2 DEF ListSteps, Tasks
<1>3. CASE CheckpointStarted(p)
  BY <1>0, <1>3 DEF CheckpointStarted, Tasks
<1>4. CASE StartPrecheck(p)
  BY <1>0, <1>4 DEF StartPrecheck, Tasks
<1>5. CASE ValidateBinding(p)
  BY <1>0, <1>5 DEF ValidateBinding, Tasks, RowInv, BlameIsSet
<1>6. CASE AdvanceToPrimary(p)
  BY <1>0, <1>6 DEF AdvanceToPrimary, Tasks
<1>7. CASE StartPrimary(p)
  BY <1>0, <1>7 DEF StartPrimary, Tasks, RowInv, CallFollowsRows
<1>8. CASE CallTool(p)
  BY <1>0, <1>8 DEF CallTool, Tasks, RowInv, CallFollowsRows
<1>9. CASE CallReturns(p)
  BY <1>0, <1>9 DEF CallReturns, Tasks, RowInv, CallFollowsRows
<1>10. CASE StoreResult(p)
  BY <1>0, <1>10 DEF StoreResult, Tasks, RowInv, CallFollowsRows
<1>11. CASE StartFinalize(p)
  BY <1>0, <1>11 DEF StartFinalize, Tasks, RowInv, EndFollowsSteps
<1>12. CASE EndFinalize(p)
  BY <1>0, <1>12 DEF EndFinalize, Tasks, RowInv, EndFollowsSteps
<1>13. CASE RecordSkipped(p)
  <2>1. task[p].sequence \in Steps \ {Precheck, Primary, Finalize}
    BY <1>0, <1>13, SequenceFacts DEF RecordSkipped, Tasks
  <2> QED
    BY <1>0, <1>13, <2>1 DEF RecordSkipped, Tasks, RowInv, EndFollowsSteps
<1>14. CASE EndPlan(p)
  BY <1>0, <1>14 DEF EndPlan, Tasks
<1>15. CASE CheckpointFinished(p)
  BY <1>0, <1>15 DEF Return, CheckpointFinished, Tasks
<1>16. CASE CheckpointFailed(p)
  BY <1>0, <1>16 DEF Return, CheckpointFailed, Tasks
<1>17. CASE FailStep(p)
  BY <1>0, <1>17 DEF FailStep, Tasks, RowInv, BlameIsSet, CallFollowsRows
<1>18. CASE FailPlan(p)
  BY <1>0, <1>18 DEF FailPlan, Tasks
<1>19. CASE Close(p)
  BY <1>0, <1>19 DEF Close, Tasks
<1>20. CASE WriteRaises(p)
  BY <1>0, <1>20 DEF Lose, WriteRaises, Tasks, RowInv, BlameIsSet, CallFollowsRows
<1>21. ASSUME NEW here \in Setup, NEW s \in {Precheck, Primary, Finalize}, NEW next \in Setup \ {"create_precheck"},
             CreateStep(p, here, s, next)
       PROVE StepsInOrder(p)'
  BY <1>0, <1>21 DEF CreateStep, Tasks
<1> QED
  BY <1>1, <1>2, <1>3, <1>4, <1>5, <1>6, <1>7, <1>8, <1>9, <1>10, <1>11, <1>12, <1>13, <1>14, <1>15, <1>16, <1>17, <1>18, <1>19, <1>20, <1>21 DEF Progress

-----------------------------------------------------------------------------
LEMMA InvInit == Init => IInv
<1> SUFFICES ASSUME Init, NEW p \in Plans PROVE RowInv(p) /\ StepsInOrder(p)
  BY TypeInit DEF IInv, PlanInv
<1>1. /\ task[p].at = "idle" /\ sent[p] = 0 /\ plan[p].status = "absent"
      /\ \A s \in Steps : step[p][s] = "absent"
  BY DEF Init, Unused, NoPlanRow, PlanRow
<1>2. RowInv(p)
  BY <1>1, StepFacts
  DEF RowInv, RowFollowsTask, CallFollowsRows, BlameIsSet, EndFollowsSteps,
      Open, Setup, InTry, Recording, BeforeCall, Failing
<1>3. StepsInOrder(p)
  BY <1>1, StepFacts DEF StepsInOrder, Waits, HasEnded
<1> QED
  BY <1>2, <1>3

LEMMA InvStep == IInv /\ [Next]_vars => IInv'
<1> SUFFICES ASSUME IInv, [Next]_vars PROVE IInv'
  OBVIOUS
<1>1. TypeInvariant /\ TypeInvariant'
  BY TypeStep DEF IInv
<1>2. ASSUME NEW q \in Plans PROVE PlanInv(q)'
  <2>1. ASSUME NEW p \in Plans, CreatePlan(p) \/ Progress(p) \/ WriteRaises(p)
        PROVE  PlanInv(q)'
    <3>1. CASE p = q
      BY <1>1, <2>1, <3>1, RowStep, OrderStep DEF IInv, PlanInv
    <3>2. CASE p # q
      BY <1>1, <2>1, <3>2, OthersUnchanged, Frame DEF IInv
    <3> QED
      BY <3>1, <3>2
  <2>2. CASE OtherRound
    BY <2>2, Frame DEF OtherRound, IInv
  <2>3. CASE Crash
    <3>1. plan'[q] = plan[q] /\ step'[q] = step[q] /\ sent'[q] = sent[q]
      BY <2>3 DEF Crash, store
    <3>2. CASE task'[q] = task[q]
      BY <3>1, <3>2, Frame DEF IInv
    <3>3. CASE task'[q] # task[q]
      <4>1. task'[q] = [task[q] EXCEPT !.at = "lost"]
        BY <2>3, <3>3 DEF Crash
      <4>2. task'[q].at = "lost" /\ task'[q].failedStep = task[q].failedStep
        BY <1>1, <4>1 DEF TypeInvariant, Tasks
      <4>3. PlanInv(q)
        BY DEF IInv
      <4> QED
        BY <3>1, <4>2, <4>3
        DEF PlanInv, RowInv, RowFollowsTask, CallFollowsRows, BlameIsSet, EndFollowsSteps,
            StepsInOrder, Waits, HasEnded, Existing,
            Open, Setup, InTry, Recording, BeforeCall, Failing
    <3> QED
      BY <3>2, <3>3
  <2>4. CASE UNCHANGED vars
    BY <2>4, Frame DEF vars, IInv
  <2> QED
    BY <2>1, <2>2, <2>3, <2>4 DEF Next
<1> QED
  BY <1>1, <1>2 DEF IInv

THEOREM InvCorrect == Spec => []IInv
  BY InvInit, InvStep, PTL DEF Spec

\* Before an action goes out, its precheck is stored as completed and its
\* primary step as started: what is still pending was certainly not executed.
THEOREM CallsAreRecordedFirst == Spec => []SentIsOnRecord
<1>1. IInv => SentIsOnRecord
  BY DEF IInv, PlanInv, RowInv, CallFollowsRows, SentIsOnRecord
<1> QED
  BY <1>1, InvCorrect, PTL

\* A failure blamed on the precheck means the external system was never asked,
\* whichever of the writes before the call raised.
THEOREM PrecheckFailuresAreHarmless == Spec => []PrecheckFailureSentNothing
<1>1. IInv => PrecheckFailureSentNothing
  BY DEF IInv, PlanInv, RowInv, BlameIsSet, PrecheckFailureSentNothing
<1> QED
  BY <1>1, InvCorrect, PTL

\* The row of a plan that has ended tells the same as the rows of its steps.
THEOREM EndedPlansMatchTheirSteps == Spec => []EndedPlanMatchesSteps
<1>1. IInv => EndedPlanMatchesSteps
  BY DEF IInv, PlanInv, RowInv, EndFollowsSteps, EndedPlanMatchesSteps
<1> QED
  BY <1>1, InvCorrect, PTL

\* No step is started before the step it depends on has ended.
THEOREM StepsRespectDependencies == Spec => []DependenciesFirst
<1>1. ASSUME IInv PROVE DependenciesFirst
  <2> SUFFICES ASSUME NEW p \in Plans, NEW s \in Steps,
                      step[p][s] \notin {"absent", "pending"}, Dependency(s) # NoStep
               PROVE  HasEnded(p, Dependency(s))
    BY DEF DependenciesFirst, HasEnded
  <2>1. StepsInOrder(p) /\ EndFollowsSteps(p)
    BY <1>1 DEF IInv, PlanInv, RowInv
  <2>2. s \in {Precheck, Primary, Finalize} \/ s > Finalize
    BY ExecutionPlanAssumptions DEF Steps, SkippedStep, Finalize
  <2>3. CASE s \in {Precheck, Primary, Finalize}
    BY <2>1, <2>3
    DEF StepsInOrder, Waits, Dependency, Precheck, Primary, Finalize, NoStep
  <2>4. CASE s \notin {Precheck, Primary, Finalize}
    <3>1. Dependency(s) = Finalize
      BY <2>2, <2>4 DEF Dependency, Primary, Finalize
    <3> QED
      BY <2>1, <2>4, <3>1 DEF StepsInOrder, EndFollowsSteps, HasEnded
  <2> QED
    BY <2>3, <2>4
<1> QED
  BY <1>1, InvCorrect, PTL

-----------------------------------------------------------------------------
\* The plan's row has got its end, and the coroutine still knows which.
Ended == {"checkpoint_finished", "checkpoint_failed", "close", "done"}

\* What the caller's checkpoint says is what the row says: the row gets its last
\* status before the coroutine goes on to the caller, and nothing changes either
\* after the checkpoint.  A checkpoint of somebody else names no plan as its own.
AdviceInv ==
  \A p \in Plans :
    /\ task[p].at = "fail_plan" => task[p].result = "failed"
    /\ task[p].at \in Ended => plan[p].status = task[p].result
    /\ newest.by = p =>
         /\ task[p].at = "done" /\ newest.plan \in {NoPlan, p}
         /\ newest.failed = (task[p].result = "failed")

LEMMA AdviceInit == Init => AdviceInv
<1> SUFFICES ASSUME Init, NEW p \in Plans
             PROVE  task[p].at = "idle" /\ newest.by # p
  BY DEF AdviceInv, Ended
<1> QED
  BY ExecutionPlanAssumptions DEF Init, Unused

\* A step that writes no checkpoint as its own keeps another plan's facts.
LEMMA AdviceOfOthers ==
  ASSUME IInv, AdviceInv, NEW p \in Plans, NEW q \in Plans \ {p},
         CreatePlan(p) \/ Progress(p) \/ WriteRaises(p)
  PROVE  /\ task'[q] = task[q] /\ plan'[q] = plan[q]
         /\ newest' = newest \/ newest'.by # q
<1>1. task'[q] = task[q] /\ plan'[q] = plan[q]
  BY OthersUnchanged DEF IInv
<1>2. CASE CreatePlan(p) \/ WriteRaises(p)
  BY <1>1, <1>2 DEF CreatePlan, WriteRaises, store
<1>3. CASE Close(p)
  BY <1>1, <1>3 DEF Close, CallerCheckpoint
<1>4. CASE CheckpointStarted(p) \/ CheckpointFinished(p) \/ CheckpointFailed(p)
  <2>1. newest' = newest \/ newest'.by = NoPlan
    BY <1>4 DEF CheckpointStarted, CheckpointFinished, CheckpointFailed, NodeCheckpoint
  <2> QED
    BY <1>1, <2>1, ExecutionPlanAssumptions
<1>5. CASE \/ \E s, here, next : CreateStep(p, here, s, next)
           \/ ListSteps(p) \/ StartPrecheck(p) \/ ValidateBinding(p) \/ AdvanceToPrimary(p)
           \/ StartPrimary(p) \/ CallTool(p) \/ CallReturns(p) \/ StoreResult(p)
           \/ StartFinalize(p) \/ EndFinalize(p) \/ RecordSkipped(p) \/ EndPlan(p)
           \/ FailStep(p) \/ FailPlan(p)
  <2>1. newest' = newest
    BY <1>5, Zenon
    DEF CreateStep, ListSteps, StartPrecheck, ValidateBinding, AdvanceToPrimary, StartPrimary,
        CallTool, CallReturns, StoreResult, StartFinalize, EndFinalize, RecordSkipped, EndPlan,
        FailStep, FailPlan, store
  <2> QED
    BY <1>1, <2>1
<1>6. CASE Progress(p)
  BY <1>3, <1>4, <1>5, <1>6, Zenon DEF Progress
<1> QED
  BY <1>2, <1>6

LEMMA AdviceOfOne ==
  ASSUME TypeInvariant, TypeInvariant', AdviceInv, NEW p \in Plans,
         CreatePlan(p) \/ Progress(p) \/ WriteRaises(p)
  PROVE  /\ task'[p].at = "fail_plan" => task'[p].result = "failed"
         /\ task'[p].at \in Ended => plan'[p].status = task'[p].result
         /\ newest'.by = p =>
              /\ task'[p].at = "done" /\ newest'.plan \in {NoPlan, p}
              /\ newest'.failed = (task'[p].result = "failed")
<1> DEFINE Kept ==
      /\ task'[p].at = "fail_plan" => task'[p].result = "failed"
      /\ task'[p].at \in Ended => plan'[p].status = task'[p].result
      /\ newest'.by = p =>
           /\ task'[p].at = "done" /\ newest'.plan \in {NoPlan, p}
           /\ newest'.failed = (task'[p].result = "failed")
<1>a. /\ task[p].at = "fail_plan" => task[p].result = "failed"
      /\ task[p].at \in Ended => plan[p].status = task[p].result
      /\ newest.by = p =>
           /\ task[p].at = "done" /\ newest.plan \in {NoPlan, p}
           /\ newest.failed = (task[p].result = "failed")
  BY DEF AdviceInv
<1>b. task \in [Plans -> Tasks] /\ plan \in [Plans -> PlanRows]
  BY DEF TypeInvariant
<1>c. task[p].result \in {"completed", "failed"}
  BY <1>b DEF Tasks
<1>d. ASSUME NEW place, GoTo(p, place)
      PROVE  task'[p].at = place /\ task'[p].result = task[p].result
  BY <1>b, <1>d DEF GoTo, Tasks
<1>1. ASSUME task'[p].at \notin Ended \cup {"fail_plan"}, newest' = newest,
             task[p].at # "done"
      PROVE  Kept
  BY <1>a, <1>1
<1>2. CASE CreatePlan(p)
  <2>1. PICK e \in Entries, n \in SkipCounts :
          task' = [task EXCEPT ![p].at = "create_precheck", ![p].entry = e, ![p].skipped = n]
    BY <1>2 DEF CreatePlan
  <2>2. task'[p].at = "create_precheck"
    BY <2>1, <1>b DEF Tasks
  <2> QED
    BY <1>1, <1>2, <2>2 DEF CreatePlan, Ended
<1>3. ASSUME NEW s, NEW here, NEW next \in {"create_primary", "create_finalize", "list_steps"},
             here # "done", CreateStep(p, here, s, next) PROVE Kept
  <2>1. task'[p].at = next
    BY <1>3, <1>b DEF CreateStep, Tasks
  <2> QED
    BY <1>1, <1>3, <2>1 DEF CreateStep, At, Ended
<1>4. CASE ListSteps(p) \/ StartPrecheck(p) \/ ValidateBinding(p) \/ AdvanceToPrimary(p)
             \/ StartPrimary(p)
  <2>1. /\ task'[p].at \in {"checkpoint_started", "validate", "advance", "start_primary",
                            "call", "fail_step"}
        /\ task[p].at # "done" /\ newest' = newest
    BY <1>4, <1>d
    DEF ListSteps, StartPrecheck, ValidateBinding, AdvanceToPrimary, StartPrimary, At
  <2> QED
    BY <1>1, <2>1 DEF Ended
<1>5. CASE CallTool(p) \/ CallReturns(p)
  <2>1. task'[p].at \in {"await", "fail_step", "store_result"} /\ task[p].at \in {"call", "await"}
    BY <1>5, <1>b DEF CallTool, CallReturns, GoTo, At, Tasks
  <2> QED
    BY <1>1, <1>5, <2>1 DEF CallTool, CallReturns, store, Ended
<1>6. CASE StoreResult(p) \/ StartFinalize(p) \/ EndFinalize(p)
  BY <1>1, <1>6, <1>d DEF StoreResult, StartFinalize, EndFinalize, At, Ended
<1>7. CASE RecordSkipped(p)
  <2>1. task'[p].at = "end_plan"
    BY <1>7, <1>b DEF RecordSkipped, At, Tasks
  <2> QED
    BY <1>1, <1>7, <2>1 DEF RecordSkipped, At, Ended
<1>8. CASE CheckpointStarted(p)
  <2>1. task'[p].at = "start_precheck" /\ task[p].at = "checkpoint_started"
    BY <1>8, <1>d DEF CheckpointStarted, At
  <2>2. newest'.by # p
    BY <1>8, <1>a, <2>1, ExecutionPlanAssumptions DEF CheckpointStarted, NodeCheckpoint
  <2> QED
    BY <2>1, <2>2 DEF Ended
<1>9. CASE EndPlan(p)
  <2>1. /\ task'[p].at = "checkpoint_finished" /\ task'[p].result = task[p].result
        /\ task[p].at = "end_plan" /\ newest' = newest
    BY <1>9, <1>d DEF EndPlan, At
  <2>2. plan'[p].status = task[p].result
    BY <1>9, <1>b, <1>c DEF EndPlan, FinalPlanRow, PlanRow
  <2> QED
    BY <1>a, <2>1, <2>2
<1>10. CASE CheckpointFinished(p) \/ CheckpointFailed(p)
  <2>1. /\ task'[p].at = "close" /\ task'[p].result = task[p].result /\ plan' = plan
        /\ task[p].at \in {"checkpoint_finished", "checkpoint_failed"}
    BY <1>10, <1>d DEF CheckpointFinished, CheckpointFailed, At, Return
  <2>2. newest'.by # p
    BY <1>10, <1>a, <2>1, ExecutionPlanAssumptions
    DEF CheckpointFinished, CheckpointFailed, NodeCheckpoint
  <2> QED
    BY <1>a, <2>1, <2>2 DEF Ended
<1>11. CASE FailStep(p)
  <2>1. task'[p].at = "fail_plan" /\ task'[p].result = "failed"
    BY <1>11, <1>b DEF FailStep, Tasks
  <2> QED
    BY <1>a, <1>11, <2>1 DEF FailStep, At, Ended
<1>12. CASE FailPlan(p)
  <2>1. /\ task'[p].at = "checkpoint_failed" /\ task'[p].result = task[p].result
        /\ task[p].at = "fail_plan" /\ newest' = newest
    BY <1>12, <1>d DEF FailPlan, At
  <2>2. plan'[p].status = "failed"
    BY <1>12, <1>b DEF FailPlan, PlanRow
  <2> QED
    BY <1>a, <2>1, <2>2
<1>13. CASE Close(p)
  <2>1. /\ task'[p].at = "done" /\ task'[p].result = task[p].result /\ plan' = plan
        /\ task[p].at = "close"
    BY <1>13, <1>d DEF Close
  <2>2. newest'.plan \in {NoPlan, p} /\ newest'.failed = (task[p].result = "failed")
    BY <1>13 DEF Close, CallerCheckpoint
  <2> QED
    BY <1>a, <2>1, <2>2 DEF Ended
<1>14. CASE WriteRaises(p)
  <2>1. task'[p].at \in {"fail_step", "lost"} /\ task[p].at # "done"
    BY <1>14, <1>d DEF WriteRaises, Lose, InTry, Setup, Ending, Failing
  <2> QED
    BY <1>1, <1>14, <2>1 DEF WriteRaises, store, Ended
<1>15. CASE Progress(p)
  BY <1>3, <1>4, <1>5, <1>6, <1>7, <1>8, <1>9, <1>10, <1>11, <1>12, <1>13, <1>15, Zenon
  DEF Progress
<1> QED
  BY <1>2, <1>14, <1>15

LEMMA AdviceStep == IInv /\ IInv' /\ AdviceInv /\ [Next]_vars => AdviceInv'
<1> SUFFICES ASSUME IInv, IInv', AdviceInv, [Next]_vars PROVE AdviceInv'
  OBVIOUS
<1>1. ASSUME NEW p \in Plans, CreatePlan(p) \/ Progress(p) \/ WriteRaises(p)
      PROVE  AdviceInv'
  BY <1>1, AdviceOfOne, AdviceOfOthers DEF IInv, AdviceInv
<1>2. CASE OtherRound
  BY <1>2, ExecutionPlanAssumptions DEF OtherRound, AdviceInv
<1>3. CASE Crash
  BY <1>3 DEF Crash, store, AdviceInv, Ended, IInv, TypeInvariant
<1>4. CASE UNCHANGED vars
  BY <1>4 DEF vars, AdviceInv
<1> QED
  BY <1>1, <1>2, <1>3, <1>4 DEF Next

\* Once the caller has written its checkpoint, and until another call of the
\* session writes one, get_execution_recovery sends a person exactly when the
\* plan failed, whether the checkpoint names the plan or only quotes the answer.
THEOREM AdviceFollowsThePlan == Spec => []AdviceAfterClose
<1>1. IInv /\ AdviceInv => AdviceAfterClose
  <2> SUFFICES ASSUME IInv, AdviceInv, NEW p \in Plans, newest.by = p
               PROVE  ExecutionRecovery.action =
                        IF plan[p].status = "completed" THEN "none" ELSE "manual_intervention"
    BY DEF AdviceAfterClose
  <2>1. /\ plan[p].status = task[p].result /\ newest.plan \in {NoPlan, p}
        /\ newest.failed = (task[p].result = "failed")
    BY DEF AdviceInv, Ended
  <2>2. task[p].result \in {"completed", "failed"}
    BY DEF IInv, TypeInvariant, Tasks
  <2>3. /\ plan[p].status = "completed" => plan[p].recovery.action = "none"
        /\ plan[p].status = "failed" => plan[p].recovery.action = "manual_intervention"
    BY DEF IInv, PlanInv, RowInv, EndFollowsSteps
  <2>4. CASE newest.plan # NoPlan
    BY <2>1, <2>2, <2>3, <2>4 DEF ExecutionRecovery
  <2>5. CASE newest.plan = NoPlan
    BY <2>1, <2>2, <2>5 DEF ExecutionRecovery, NothingToRecover, Recovery
  <2> QED
    BY <2>4, <2>5
<1>2. Spec => []AdviceInv
  BY AdviceInit, AdviceStep, InvCorrect, PTL DEF Spec
<1> QED
  BY <1>1, <1>2, InvCorrect, PTL

-----------------------------------------------------------------------------
\* The rows implement PlanContract.

\* Steps that leave every plan's status and every call count alone.
LEMMA Stutter ==
  ASSUME \A q \in Plans : plan'[q].status = plan[q].status, UNCHANGED sent
  PROVE  UNCHANGED Contract!vars
BY DEF Contract!vars

LEMMA ContractStep ==
  ASSUME IInv, NEW p \in Plans, CreatePlan(p) \/ Progress(p) \/ WriteRaises(p)
  PROVE  \/ Contract!Begin(p) \/ Contract!Send(p) \/ Contract!Complete(p) \/ Contract!Fail(p)
         \/ UNCHANGED Contract!vars
<1> DEFINE status == [q \in Plans |-> plan[q].status]
<1>0. /\ plan \in [Plans -> PlanRows] /\ sent \in [Plans -> Nat]
      /\ PlanInv(p)
  BY DEF IInv, TypeInvariant
<1>1. ASSUME NEW row, plan' = [plan EXCEPT ![p] = row]
      PROVE  status' = [status EXCEPT ![p] = row.status]
  BY <1>0, <1>1
<1>2. CASE CreatePlan(p)
  <2> DEFINE row == PlanRow("running", {}, NoStep,
                      Recovery(TRUE, "execute_primary_step", NoStep, NoStep, NoStep))
  <2>0. row.status = "running"
    BY DEF PlanRow
  <2>1. status' = [status EXCEPT ![p] = row.status]
    BY <1>1, <1>2 DEF CreatePlan
  <2> QED
    BY <1>0, <1>2, <2>0, <2>1
    DEF CreatePlan, PlanInv, RowInv, RowFollowsTask, Contract!Begin, Contract!Move
<1>3. CASE CallTool(p)
  <2>1. status[p] = "running" /\ sent[p] = 0 /\ UNCHANGED plan
    BY <1>0, <1>3
    DEF CallTool, At, store, PlanInv, RowInv, RowFollowsTask, CallFollowsRows, BeforeCall, Open, InTry
  <2>2. UNCHANGED status
    BY <2>1
  <2>3. CASE sent' = [sent EXCEPT ![p] = @ + 1]
    <3>1. sent' = [sent EXCEPT ![p] = 1]
      BY <2>1, <2>3
    <3> QED
      BY <2>1, <2>2, <3>1 DEF Contract!Send
  <2>4. CASE UNCHANGED sent
    BY <2>1, <2>4, Stutter
  <2> QED
    BY <1>3, <2>3, <2>4 DEF CallTool
<1>4. CASE EndPlan(p)
  <2>1. status' = [status EXCEPT ![p] = FinalPlanRow(p).status]
    BY <1>1, <1>4 DEF EndPlan
  <2>2. FinalPlanRow(p).status \in {"completed", "failed"}
    BY DEF FinalPlanRow, PlanRow
  <2>3. sent[p] = 1 /\ status[p] = "running" /\ UNCHANGED sent
    BY <1>0, <1>4
    DEF EndPlan, At, PlanInv, RowInv, RowFollowsTask, CallFollowsRows, Recording, Open
  <2> QED
    BY <2>1, <2>2, <2>3 DEF Contract!Complete, Contract!Fail, Contract!Move
<1>5. CASE FailPlan(p)
  <2> DEFINE f   == task[p].failedStep
             row == PlanRow("failed", {Precheck, Primary, Finalize}, f,
                      Recovery(TRUE, "manual_intervention", f, f,
                               IF f = Precheck THEN NoStep ELSE Precheck))
  <2>0. row.status = "failed"
    BY DEF PlanRow
  <2>1. status' = [status EXCEPT ![p] = row.status]
    BY <1>1, <1>5 DEF FailPlan
  <2>2. status[p] = "running" /\ UNCHANGED sent
    BY <1>0, <1>5 DEF FailPlan, At, PlanInv, RowInv, RowFollowsTask, Open
  <2> QED
    BY <2>0, <2>1, <2>2 DEF Contract!Fail, Contract!Move
<1>6. CASE ListSteps(p) \/ AdvanceToPrimary(p)
  <2>1. \A q \in Plans \ {p} : plan'[q] = plan[q]
    BY <1>0, <1>6 DEF ListSteps, AdvanceToPrimary
  <2>2. plan'[p].status = plan[p].status
    BY <1>0, <1>6 DEF ListSteps, AdvanceToPrimary, PlanRows
  <2> QED
    BY <1>6, <2>1, <2>2, Stutter DEF ListSteps, AdvanceToPrimary
<1>7. CASE WriteRaises(p)
  BY <1>7, Stutter DEF WriteRaises, store
<1>8. CASE Progress(p) /\ UNCHANGED <<plan, sent>>
  BY <1>8, Stutter
<1>9. Progress(p) /\ ~CallTool(p) /\ ~EndPlan(p) /\ ~FailPlan(p)
        /\ ~(ListSteps(p) \/ AdvanceToPrimary(p)) => UNCHANGED <<plan, sent>>
  BY DEF Progress, CreateStep, CheckpointStarted, StartPrecheck, ValidateBinding,
     StartPrimary, CallReturns, StoreResult, StartFinalize, EndFinalize, RecordSkipped,
     CheckpointFinished, FailStep, CheckpointFailed, Close, store
<1> QED
  BY <1>2, <1>3, <1>4, <1>5, <1>6, <1>7, <1>8, <1>9

\* A plan begins once, ends once and stays ended; its action goes out at most
\* once, while it runs, and it is not completed without it.
THEOREM PlanKeepsContract == Spec => ImplementsPlanContract
<1>1. Init => Contract!Init
  BY DEF Init, NoPlanRow, PlanRow, Contract!Init
<1>2. IInv /\ [Next]_vars => [Contract!Next]_Contract!vars
  <2> SUFFICES ASSUME IInv, [Next]_vars
               PROVE  [Contract!Next]_Contract!vars
    OBVIOUS
  <2>1. ASSUME NEW p \in Plans, CreatePlan(p) \/ Progress(p) \/ WriteRaises(p)
        PROVE  [Contract!Next]_Contract!vars
    BY <2>1, ContractStep DEF Contract!Next
  <2>2. CASE OtherRound \/ Crash \/ UNCHANGED vars
    BY <2>2, Stutter DEF OtherRound, Crash, vars, store
  <2> QED
    BY <2>1, <2>2 DEF Next
<1> QED
  BY <1>1, <1>2, InvCorrect, PTL DEF Spec, ImplementsPlanContract, Contract!Spec

=============================================================================
