---------------------------- MODULE ExecutionPlan ----------------------------
(***************************************************************************)
(* The execution of approved actions in one session: the plan and step     *)
(* rows, the node's checkpoints, and what get_execution_recovery advises.  *)
(*                                                                         *)
(* execute_approved_action_transition writes row after row, each in a      *)
(* commit of its own, and suspends only while the external system works on *)
(* the action.  So a plan holds the event loop from one suspension to the  *)
(* next, but the process may die, and a write may raise, between any two   *)
(* commits.  Nothing ever continues a plan after that.                     *)
(*                                                                         *)
(* A step is named by its sequence number.  Attempt counters, summaries,   *)
(* evidence and hints are left out; the attempt is 1 once a step started.  *)
(***************************************************************************)
EXTENDS Naturals

CONSTANTS
  Plans,         \* executions of the session, each with a plan of its own
  NoPlan,
  MaxSkipped,    \* bound: approved proposals after the first one
  Backends,      \* does the node have a checkpoint store: TRUE with SQLite only
  MaxCrashes,    \* bound: process crashes
  MaxFaults      \* bound: store writes that raise

ASSUME ExecutionPlanAssumptions ==
  /\ NoPlan \notin Plans
  /\ {MaxSkipped, MaxCrashes, MaxFaults} \subseteq Nat
  /\ Backends \subseteq BOOLEAN /\ Backends # {}

VARIABLES
  plan,              \* execution_plan rows
  step,              \* status of the execution_step rows, by plan and sequence
  newest,            \* the session's newest execution_checkpoint row
  task,              \* the coroutine that executes each plan
  sent,              \* history: how often a plan's action was sent out
  loop,              \* the plan whose coroutine holds the event loop
  nodeCheckpoints,   \* nodes.checkpoint_store is there
  crashes, faults

store == <<plan, step, newest>>
vars  == <<plan, step, newest, task, sent, loop, nodeCheckpoints, crashes, faults>>

NoStep   == 0
Precheck == 10
Primary  == 20
Finalize == 30
SkippedStep(i)  == 30 + 10 * i
Steps == {Precheck, Primary, Finalize} \cup {SkippedStep(i) : i \in 1..MaxSkipped}

\* Values of next_sequence, and of the number of proposals not executed.
Sequences  == {SkippedStep(i) : i \in 1..MaxSkipped + 1}
SkipCounts == 0..MaxSkipped

StepStatuses == {"absent", "pending", "running", "completed", "failed", "skipped"}

\* The dependencies column: the one step that has to come first.
Dependency(s) ==
  CASE s = Primary  -> Precheck
    [] s = Finalize -> Primary
    [] s > Finalize -> Finalize
    [] OTHER        -> NoStep

Recovery(canResume, action, resumeFrom, failedStep, lastCompleted) ==
  [can_resume |-> canResume, action |-> action, resume_from |-> resumeFrom,
   failed |-> failedStep, last_completed |-> lastCompleted]

Recoveries ==
  [can_resume : BOOLEAN,
   action : {"none", "execute_primary_step", "manual_intervention"},
   resume_from : Steps \cup {NoStep}, failed : Steps \cup {NoStep},
   last_completed : Steps \cup {NoStep}]

NothingToRecover == Recovery(FALSE, "none", NoStep, NoStep, NoStep)

PlanRow(status, listed, current, recovery) ==
  [status |-> status, steps |-> listed, current |-> current, recovery |-> recovery]

PlanRows ==
  [status : {"absent", "running", "completed", "failed"},
   steps : SUBSET Steps, current : Steps \cup {NoStep}, recovery : Recoveries]

NoPlanRow == PlanRow("absent", {}, NoStep, NothingToRecover)

\* Who called: a round that needed no approval, a resumed conversation, or the
\* older decision endpoint, the only one that hands over several proposals.
Entries == {"round", "resume", "decision"}

Unused == [at |-> "idle", entry |-> "round", skipped |-> 0,
           failedStep |-> NoStep, result |-> "failed", sequence |-> 40]

\* Where a coroutine is, named for what it does next.
InTry   == {"start_precheck", "validate", "advance", "start_primary", "call"}
Setup   == {"create_precheck", "create_primary", "create_finalize", "list_steps",
            "checkpoint_started"}
Failing == {"fail_step", "fail_plan", "checkpoint_failed"}
Ending  == {"store_result", "start_finalize", "end_finalize", "end_plan",
            "checkpoint_finished"}
Places  == InTry \cup Setup \cup Failing \cup Ending
             \cup {"idle", "await", "close", "done", "lost"}

Tasks ==
  [at : Places, entry : Entries, skipped : SkipCounts,
   failedStep : {NoStep, Precheck, Primary}, result : {"completed", "failed"},
   sequence : Sequences]

Checkpoints == [plan : Plans \cup {NoPlan}, failed : BOOLEAN, by : Plans \cup {NoPlan}]

Init ==
  /\ plan = [p \in Plans |-> NoPlanRow]
  /\ step = [p \in Plans |-> [s \in Steps |-> "absent"]]
  /\ newest = [plan |-> NoPlan, failed |-> FALSE, by |-> NoPlan]
  /\ task = [p \in Plans |-> Unused]
  /\ sent = [p \in Plans |-> 0]
  /\ loop = NoPlan
  /\ nodeCheckpoints \in Backends
  /\ crashes = 0 /\ faults = 0

-----------------------------------------------------------------------------
At(p, place) == loop = p /\ task[p].at = place
GoTo(p, place) == task' = [task EXCEPT ![p].at = place]
SetStep(p, s, status) == step' = [step EXCEPT ![p][s] = status]

Budgets == <<nodeCheckpoints, crashes, faults>>

\* create_plan
CreatePlan(p) ==
  /\ loop = NoPlan /\ task[p].at = "idle"
  /\ \E e \in Entries, n \in SkipCounts :
       /\ e # "decision" => n = 0
       /\ task' = [task EXCEPT ![p].at = "create_precheck", ![p].entry = e,
                               ![p].skipped = n]
  /\ plan' = [plan EXCEPT ![p] =
       PlanRow("running", {}, NoStep,
               Recovery(TRUE, "execute_primary_step", NoStep, NoStep, NoStep))]
  /\ loop' = p
  /\ UNCHANGED <<step, newest, sent, Budgets>>

\* create_step, three times; current_failed_step_id starts as the precheck.
CreateStep(p, here, s, next) ==
  /\ At(p, here)
  /\ SetStep(p, s, "pending")
  /\ task' = [task EXCEPT ![p].at = next, ![p].failedStep = Precheck]
  /\ UNCHANGED <<plan, newest, sent, loop, Budgets>>

\* update_plan with the three ids.
ListSteps(p) ==
  /\ At(p, "list_steps")
  /\ plan' = [plan EXCEPT ![p].steps = {Precheck, Primary, Finalize},
                          ![p].current = Precheck]
  /\ GoTo(p, "checkpoint_started")
  /\ UNCHANGED <<step, newest, sent, loop, Budgets>>

\* The node's own checkpoints name the plan; without its store they are skipped.
NodeCheckpoint(p, failed) ==
  newest' = IF nodeCheckpoints
            THEN [plan |-> p, failed |-> failed, by |-> NoPlan] ELSE newest

CheckpointStarted(p) ==
  /\ At(p, "checkpoint_started")
  /\ NodeCheckpoint(p, FALSE)
  /\ GoTo(p, "start_precheck")
  /\ UNCHANGED <<plan, step, sent, loop, Budgets>>

StartPrecheck(p) ==
  /\ At(p, "start_precheck")
  /\ SetStep(p, Precheck, "running")
  /\ GoTo(p, "validate")
  /\ UNCHANGED <<plan, newest, sent, loop, Budgets>>

\* Seeded bug: the primary step is started without storing the precheck's end.
ValidateBinding_NotStored(p) ==
  /\ At(p, "validate")
  /\ GoTo(p, "advance") \/ GoTo(p, "fail_step")
  /\ UNCHANGED <<store, sent, loop, Budgets>>

\* validate_execution_binding: raises ExecutionSafetyError or returns a binding.
ValidateBinding(p) ==
  /\ At(p, "validate")
  /\ \/ SetStep(p, Precheck, "completed") /\ GoTo(p, "advance")
     \/ UNCHANGED step /\ GoTo(p, "fail_step")
  /\ UNCHANGED <<plan, newest, sent, loop, Budgets>>

AdvanceToPrimary(p) ==
  /\ At(p, "advance")
  /\ plan' = [plan EXCEPT
       ![p].current = Primary,
       ![p].recovery = Recovery(TRUE, "execute_primary_step", Primary, NoStep, Precheck)]
  /\ GoTo(p, "start_primary")
  /\ UNCHANGED <<step, newest, sent, loop, Budgets>>

\* Seeded bug: the step is marked as running only when the answer is in.
StartPrimary_NotStored(p) ==
  /\ At(p, "start_primary")
  /\ GoTo(p, "call")
  /\ UNCHANGED <<store, sent, loop, Budgets>>

StartPrimary(p) ==
  /\ At(p, "start_primary")
  /\ SetStep(p, Primary, "running")
  /\ GoTo(p, "call")
  /\ UNCHANGED <<plan, newest, sent, loop, Budgets>>

\* Seeded bug: current_failed_step_id is assigned after the await.
CallTool_BlamesPrecheck(p) ==
  /\ At(p, "call")
  /\ \/ /\ sent' = [sent EXCEPT ![p] = @ + 1]
        /\ GoTo(p, "await")
        /\ loop' = NoPlan
     \/ GoTo(p, "fail_step") /\ UNCHANGED <<sent, loop>>
  /\ UNCHANGED <<store, Budgets>>

\* From here on a failure is blamed on the primary step.  The action goes out,
\* or it has neither an MCP server nor a local implementation.
CallTool(p) ==
  /\ At(p, "call")
  /\ \/ /\ sent' = [sent EXCEPT ![p] = @ + 1]
        /\ task' = [task EXCEPT ![p].at = "await", ![p].failedStep = Primary]
        /\ loop' = NoPlan
     \/ /\ task' = [task EXCEPT ![p].at = "fail_step", ![p].failedStep = Primary]
        /\ UNCHANGED <<sent, loop>>
  /\ UNCHANGED <<store, Budgets>>

\* Seeded bug: the status the tool reports is stored as it is.
CallReturns_RawStatus(p) ==
  /\ task[p].at = "await" /\ loop = NoPlan
  /\ \/ \E r \in {"completed", "failed", "pending_approval"} :
          task' = [task EXCEPT ![p].at = "store_result", ![p].result = r]
     \/ GoTo(p, "fail_step")
  /\ loop' = p
  /\ UNCHANGED <<store, sent, Budgets>>

\* Seeded bug: an error of a retryable kind is retried at once.
CallReturns_Retries(p) ==
  /\ task[p].at = "await" /\ loop = NoPlan
  /\ \/ \E r \in {"completed", "failed"} :
          task' = [task EXCEPT ![p].at = "store_result", ![p].result = r]
     \/ GoTo(p, "call")
  /\ loop' = p
  /\ UNCHANGED <<store, sent, Budgets>>

\* An answer, or a timeout, transport or protocol error.  Neither says whether
\* the action has taken effect.
CallReturns(p) ==
  /\ task[p].at = "await" /\ loop = NoPlan
  /\ \/ \E r \in {"completed", "failed"} :
          task' = [task EXCEPT ![p].at = "store_result", ![p].result = r]
     \/ GoTo(p, "fail_step")
  /\ loop' = p
  /\ UNCHANGED <<store, sent, Budgets>>

-----------------------------------------------------------------------------
\* After an answer.
StoreResult(p) ==
  /\ At(p, "store_result")
  /\ SetStep(p, Primary, task[p].result)
  /\ GoTo(p, "start_finalize")
  /\ UNCHANGED <<plan, newest, sent, loop, Budgets>>

StartFinalize(p) ==
  /\ At(p, "start_finalize")
  /\ SetStep(p, Finalize, "running")
  /\ GoTo(p, "end_finalize")
  /\ UNCHANGED <<plan, newest, sent, loop, Budgets>>

EndFinalize(p) ==
  /\ At(p, "end_finalize")
  /\ SetStep(p, Finalize, "completed")
  /\ GoTo(p, "end_plan")
  /\ UNCHANGED <<plan, newest, sent, loop, Budgets>>

\* Only the first proposal is executed; the others get a skipped step each.
RecordSkipped(p) ==
  /\ At(p, "end_plan")
  /\ task[p].sequence <= SkippedStep(task[p].skipped)
  /\ SetStep(p, task[p].sequence, "skipped")
  /\ task' = [task EXCEPT ![p].sequence = @ + 10]
  /\ UNCHANGED <<plan, newest, sent, loop, Budgets>>

Existing(p) == {s \in Steps : step[p][s] # "absent"}

\* Seeded bug: the plan keeps the list it was created with.
FinalPlanRow_FirstSteps(p) ==
  IF task[p].result = "completed"
  THEN PlanRow("completed", plan[p].steps, Finalize,
               Recovery(FALSE, "none", NoStep, NoStep, Finalize))
  ELSE PlanRow("failed", plan[p].steps, Primary,
               Recovery(FALSE, "manual_intervention", Primary, Primary, Finalize))

FinalPlanRow(p) ==
  IF task[p].result = "completed"
  THEN PlanRow("completed", Existing(p), Finalize,
               Recovery(FALSE, "none", NoStep, NoStep, Finalize))
  ELSE PlanRow("failed", Existing(p), Primary,
               Recovery(FALSE, "manual_intervention", Primary, Primary, Finalize))

EndPlan(p) ==
  /\ At(p, "end_plan")
  /\ task[p].sequence > SkippedStep(task[p].skipped)
  /\ plan' = [plan EXCEPT ![p] = FinalPlanRow(p)]
  /\ GoTo(p, "checkpoint_finished")
  /\ UNCHANGED <<step, newest, sent, loop, Budgets>>

\* The node returns.  Between graph nodes other calls may run; a resumed
\* conversation has no graph around the node and goes straight on.
Return(p) ==
  /\ GoTo(p, "close")
  /\ loop' = IF task[p].entry = "resume" THEN p ELSE NoPlan

CheckpointFinished(p) ==
  /\ At(p, "checkpoint_finished")
  /\ NodeCheckpoint(p, task[p].result = "failed")
  /\ Return(p)
  /\ UNCHANGED <<plan, step, sent, Budgets>>

-----------------------------------------------------------------------------
\* The except branch.
FailStep(p) ==
  /\ At(p, "fail_step")
  /\ SetStep(p, task[p].failedStep, "failed")
  /\ task' = [task EXCEPT ![p].at = "fail_plan", ![p].result = "failed"]
  /\ UNCHANGED <<plan, newest, sent, loop, Budgets>>

\* Seeded bug: the except branch stores the recovery but not the status.
FailPlan_StatusKept(p) ==
  /\ At(p, "fail_plan")
  /\ plan' = [plan EXCEPT ![p].recovery =
       Recovery(TRUE, "manual_intervention", task[p].failedStep, task[p].failedStep,
                IF task[p].failedStep = Precheck THEN NoStep ELSE Precheck)]
  /\ GoTo(p, "checkpoint_failed")
  /\ UNCHANGED <<step, newest, sent, loop, Budgets>>

FailPlan(p) ==
  /\ At(p, "fail_plan")
  /\ LET f == task[p].failedStep
     IN  plan' = [plan EXCEPT ![p] =
           PlanRow("failed", {Precheck, Primary, Finalize}, f,
                   Recovery(TRUE, "manual_intervention", f, f,
                            IF f = Precheck THEN NoStep ELSE Precheck))]
  /\ GoTo(p, "checkpoint_failed")
  /\ UNCHANGED <<step, newest, sent, loop, Budgets>>

CheckpointFailed(p) ==
  /\ At(p, "checkpoint_failed")
  /\ NodeCheckpoint(p, TRUE)
  /\ Return(p)
  /\ UNCHANGED <<plan, step, sent, Budgets>>

-----------------------------------------------------------------------------
\* Seeded bug: the response's status is not put into the metadata.
CallerCheckpoint_NoStatus(p) ==
  [plan |-> IF task[p].entry = "round" THEN NoPlan ELSE p, failed |-> FALSE, by |-> p]

\* The caller's checkpoint.  An approval endpoint names the plan in it; a round
\* only says how it was answered.
CallerCheckpoint(p) ==
  [plan |-> IF task[p].entry = "round" THEN NoPlan ELSE p,
   failed |-> task[p].result = "failed", by |-> p]

Close(p) ==
  /\ task[p].at = "close" /\ loop \in {NoPlan, p}
  /\ newest' = CallerCheckpoint(p)
  /\ GoTo(p, "done")
  /\ loop' = NoPlan
  /\ UNCHANGED <<plan, step, sent, Budgets>>

\* Any other round of the session ends: its checkpoint names no plan.
OtherRound ==
  /\ loop = NoPlan
  /\ newest' = [plan |-> NoPlan, failed |-> FALSE, by |-> NoPlan]
  /\ UNCHANGED <<plan, step, task, sent, loop, Budgets>>

\* The coroutine ends with an exception nobody handles.
Lose(p) == GoTo(p, "lost") /\ loop' = NoPlan

\* A write raises, of a row or of the system event that follows it.  Inside the
\* try block the except branch takes over.
WriteRaises(p) ==
  /\ faults < MaxFaults
  /\ \/ loop = p /\ task[p].at \in InTry /\ GoTo(p, "fail_step") /\ UNCHANGED loop
     \/ loop = p /\ task[p].at \in Setup \cup {"start_precheck"} /\ Lose(p)
     \/ loop = p /\ task[p].at \in Ending \cup Failing /\ Lose(p)
     \/ loop \in {NoPlan, p} /\ task[p].at = "close" /\ Lose(p)
  /\ faults' = faults + 1
  /\ UNCHANGED <<store, sent, nodeCheckpoints, crashes>>

\* The process dies, whatever its coroutines were doing.
Crash ==
  /\ crashes < MaxCrashes
  /\ \E p \in Plans : task[p].at \notin {"idle", "done", "lost"}
  /\ task' = [p \in Plans |->
       IF task[p].at \in {"idle", "done"} THEN task[p] ELSE [task[p] EXCEPT !.at = "lost"]]
  /\ loop' = NoPlan
  /\ crashes' = crashes + 1
  /\ UNCHANGED <<store, sent, nodeCheckpoints, faults>>

\* What a started plan does if nothing goes wrong with its process or store.
Progress(p) ==
  \/ CreateStep(p, "create_precheck", Precheck, "create_primary")
  \/ CreateStep(p, "create_primary", Primary, "create_finalize")
  \/ CreateStep(p, "create_finalize", Finalize, "list_steps")
  \/ ListSteps(p) \/ CheckpointStarted(p)
  \/ StartPrecheck(p) \/ ValidateBinding(p) \/ AdvanceToPrimary(p)
  \/ StartPrimary(p) \/ CallTool(p) \/ CallReturns(p)
  \/ StoreResult(p) \/ StartFinalize(p) \/ EndFinalize(p)
  \/ RecordSkipped(p) \/ EndPlan(p) \/ CheckpointFinished(p)
  \/ FailStep(p) \/ FailPlan(p) \/ CheckpointFailed(p)
  \/ Close(p)

Next ==
  \/ \E p \in Plans : CreatePlan(p) \/ Progress(p) \/ WriteRaises(p)
  \/ OtherRound
  \/ Crash

Spec == Init /\ [][Next]_vars

\* MCPClient gives up after its timeout, so an awaited call always returns.
FairSpec == Spec /\ \A p \in Plans : WF_vars(Progress(p))

-----------------------------------------------------------------------------
\* get_execution_recovery.  A checkpoint that names a plan is answered from the
\* plan's row, one that does not from what it says of the response.
ExecutionRecovery ==
  IF newest.plan # NoPlan THEN plan[newest.plan].recovery
  ELSE IF newest.failed THEN [NothingToRecover EXCEPT !.action = "manual_intervention"]
  ELSE NothingToRecover

-----------------------------------------------------------------------------
TypeInvariant ==
  /\ plan \in [Plans -> PlanRows]
  /\ step \in [Plans -> [Steps -> StepStatuses]]
  /\ newest \in Checkpoints
  /\ task \in [Plans -> Tasks]
  /\ sent \in [Plans -> Nat]
  /\ loop \in Plans \cup {NoPlan}
  /\ nodeCheckpoints \in BOOLEAN
  /\ crashes \in Nat /\ faults \in Nat

\* Whenever the process dies, the rows tell that the action may be out: it is
\* never sent before the precheck is stored as completed and the primary step
\* as started, so a primary step still pending was certainly not executed.
SentIsOnRecord ==
  \A p \in Plans : sent[p] > 0 =>
    /\ step[p][Precheck] = "completed"
    /\ step[p][Primary] \in {"running", "completed", "failed"}
    /\ Precheck = plan[p].recovery.last_completed \/ plan[p].status # "running"

\* A plan that blames its precheck never sent the action, whichever write or
\* check raised: a person may start it again without looking at the target.
PrecheckFailureSentNothing ==
  \A p \in Plans :
    plan[p].status = "failed" /\ plan[p].recovery.failed = Precheck => sent[p] = 0

\* A plan that has ended agrees with its steps.  Completed: every step it lists
\* is completed or skipped, and it lists all there are.  Failed: it asks for a
\* person and names a step that is stored as failed.
EndedPlanMatchesSteps ==
  \A p \in Plans :
    /\ plan[p].status = "completed" =>
         /\ plan[p].steps = Existing(p)
         /\ {Precheck, Primary, Finalize} \subseteq plan[p].steps
         /\ \A s \in plan[p].steps : step[p][s] \in {"completed", "skipped"}
         /\ plan[p].recovery.action = "none"
    /\ plan[p].status = "failed" =>
         /\ step[p][plan[p].recovery.failed] = "failed"
         /\ plan[p].recovery.action = "manual_intervention"

\* No step is started before the step it depends on has ended.
DependenciesFirst ==
  \A p \in Plans, s \in Steps :
    step[p][s] \notin {"absent", "pending"} /\ Dependency(s) # NoStep =>
      step[p][Dependency(s)] \in {"completed", "failed"}

\* Once the caller has written its checkpoint, and until another call of the
\* session writes one, the advice is to involve a person exactly when the plan
\* failed, although a round's checkpoint does not name the plan.
AdviceAfterClose ==
  \A p \in Plans : newest.by = p =>
    ExecutionRecovery.action =
      IF plan[p].status = "completed" THEN "none" ELSE "manual_intervention"

\* A plan that was started ends, unless its coroutine was lost.
EveryPlanEnds ==
  \A p \in Plans :
    plan[p].status = "running" ~>
      (plan[p].status \in {"completed", "failed"} \/ task[p].at = "lost")

\* The rows keep what a plan promises: one start, one end, one call.
Contract == INSTANCE PlanContract WITH status <- [p \in Plans |-> plan[p].status]

ImplementsPlanContract == Contract!Spec

\* The documents: a failed or half-done execution is mapped to manual
\* intervention.  Half done here: the action went out and the coroutine is gone.
HalfDoneIsManual ==
  \A p \in Plans :
    sent[p] > 0 /\ task[p].at = "lost" /\ newest.plan = p =>
      ExecutionRecovery.action = "manual_intervention"
=============================================================================
