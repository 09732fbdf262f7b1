# Verification of the IT-ticket agent

This directory models `src/projects/it-ticket-agent` and the RAG service beside it:
how a conversation, its interrupts, its approvals and its checkpoints move under
concurrent HTTP calls, failures and restarts; how a diagnosis looks for evidence and
what passes the approval gate; when an action reaches an external system; and what
is remembered of it all, in the session, as cases and playbooks, as regression
cases, and in the indexes that are searched for the next ticket. `A/` stands for
`src/projects/it-ticket-agent/src/it_ticket_agent/`, `R/` for
`src/projects/it-ticket-rag-service/src/it_ticket_rag_service/`.

## 1. The system

A FastAPI service (`A/main.py`) takes incident descriptions, diagnoses them with
a tool-calling loop and proposes actions. High-risk actions wait for a person.
All endpoints are `async def` on one event loop and every store call is
synchronous, so a handler is atomic from one `await` to the next; several
processes may share one Postgres database.

| Component | State | Operations | Works with |
|---|---|---|---|
| Orchestrator (`A/runtime/orchestrator.py`, `A/main.py`) | none of its own; holds the incident state of each running call | start, post_message, resume (approval, clarification, feedback), decision, expire, cancel | everything below |
| Sessions (`A/session`) | `conversation_session` row: status, pending_interrupt_id, incident_state, last_checkpoint_id, memory | create (or replace), update_session_state, update_session_status | orchestrator |
| Interrupts (`A/interrupts`) | `interrupt_request` rows, pending until answered, expired or cancelled | create, answer, expire, cancel | orchestrator, graph nodes |
| Approvals (`A/approval`) | `approval_request_v2` rows and `approval_audit_event` rows | create_request, record_decision, expire_request, cancel_request, record_resumed | orchestrator, gate |
| Checkpoints (`A/checkpoints`) | `execution_checkpoint` rows with a state snapshot | create, get, get_latest | orchestrator |
| Graphs (`A/graph`) | the state passed from node to node | route, loop, gate, execute, finalize; approval graph: ingest, decide, execute | approvals, interrupts, execution |
| Execution (`A/execution`, `A/graph/nodes.py`) | plan and step rows, recovery record | create and update plan and steps, run the action | graph, checkpoints |
| Gate, policy, binding (`A/approval/coordinator.py`, `policy.py`, `A/execution/security.py`, `action_registry.py`) | none | classify proposals, dedupe, bind a snapshot, validate it | gate, execution |
| Supervisor loop, tool middleware (`A/runtime/react_supervisor.py`, `A/execution/tool_middleware.py`) | tool cache, counters, observations | plan a batch, run tools, stop, rank | tools |
| Case memory (`A/memory`, `A/memory_store.py`, `A/case_vector_indexer.py`, playbooks, bad cases) | case, review, index, playbook rows | upsert, review, index, extract | orchestrator, RAG service |
| Session memory and event queue (`A/memory/working_memory.py`, orchestrator) | part of the session row | queue, consume, merge | orchestrator |
| Ranking, retrieval planning, slot resolution, tools, context, evals, observability | derived data | pure functions, read-only calls | loop |
| Knowledge index of the RAG service (`R/knowledge.py`, `pgvector_store.py`) | document, block and chunk tables or `index.json`; a copy in memory | boot, sync, reindex, search | agent |
| Case index of the RAG service (`R/case_memory.py`) | case rows with vectors | sync, recall (exact, pattern, semantic) | agent |
| CI/CD MCP server (another project) | none | JSON-RPC calls | agent |

What is hard here:

- **Interleaving at awaits.** A handler reads the session row, awaits retrieval, a
  diagnosis or an execution, and writes the row back from what it read. Rounds of
  one conversation overlap, the decision endpoints act on whatever interrupt the
  row names by then, and a client may create the conversation again.
- **Copies.** The incident state, with the actions approved so far and the
  feedback interrupt, lives in the row, in checkpoints and in running calls, and
  each is restored from the others.
- **Halfway failures and restarts.** The approval is resolved, then the interrupt,
  then the action is awaited, then the row is written. Each step may be the last.
- **Several processes** on one database: the approval store checks a status before
  it writes; exports and merges of bad cases are scripts over shared files.
- **Background calls.** A confirmed case is indexed by a task that carries a copy of
  the row, while runs and reviews replace it; a sync rebuilds the knowledge index
  beneath the searches.
- **Limits.** The event queue, the memory lists, the tool budget and the hits shown
  are capped, and what is dropped matters.
- **A free model.** The language model may ask for any tool, for none, or for one that
  does not exist.

What makes it correct: a resolved approval stays resolved; only what a person
approved is executed; one decision starts one execution; a conversation that
waits for something can be resumed; a round always ends; nothing risky passes the
gate without a person, and what a person approved is not refused afterwards; a run
keeps to its budget and answers only after a look; what a person said of a case, a
playbook or in the session is not lost to the program's own later writes; indexes
hold what they were given and searches show what they scored; and the documents'
promises about resuming and about the case index (which section 6 shows broken in
seven cases).

## 2. Modules

| Module | Models |
|---|---|
| `ApprovalContract` | abstract specification: a request is created pending, resolved at most once, and never changes again |
| `ApprovalStore` | `A/approval/store.py` and `pg_store.py` shared by several processes; read and write of a transition are two steps |
| `ApprovalStore_proofs` | its invariants and that it implements `ApprovalContract` |
| `Conversation` | one conversation: session row, interrupts, approvals, checkpoints, and every HTTP call that works on it |
| `Conversation_proofs` | type correctness; implementation of `ApprovalContract`; nothing unapproved is executed; one call per decision; no message gets between a decision and its call; an interrupt and its approval end together; an awaited approval can be answered |
| `PlanContract` | abstract specification: a plan starts once, ends once, and its action goes out at most once, while it runs |
| `ExecutionPlan` | plan and step rows of the executions of one session, the checkpoints around them, `get_execution_recovery` |
| `ExecutionPlan_proofs` | its types, five safety properties and that it implements `PlanContract`, for all constants |
| `ApprovalGate` | coordinator, policy, action registry, snapshots, the gate's two commits, the decision and the binding check before the call |
| `ReactLoop` | one run of the tool loop with a language model that is free: batches, cache, probes, domain expansion, budget, stop reasons |
| `RuleDiagnosis` | the diagnosis without a model: hypotheses, their tools, `A/orchestration/ranker.py`, the action proposed |
| `SessionMemory` | the event queue and working memory of a session, and the memory's copy of the pending interrupt, under concurrent requests |
| `SessionMemory_proofs` | events are lost to overlap only, the accounts of the interrupt agree, and what the memory lists lack of the queued events gave way to better items |
| `CaseMemory` | cases, verdicts, background and full index calls, playbooks |
| `CaseMemory_proofs` | its types and all properties but the two that fail |
| `BadCases` | bad-case candidates, their export to files, their completion by a person, their merge into datasets |
| `BadCases_proofs` | the datasets stay clean |
| `KnowledgeIndex` | building, loading and searching the knowledge base of the RAG service, both backends |
| `CaseRecall` | the case search of the RAG service: three recalls, scores, merge, ranking |
| `Subsequences` | what a loop keeps of a list, and a list of lists made one list, said by positions |
| `Subsequences_proofs` | the lemmas about it that the proofs share: least numbers, and what a selection holds at which place |
| `AgentComponents` | the approval store and the eight components above in one specification |
| `AgentComponents_proofs` | the properties of the loop, the rules, the gate, the knowledge index and the case search |
| `MCConversation`, `MCAgentComponents`, `MCCaseMemory` | instances for TLC |

`ApprovalStore` shows that the approval tables keep the contract although the
status check and the update are apart; `Conversation` uses an approval
transition as one step (which the first result justifies for the status column)
and shows that the runtime above it keeps the contract as well.

### ApprovalStore

`status` and `events` are the two tables; `call[p]` is what process `p` has read
and not yet written. `ReadStatus` is `_transition_request` up to the check
against `ALLOWED_APPROVAL_TRANSITIONS`, `WriteTransition` the guarded update, the
audit insert and the commit. The update's row count is not looked at, so a loser
of a race leaves its event in the trail: `FirstResolutionWins` says what can
still be read from it. `Abort` is a process or statement that dies before the
commit.

### Conversation

| Variable | Code |
|---|---|
| `session` | status, pending_interrupt_id, incident_state and last_checkpoint_id of the row |
| `interrupts`, `approvals` | their tables; an unused row stands for a fresh uuid |
| `snapshot` | `state_snapshot` of the newest checkpoint |
| `calls` | each HTTP call: where it awaits (`pc`), its incident state, the checkpoint read at its start, its result |
| `executions` | history: which action under which approval each call handed out |

The incident state is cut down to what steers the control flow: which message it
is about, `approved_actions`, the feedback interrupt in its metadata, the
primary of the ranking, and whether an approval request is in its metadata.
`pc` values are the awaits: `rag` (retrieval), `guide` (guidance for a
clarification), `loop` (diagnosis graph until the gate has run), `exec`,
`ingest` (approval graph before it reads the state), `commit` (graph result not
yet recorded). Each action is the code between two awaits:

| Action | Code |
|---|---|
| `Start`, `PostMessage`, `PostMessageSuperseding` | `start_conversation`, `post_message`, `_supersede_pending_interrupt_for_new_message`, then `_run_ticket_message` up to its first await |
| `Retrieved`, `AskClarification` | the two ways on from there |
| `DirectAnswer`, `DiagnoseOnly`, `RequestApproval`, `AutoApprove`, `RejectProposal`, `FailRound` | what comes out of router, loop and gate |
| `ExecutionReturned`, `ApprovedExecutionReturned`, `DecidedExecutionReturned` | the execution is back, in the graph, in the resume, in the approval graph |
| `Commit` | recording a run: row, checkpoint, row again |
| `ResumeApproval`, `ResumeClarification`, `AcceptFeedback`, `RejectFeedback` | `resume_conversation` |
| `Decide`, `Ingest`, `ResolveTerminal` | `/approvals/{id}/decision`, `/expire`, `/cancel` |
| `RaiseAfterResolving` | a request whose approval is resolved and whose interrupt then turns out closed |
| `Crash` | the process dies at an await; calls in progress are lost |

`ExecutionPlan` opens up what is one step in `Conversation`: the execution of an
action that was handed out. The two share no variable. `Conversation` says
when an execution starts and what its caller does with the result; `ExecutionPlan`
takes any start as possible and says what the rows hold in between.

### ExecutionPlan

| Variable | Code |
|---|---|
| `plan` | `execution_plan` row: status, steps, current_step_id, recovery |
| `step` | status of the `execution_step` rows; a step is named by its sequence, 10, 20, 30, then 40, 50, ... for skipped proposals |
| `newest` | the session's newest checkpoint: the plan it names, and whether it says failed (`by` is history: whose final checkpoint it is) |
| `task` | the coroutine: the line it is at, who called it, how many proposals are to be skipped, `current_failed_step_id`, the result, `next_sequence` |
| `sent` | history: how often the action went out |
| `loop` | whose coroutine holds the event loop; released at the external call and at the return |
| `nodeCheckpoints` | `nodes.checkpoint_store`, which exists only when the session store has a `db_path` |

The actions follow `execute_approved_action_transition` commit by commit:
`CreatePlan`, three `CreateStep`, `ListSteps`, `CheckpointStarted`; inside the try
block `StartPrecheck`, `ValidateBinding`, `AdvanceToPrimary`, `StartPrimary`,
`CallTool`, `CallReturns`; after it `StoreResult`, `StartFinalize`, `EndFinalize`,
`RecordSkipped`, `EndPlan`, `CheckpointFinished`; the except branch is
`FailStep`, `FailPlan`, `CheckpointFailed`. `Close` is the caller's checkpoint, which
names the plan if an approval endpoint called and does not if a round did.
`WriteRaises` lets the row or its system event raise: inside the try block the
except branch takes over, elsewhere the coroutine is lost. `Crash` loses every
coroutine between two commits. `ExecutionRecovery` is `get_execution_recovery`.

### AgentComponents and its parts

The nine components share no variable. What one hands another (a diagnosis to the
gate, a confirmed case to the case search, a user event to a diagnosis) is among
the inputs the other one starts from, and in `Conversation` an outcome the
conversation may see. So `AgentComponents` does not interleave them: `focus`
picks the component that moves, and the others rest in one initial state. Each can
be checked alone with its own `...Spec` as well, and the theorems are about those.

| Module | State and code | Steps |
|---|---|---|
| `ApprovalGate` | `gateStage`, `request`, `gateInterrupt`, `autoApproved`, `decided`: `approval_gate` and the resume | `EnterGate` (coordinator, policy, first commit), `CreateInterrupt`, `DieInGate`, `DecideRequest`, `ExecuteApproved` (`validate_execution_binding`, then the call) |
| `ReactLoop` | `ledger`, `toolCache`, `callsUsed`, `batch`, `stopReason`: `react_supervisor.py` | the model answers or asks; a batch's calls start in order and finish in any; results are applied together, then the next step is chosen |
| `RuleDiagnosis` | `hypotheses`, `checked`, `ranked`, `proposal` | one tool call, then the ranking; scores are integers that order as the code's floats do |
| `SessionMemory` | `session`: the row; `handler`: the row a request has read | a message, a superseded question, a resume, the read before the graph, the up to four writes of a finished run (a death may follow each), a failed run, a finished approval |
| `CaseMemory` | `incident`, `feedback`, `calls`, `indexed`, `playbook` | the end of a run, a feedback, a review, extraction, review and edit of a playbook, the index call in three parts |
| `BadCases` | `candidate`, `skeleton`, `dataset`, `export`, `merge` | every file and row operation of the two scripts by itself; a person completes a file; a process dies |
| `KnowledgeIndex` | `documents`, `blocks`, `indexFile`, `memory`, `indexer`, `search` | boot, sync document by document, deletion, loading; a search from await to await; failure, death |
| `CaseRecall` | `caseTable`, `recall` | three reads, each of which may fail, with rows replaced between them, and the ranking |

Histories (`verdict`, `confirmed`, `approved`, `written`, `marked`, `executed`,
`toolCalled`, `overlapped`, `dirty`, `lastSync`, `steady`, `patternRead`) record what
a property speaks of and guard nothing.

Operators whose name ends in `_Something` are variants of the definition after
them, each with a plausible mistake, used to test that a property notices it. They
are not part of any specification.

## 3. Runs

| Run | Instance | Shows |
|---|---|---|
| `ConversationFull` | 3 calls, 2 in flight, 2 approvals, 3 interrupts, 1 crash, all endpoints, repeated creation | types; `OnlyApprovedExecuted`; `OneCallPerDecision`; implements `ApprovalContract` |
| `ConversationSerial` | 4 calls one after the other, 2 high-risk actions, all endpoints, repeated creation | `AwaitingIsResumable` |
| `ConversationConcurrent` | 3 calls, 2 in flight, conversation endpoints, fairness | `InterruptFollowsApproval`, `AwaitingIsResumable`, `NoMessageDuringExecution`, `ActiveSettles` |
| `ExecutionPlanSession` | 2 executions, 1 skipped proposal, 1 crash, 1 raising write, with and without the node's checkpoint store, fairness | types; `SentIsOnRecord`, `PrecheckFailureSentNothing`, `EndedPlanMatchesSteps`, `DependenciesFirst`, `AdviceAfterClose`, `EveryPlanEnds`; implements `PlanContract` |
| `AgentComponents` | see below | twenty-three properties of the nine components, `ImplementsContract` among them |
| `CaseMemoryConfirmed`, `CaseMemoryReopened` | `CaseMemory` as in `AgentComponents` | a promise of the documents that the code breaks, each |
| `ExecutionPlanHalfDone` | 1 execution, 1 crash | a promise of the documents that the code breaks |
| `ConversationReopened`, `ConversationDeadFeedback`, `ConversationClarified`, `ConversationRestart` | one call at a time | a promise of the documents that the code breaks, each |

Bounds. Every violation found so far needs at most two rounds, two approvals and
five interrupts of one conversation. Two calls in flight give every pair of
handlers, and three calls let a third one see what two racing calls left. One
crash suffices because a crash only drops calls and no recovery runs at
start-up. `MaxCalls`, `MaxApprovals`, `MaxInterrupts`, `MaxCrashes` and
`MaxEvents` are history bounds with no counterpart in the code; when they are
used up a conversation simply stops, hence `CHECK_DEADLOCK FALSE`. In
`ConversationConcurrent` rounds that run out of interrupt rows could stop in the
middle, so its three interrupts are as many as three calls can create.

In `ExecutionPlanSession` the executions share only the newest checkpoint and the
event loop, so two show every interference; one raising write and one crash put
a failure at every line, and a failure in the except branch or a crash of the
second execution after a failure of the first are among them. One skipped proposal
is the first case in which a plan lists more than the three steps it began with.

The instances in `AgentComponents`, and why they are enough:

| Component | Instance | Properties |
|---|---|---|
| approval store | 2 requests, 2 processes, so that two decisions race; 4 events per request | types (`ApprovalStoreTypeOK`), `FirstResolutionWins`, `ImplementsContract` (the store implements `ApprovalContract`) |
| case memory | 2 sessions of one service type, so that two confirmed cases make a playbook; 2 runs and 2 reviews, so that a verdict lies between two conclusions and a conclusion between two verdicts; 1 edit of a playbook, 1 full sync, 1 death | `VerifiedIffConfirmed`, `AnsweredWasReviewed`, `IndexHoldsVerified`, `RecalledAsApproved`, `RunsKeepFeedback` |
| bad cases | 2 candidates which may be given the same name, 1 exporter, 2 mergers, 3 scripts in all, 1 status set by hand, 1 death | `DatasetsAreClean` |
| session memory | 2 requests at once, 3 turns, queue and lists of 2 (a third event drops one), compaction to 1, 1 failing run, 1 death | `EventsLostOnlyToOverlap`, `CorrectionsRemembered`, `SupplementsYieldToBetter`, `InterruptCopiesAgree` |
| react loop | 2 neighbouring domains, 6 tools, 5 tickets (one with a playbook that names a search and a default tool), requests for up to 2 calls with repetitions and a name that is no tool, 2 iterations, a budget of 3 calls (a probe can pass it) | `BudgetOvershootBounded`, `NoQuestionRunsAgain`, `AnswersRestOnALook` |
| rules | 8 clues that reach every hypothesis, playbooks with a repeated step, two playbooks that end in a dead heat, similar cases | `ConfirmedOutranksUnconfirmed` |
| gate | every one or two proposals of 4 actions, 4 risks, 5 shapes of parameters; 1 death | `NothingRiskyWithoutAHuman`, `ApprovedDestructionRuns`, `InterruptNamesRequest` |
| knowledge | 2 documents, a section added before the one that is found (which shifts every position), both backends and chunk sizes, 1 edit, 1 sync, 1 death, 1 searcher | `HitsAreWhatWasScored`, `SyncedIsWhatWasRead` |
| case recall | up to 5 indexed cases of 3 kinds, 2 hits asked for, 1 row replaced during the search | `BestMatchesShown` |

Every seeded mistake is found within these bounds.
A component may stop for good (an answered ticket, a used-up bound), hence
`CHECK_DEADLOCK FALSE`. No fairness is assumed there.

Fairness. `Conversation!FairSpec` gives weak fairness to what a call in progress
does next, `ExecutionPlan!FairSpec` to the next commit of each execution.
The event loop runs every ready task, and the awaited calls have timeouts
(retrieval, tools, LLM; 10 seconds for `MCPClient`), so an await ends. Nothing is
assumed of clients: no call is ever forced to arrive.

`AwaitingIsResumable` is checked with every endpoint one call at a time, and with
overlapping calls of the conversation endpoints. With a restart it fails
(section 6). It also fails when calls overlap and the `/approvals` endpoints are
used: a request can be expired after the gate created it and before its round
records that it waits for it. `InterruptFollowsApproval` is
checked without the `/approvals` endpoints, which answer foreign interrupts.

## 4. Theorems

All are proved by TLAPS for every value of the constants under the assumptions the
modules name: `MaxEventsAssumption`, `ConversationAssumptions`,
`ExecutionPlanAssumptions`, `CaseMemoryAssumptions`, `BadCasesAssumptions`,
`SessionMemoryAssumptions`, `ReactAssumptions`, `ToolTables`, `RuleAssumptions`,
`GateAssumptions`, `KnowledgeAssumptions`, `CaseRecallAssumptions`. They say: bounds
and limits are naturals; sessions and candidates are finite sets of numbers; the two
risk classes are disjoint and do not contain the words for "no action"; `NoPlan` is no
plan and `NotATool` no tool. Beyond types they ask for: every domain of the tool tables
has a tool that is neither a helper nor a search, the default tools are no searches,
and at least 5 candidate tools are kept (10 in the code), as the tables in
`A/runtime/react_supervisor.py` have it; a ticket that speaks of an OOM speaks of a pod,
because "oom" is among the pod's words; the proposals a gate is given have different
ids (a run makes one, and its id is made of hypothesis and action), because the code
keeps the policy's verdicts by id; a case index has at most 80 rows, so that a read
returns all of it.

- `ApprovalStore_proofs!TypeCorrect`, `AuditTrailIsRight`, `StoreImplementsContract`.
  The trail invariant is inductive together with the types: a transition that
  finds the row resolved appends behind the winner's event, one that finds it
  pending appends the first resolution.
- `Conversation_proofs!TypeCorrect`. `TypeOK` alone is not inductive: an action
  reads `calls[c].st` as an incident state, which it is only while the call is at
  one of the awaits that hold one. `Shape` adds that, and that the session's
  state is one whenever the row exists, and that an interrupt of kind approval
  names an approval.
- `Conversation_proofs!ConversationImplementsContract`. Every action
  changes at most one approval, from absent to pending or from pending to a
  resolution; the proof maps each to a step of the contract or a stutter.
- `Conversation_proofs!NothingUnapprovedExecuted`. The inductive
  invariant `IInv` says every copy of an incident state, in the row, the
  row's checkpoint, the newest snapshot and every call, is *clean*: each
  approved high-risk action in it names an approval that stands approved for
  that action. The property alone is not inductive, since a stale copy may be
  executed much later. Cleanness survives because resolutions are final (the
  contract again) and an approval's action never changes.
- `Conversation_proofs!OneCallActsOnADecision`, for any overlap, crashes and
  endpoints. `DecisionsTaken`: a call acts only on an approval that is resolved. A
  call takes up an approval in the step that resolves it, so the approval was open and
  nobody else acted on it.
- `Conversation_proofs!ExecutionIsUndisturbed`, if a conversation is not
  created again (`~ReuseTicketId`). `AnsweredBefore`: a resume that awaits its execution has
  answered its interrupt before. A row that still points at that interrupt points at a
  closed one, so the endpoints refuse every message and every answer. Creating the
  conversation again replaces the row without asking, hence the assumption.
- `Conversation_proofs!ApprovalAndInterruptAgree`, without the `/approvals`
  endpoints (`~DecisionApi`), as the run has it. `Paired` says it of each pair of an
  interrupt and its approval, and that no two interrupts name one approval.
- `Conversation_proofs!AwaitedApprovalCanBeAnswered`, without the `/approvals`
  endpoints and without a crash (a crash breaks it: section 6). `UncommittedOpen` says
  that what a call has raised and not yet recorded is still open, `AwaitedOpen` that what
  the row awaits is, `CopiesNameFeedback` that a copy of the incident state names no
  interrupt but a feedback. With the endpoints, one call at a time, the property is only
  model-checked: it needs that no two calls overlap, which is a bound of the instance.

- `ExecutionPlan_proofs!TypeCorrect`, `CallsAreRecordedFirst`,
  `PrecheckFailuresAreHarmless`, `EndedPlansMatchTheirSteps`,
  `StepsRespectDependencies`, `AdviceFollowsThePlan`, `PlanKeepsContract`. The invariant `IInv` says, of one plan
  and the line its coroutine is at, which rows are stored by then: the call has
  not gone out before `call`, it has once the coroutine waits or records; a failure
  is blamed on the precheck until it goes out; steps further on still wait. None of the
  properties is inductive without the line. `Frame` and `OthersUnchanged` reduce
  every step to the plan that makes it, `Crash` only moves coroutines to a place
  that demands nothing. The contract needs `sent[p] = 0` at the call. `AdviceInv` adds, for the advice,
  what the newest checkpoint can say of a plan whose coroutine has come to an end.

- `CaseMemory_proofs`: `MemoryTypeCorrect`, `ConfirmationFollowsVerdict`,
  `NoReviewIsLost`, `IndexOnlyConfirmedVersions`, `RecallFollowsApproval`,
  `FeedbackOutlivesRuns`. `ReviewWrites` and `ConclusionWrites` say what each of the two
  writers of a row makes of it, and `ReviewsAreSigned` that a row with a cause, an accuracy
  or a confirmation has a reviewer. `RunsKeepFeedback` claims the review's reviewer, time
  and note of such rows only: those of a rejection with a comment alone do not outlive the
  next run (section 6). The invariant adds that a row that says anything
  exists, that every row that counts now is on record as a confirmed version, and
  that every index call under way carries such a version: the index is only as good as
  what is on its way to it.
- `BadCases_proofs!DatasetsStayClean`. The invariant follows a merge: its name was
  validated, the dataset it has read was clean when it was read, and once it is to mark
  its case the case was written. What others write meanwhile does not matter,
  because the merge uses what it read (`MergeUndisturbed`); `MergedClean` is the lemma
  about replacing or appending a case.
- `SessionMemory_proofs!QueueLosesOnlyToOverlap`, `InterruptAccountsAgree`. The queue is
  ordered by age, so what the limit drops has `QueueLimit` newer events behind it;
  a row that a run has read lacks only what was queued since, and that is
  `overlapped`. `SameButLists` lets all merging and compaction of lists count as
  leaving the rest of the row alone.
- `SessionMemory_proofs!CorrectionsStay`, `SupplementsOnlyYield`. `ListInv` says `KeptList`
  of the two lists of the row and of every row a run has read: no item stands twice, the
  items of events stand in the order of the events, an event that is missing had to give
  way to a full list of better items (`GaveWay`), and of the queued events the list skips
  none but the oldest (`SkipsNone`). Both properties are corollaries: a missing correction
  has `MaxItems` newer ones in the list, all different and all still queued. What makes the
  invariant hold is how often a write merges: the whole queue each time, so events that the
  list had dropped come in again. `AppendKeeps` shows that an item that comes in for the
  first time keeps the invariant. If the list has dropped something, it is full of better
  items, and those of events are the newest of the queue (`NewestAreLeft`). Each older
  event that comes in again drives out the next of them (`Turns`); when the queue is
  through, the same ones stand there in the same order (`GoesRound`). Merging is a
  recursive function, so that its steps can be taken one by one (`MergeSteps`), and the
  induction is on the least step that breaks what is claimed (`LeastNumber`).
  The proof showed that `SupplementsYieldToBetter` needs no exception for deaths and runs
  under way: an earlier statement of it had both.
- `AgentComponents_proofs!QuestionsRunOnce`, `OvershootIsOneProbe`, `AnswersAreFounded`.
  `CacheInv`: a tool that ran and has no cached result is still running in this batch;
  the next batch waits for all of them. `BudgetInv`: a run that goes on has calls left,
  and its batch asks for less than three beyond them. `LookInv`: what finds an anomaly
  is not the knowledge search, and answers rest on a look so far; that the next answer
  does, too, is shown by the initial probe. For any tables that satisfy `ToolTables`,
  ordering, removal of repetitions and the cut to `MaxCandidates` leave it a tool that
  looks (`CandidatesHoldATool`).
- `AgentComponents_proofs!ConfirmationsDecide`. `RulesInv` bounds what three checks can
  add to a score; then arithmetic gives the order. Equal scores do happen (the dead heat
  of two playbooks), and there the order they came in decides, which the property allows.
- `AgentComponents_proofs!RiskyNeedsAHuman`, `ApprovedDestructionIsBound`,
  `InterruptHasARequest`. `GateInv` follows a proposal from the input through policy,
  choice and deduplication into the stored request: what goes on by itself is harmless,
  what is asked for carries the snapshot of itself.
- `AgentComponents_proofs!MemoryIsWhatWasRead`, `HitsMatchTheirScores`. `SyncInv` says of
  each document in the tables, and of the sync under way, that its blocks and chunks are
  those of what was read. `MemoryInv` says the same of the copy in memory, and
  `SearchInv` of a search at each of its awaits: positions, scores and parents belong to
  one copy. A search that saw two copies is `overlapped`, the property's exception.
- `AgentComponents_proofs!BestCasesAreShown`. `RecallInv`: until the pattern recall a hit
  of a case that was not replaced is the case's row; after it the hits hold every full
  match, or as many as the pattern recall may return. A full match has the highest
  pattern score and the highest rank, and of a list cut to n either all such are kept or
  n of them (`FirstOnesAreKept`).

Lists. What a loop keeps of a list is said by positions (`Subsequences`), and sorting
by who comes before whom, so that the lemmas about them need counting and no
induction.

Only model-checked: `ActiveSettles` and `EveryPlanEnds` (liveness is outside the
prover); `AwaitingIsResumable` with the `/approvals` endpoints; and the violations.

## 5. What is not modelled

- In `Conversation` two commits of one handler without an await between them run as
  one step: a crash between, say, creating an approval and its interrupt is not
  shown. `ExecutionPlan` takes each commit by itself.
- Of a step: attempt counter, error, evidence, retry and compensation policy. They
  are stored for the operator; no code acts on them.
- The recovery actions `retry_execution_step` and `finalize_execution` of older
  versions, which no code writes any more.
- One conversation at a time in `Conversation`, `ExecutionPlan` and `SessionMemory`;
  sessions share no row. `CaseMemory` has several, because playbooks join them.
- In `Conversation` the action the loop proposes is a free choice; `ReactLoop`,
  `RuleDiagnosis` and `ApprovalGate` say what it can be, and no refinement between the
  three and `Conversation` is stated. Only one death is modelled in the gate's round,
  without the session row around it.
- The tool middleware's retries and timeout are one answer, and a tool is called with
  one set of arguments. With two sets the cache holds two keys.
- Working memory's facts, focus, hypotheses and summaries, process memory and system
  events: derived text or logs that no control decision reads back.
- Whether a memory is over its budgets is left open, and it is compacted once between
  two resets. After a compaction older corrections come back from the queue behind
  newer ones; `CorrectionsRemembered` and `SupplementsYieldToBetter` except that.
- Weights of the fused score, the reranker's order, and embeddings: free, or left out
  where no property asks. Rows of the case index are taken to be human_verified and
  fewer than a read's limit.
- In SQLite and memory backends the stores are the same statements; the
  Postgres ones are taken. With SQLite alone `_restore_incident_state_for_resume` looks
  for a node checkpoint before it falls back on the session's state, which is what
  `Ingest` reads.
- In the gate the normalized parameters are not part of a snapshot: the two shapes that
  can be normalized give the same ones.
- In `KnowledgeIndex` the term statistics, which a local build replaces before its
  embeddings have come (they are weights), and the window that is cut from a section
  too long to be shown whole.
- Topic shift and router classifiers, slot resolution, domain tools, prompt assembly:
  text matching and read-only calls with a free result. Evaluations and tracing are
  offline. The adaptive weights of the ranker are not constructed by the running
  agent. The CI/CD server keeps no state between calls.

## 6. Disagreements with the documents

Each is a run whose one property TLC violates:

1. `ConversationReopened`: an approval resumed after a rejected feedback executes
   the action approved first, again, and the one approved now never
   (`A/graph/nodes.py:1106`).
2. `ConversationDeadFeedback`: a completed conversation names a cancelled
   interrupt and is stuck (`A/graph/nodes.py:437`).
3. `ConversationClarified`: answering a clarification in a later round goes on with the
   earlier round's state (`A/runtime/orchestrator.py:1336`).
4. `ConversationRestart`: a restart during an approved execution leaves the
   conversation stuck (`A/runtime/orchestrator.py:2822`).
5. `ExecutionPlanHalfDone`: after a restart during the external call the recovery
   advice is still `execute_primary_step`, not manual intervention
   (`A/runtime/orchestrator.py:3044`). Nothing executes by itself:
   `resume_execution_recovery` always raises.
6. `CaseMemoryConfirmed`: a confirmed conversation that runs again keeps its confirmation
   and replaces the conclusion it was about, so a full sync writes a conclusion nobody
   confirmed to the case index (`A/case_vector_indexer.py:66`,
   `A/memory/upsert_merge.py:25`). The background call alone would not: it is made by
   a feedback only.
7. `CaseMemoryReopened`: a feedback that rejects a case with a comment and reopens its
   conversation loses reviewer, time and note to the next run's upsert, and the status
   `rejected` becomes `pending_review`, whatever the feedback said
   (`A/memory/upsert_merge.py:10`, `:29`). The README of the agent (415-420) says that
   `case_status`, `reviewed_at` and `review_note` stay. The cause and the accuracies do
   stay, which is `RunsKeepFeedback`.

## 7. Plan

1. `ApprovalContract`, `ApprovalStore`, `Conversation` with their runs and proofs: done.
2. `PlanContract`, `ExecutionPlan`, their runs and proofs: done.
3. `ApprovalGate`, `ReactLoop`, `RuleDiagnosis`, `SessionMemory`, `CaseMemory`, `BadCases`,
   `KnowledgeIndex`, `CaseRecall` and their composition: done; every safety property is
   proved.
4. Proofs of the properties of `Conversation` and of `AdviceAfterClose`: done.
5. `Conversation` with the gate's two commits apart, so that a death between them is
   seen together with the session row.
6. Proofs of the loop, the rules, the gate, the two indexes, with the folds and filters
   restated by positions: done.
7. Proofs of `CorrectionsRemembered` and `SupplementsYieldToBetter`, with the merging of
   events as a recursive function: done.
