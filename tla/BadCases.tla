------------------------------ MODULE BadCases ------------------------------
(***************************************************************************)
(* How bad answers become regression cases: a finished run or a negative   *)
(* feedback leaves a candidate, an export writes its skeleton to a file, a *)
(* person completes the file, and a merge puts the case into a dataset.    *)
(*                                                                         *)
(* Exports and merges run in the server or as scripts beside it, over the  *)
(* same rows and files, so each file operation is a step of its own and a  *)
(* process may die between two of them.  The contents of a skeleton are    *)
(* left out, but for its case_id and whether a placeholder is left in it.  *)
(***************************************************************************)
EXTENDS Naturals, Sequences, FiniteSets, SequencesExt

CONSTANTS
  Candidates,    \* candidate ids, numbered as they are made
  CaseNames,     \* names a person can give a case
  Exporters, Mergers,   \* processes
  MaxScripts, MaxStatusCalls, MaxScriptDeaths   \* bounds

ASSUME BadCasesAssumptions ==
  /\ Candidates \subseteq Nat /\ IsFiniteSet(Candidates)
  /\ {MaxScripts, MaxStatusCalls, MaxScriptDeaths} \subseteq Nat

VARIABLES
  candidate,    \* bad_case_candidate rows
  skeleton,     \* the file of a candidate in the export directory
  dataset,      \* the cases of each dataset file
  export, merge,  \* what each process is doing
  written,      \* history: candidates a merge wrote into a dataset
  marked,       \* history: candidates whose status was set by hand
  scripts, statusCalls, scriptDeaths

budgets == <<scripts, statusCalls, scriptDeaths>>

badCaseVars ==
  <<candidate, skeleton, dataset, export, merge, written, marked, budgets>>

-----------------------------------------------------------------------------
(* When a candidate is made, and how it is rated.                          *)

\* What a run did, as far as the reason codes ask.
Outcomes ==
  [limit    : {"none", "tool_budget_reached", "rejected_tool_call_detected"},
   expanded : {"no", "no_gain", "aligned", "misaligned"},
   prefetch : {"no record", "skipped", "error", "completed"},
   tool     : {"none", "error", "empty", "hit"}]

\* classify_case_memory_recall: an error outweighs a hit, a hit an empty answer.
RecallState(o) ==
  CASE o.prefetch = "error" \/ o.tool = "error" -> "failed"
    [] o.tool = "hit" -> "hit"
    [] o.prefetch = "completed" \/ o.tool = "empty" -> "empty"
    [] OTHER -> "skipped"

\* A run that ended before any recall has no record of one.  What is appended to a code
\* to give the reason of a failed or a skipped recall is left out.
RecallCodes(o) ==
  CASE o.prefetch = "no record" /\ o.tool = "none" -> {}
    [] RecallState(o) = "failed"  -> {"case_memory_failed"}
    [] RecallState(o) = "empty"   -> {"case_memory_empty"}
    [] RecallState(o) = "skipped" -> {"case_memory_skipped"}
    [] OTHER -> {}

Sources == {"runtime_completion", "feedback_negative", "feedback_reopen"}

\* An empty or skipped recall explains a bad answer and is none itself; a failed one is.
ReasonCodes(source, o) ==
  LET own ==
        ({o.limit} \ {"none"})
          \cup (IF o.expanded = "no_gain" THEN {"retrieval_expansion_no_gain"} ELSE {})
          \cup (IF o.expanded = "misaligned" THEN {"retrieval_misaligned"} ELSE {})
          \cup (IF source # "runtime_completion" THEN {"human_feedback_negative"} ELSE {})
          \cup (IF source = "feedback_reopen" THEN {"feedback_reopen"} ELSE {})
  IN IF own # {} \/ "case_memory_failed" \in RecallCodes(o) THEN own \cup RecallCodes(o) ELSE {}

Targets == {"rag", "session_flow", "tool_mock"}

\* classify_bad_case_candidate; turns says that the user wrote more than once or
\* that the conversation was resumed.
Target(source, o, codes, turns) ==
  IF o.expanded # "no" \/ codes \cap RecallCodes(o) # {} THEN "rag"
  ELSE IF source # "runtime_completion" \/ turns THEN "session_flow" ELSE "tool_mock"

NoCandidate == [status |-> "absent", target |-> "tool_mock"]

ExportStatuses == {"pending", "exported", "merged", "ignored"}

\* The rows that runs and feedbacks can leave; without a reason code they leave none.
CreatableRows ==
  [status : {"pending"},
   target : {t \in Targets :
               \E source \in Sources, o \in Outcomes, turns \in BOOLEAN :
                 LET codes == ReasonCodes(source, o)
                 IN codes # {} /\ t = Target(source, o, codes, turns)}]

CreateCandidate(c) ==
  /\ candidate[c].status = "absent"
  /\ \A older \in Candidates : older < c => candidate[older].status # "absent"
  /\ \E row \in CreatableRows : candidate' = [candidate EXCEPT ![c] = row]
  /\ UNCHANGED <<skeleton, dataset, export, merge, written, marked, budgets>>

\* POST /bad-case-candidates/{id}/export-status takes any status.
SetExportStatus(c) ==
  \E status \in ExportStatuses :
    /\ candidate[c].status # "absent"
    /\ statusCalls < MaxStatusCalls
    /\ statusCalls' = statusCalls + 1
    /\ candidate' = [candidate EXCEPT ![c].status = status]
    /\ marked' = marked \cup {c}
    /\ UNCHANGED <<skeleton, dataset, export, merge, written, scripts, scriptDeaths>>

-----------------------------------------------------------------------------
(* Export.  What a file holds: nothing yet, the skeleton with its          *)
(* placeholders, or the case a person made of it.                          *)

SkeletonStates == {"none", "placeholder"} \cup CaseNames
Resting == [at |-> "idle", todo |-> <<>>, mark |-> FALSE]

\* The rows are selected once, the newest first: those that are pending, or the one
\* asked for by id whatever its status.
StartExport(x) ==
  \E mark \in BOOLEAN, asked \in {{}} \cup {{c} : c \in Candidates} :
    LET chosen == {c \in Candidates :
                     IF asked = {} THEN candidate[c].status = "pending"
                     ELSE c \in asked /\ candidate[c].status # "absent"}
    IN /\ export[x].at = "idle"
       /\ scripts < MaxScripts
       /\ scripts' = scripts + 1
       /\ chosen # {}
       /\ export' = [export EXCEPT ![x] =
                       [at |-> "write", todo |-> SetToSortSeq(chosen, >), mark |-> mark]]
       /\ UNCHANGED <<candidate, skeleton, dataset, merge, written, marked,
                      statusCalls, scriptDeaths>>

AfterExport(x) ==
  LET rest == Tail(export[x].todo) IN
  IF rest = <<>> THEN Resting ELSE [export[x] EXCEPT !.at = "write", !.todo = rest]

WriteSkeleton(x) ==
  /\ export[x].at = "write"
  /\ skeleton' = [skeleton EXCEPT ![Head(export[x].todo)] = "placeholder"]
  /\ export' = [export EXCEPT ![x] = IF @.mark THEN [@ EXCEPT !.at = "mark"] ELSE AfterExport(x)]
  /\ UNCHANGED <<candidate, dataset, merge, written, marked, budgets>>

MarkExported(x) ==
  /\ export[x].at = "mark"
  /\ candidate' = [candidate EXCEPT ![Head(export[x].todo)].status = "exported"]
  /\ export' = [export EXCEPT ![x] = AfterExport(x)]
  /\ UNCHANGED <<skeleton, dataset, merge, written, marked, budgets>>

ExporterDies(x) ==
  /\ export[x].at # "idle"
  /\ scriptDeaths < MaxScriptDeaths
  /\ scriptDeaths' = scriptDeaths + 1
  /\ export' = [export EXCEPT ![x] = Resting]
  /\ UNCHANGED <<candidate, skeleton, dataset, merge, written, marked, scripts, statusCalls>>

\* A person completes the file, and may give two candidates the same name.
Curate(c) ==
  \E name \in CaseNames :
    /\ skeleton[c] = "placeholder"
    /\ skeleton' = [skeleton EXCEPT ![c] = name]
    /\ UNCHANGED <<candidate, dataset, export, merge, written, marked, budgets>>

-----------------------------------------------------------------------------
(* Merge.                                                                  *)

NoMerge == [at |-> "idle", todo |-> <<>>, name |-> "none", read |-> <<>>]

\* All the files, in the order they are given.
StartMerge(g) ==
  LET files == {c \in Candidates : skeleton[c] # "none"} IN
  \E order \in SetToSeqs(files) :
    /\ merge[g].at = "idle"
    /\ scripts < MaxScripts
    /\ scripts' = scripts + 1
    /\ order # <<>>
    /\ merge' = [merge EXCEPT ![g].at = "file", ![g].todo = order]
    /\ UNCHANGED <<candidate, skeleton, dataset, export, written, marked,
                   statusCalls, scriptDeaths>>

ReadSkeleton_Unvalidated(g) ==
  LET file == skeleton[Head(merge[g].todo)] IN
  /\ merge[g].at = "file"
  /\ merge' = [merge EXCEPT ![g].at = "dataset", ![g].name = file]
  /\ UNCHANGED <<candidate, skeleton, dataset, export, written, marked, budgets>>

\* The file is read once and validated as it was read.  A placeholder raises, and
\* the files after this one are not merged.
ReadSkeleton(g) ==
  LET file == skeleton[Head(merge[g].todo)] IN
  /\ merge[g].at = "file"
  /\ merge' = [merge EXCEPT ![g] =
       IF file = "placeholder" THEN NoMerge ELSE [@ EXCEPT !.at = "dataset", !.name = file]]
  /\ UNCHANGED <<candidate, skeleton, dataset, export, written, marked, budgets>>

ReadDataset(g) ==
  /\ merge[g].at = "dataset"
  /\ merge' = [merge EXCEPT ![g].at = "write",
                            ![g].read = dataset[candidate[Head(merge[g].todo)].target]]
  /\ UNCHANGED <<candidate, skeleton, dataset, export, written, marked, budgets>>

\* The case replaces the first one of its name, or is appended.
Merged(cases, name, c) ==
  LET same == {i \in DOMAIN cases : cases[i].name = name}
      new == [name |-> name, from |-> c]
  IN IF same = {} THEN Append(cases, new)
     ELSE [cases EXCEPT ![CHOOSE i \in same : \A j \in same : i <= j] = new]

WriteDataset(g) ==
  LET c == Head(merge[g].todo) IN
  /\ merge[g].at = "write"
  /\ dataset' = [dataset EXCEPT ![candidate[c].target] = Merged(merge[g].read, merge[g].name, c)]
  /\ written' = written \cup {c}
  /\ merge' = [merge EXCEPT ![g].at = "mark"]
  /\ UNCHANGED <<candidate, skeleton, export, marked, budgets>>

MarkMerged(g) ==
  LET rest == Tail(merge[g].todo) IN
  /\ merge[g].at = "mark"
  /\ candidate' = [candidate EXCEPT ![Head(merge[g].todo)].status = "merged"]
  /\ merge' = [merge EXCEPT ![g] =
       IF rest = <<>> THEN NoMerge
       ELSE [@ EXCEPT !.at = "file", !.todo = rest, !.name = "none", !.read = <<>>]]
  /\ UNCHANGED <<skeleton, dataset, export, written, marked, budgets>>

MergerDies(g) ==
  /\ merge[g].at # "idle"
  /\ scriptDeaths < MaxScriptDeaths
  /\ scriptDeaths' = scriptDeaths + 1
  /\ merge' = [merge EXCEPT ![g] = NoMerge]
  /\ UNCHANGED <<candidate, skeleton, dataset, export, written, marked, scripts, statusCalls>>

BadCasesInit ==
  /\ candidate = [c \in Candidates |-> NoCandidate]
  /\ skeleton = [c \in Candidates |-> "none"]
  /\ dataset = [t \in Targets |-> <<>>]
  /\ export = [x \in Exporters |-> Resting]
  /\ merge = [g \in Mergers |-> NoMerge]
  /\ written = {} /\ marked = {}
  /\ scripts = 0 /\ statusCalls = 0 /\ scriptDeaths = 0

BadCasesNext ==
  \/ \E c \in Candidates : CreateCandidate(c) \/ SetExportStatus(c) \/ Curate(c)
  \/ \E x \in Exporters : StartExport(x) \/ WriteSkeleton(x) \/ MarkExported(x) \/ ExporterDies(x)
  \/ \E g \in Mergers :
       StartMerge(g) \/ ReadSkeleton(g) \/ ReadDataset(g) \/ WriteDataset(g) \/ MarkMerged(g) \/ MergerDies(g)

BadCasesSpec == BadCasesInit /\ [][BadCasesNext]_badCaseVars

-----------------------------------------------------------------------------
(* Properties.                                                             *)

MergedWasWritten ==
  \A c \in Candidates :
    candidate[c].status = "merged" => c \in written \/ c \in marked

NamedOnce(cases) == \A i, j \in DOMAIN cases : cases[i].name = cases[j].name => i = j

Completed(cases) == \A i \in DOMAIN cases : cases[i].name \in CaseNames

\* A dataset names each of its cases once and holds no uncompleted skeleton, also
\* when an export replaces a completed file under a merge and when two merges write
\* the same dataset; and nobody but a person reports a candidate as merged before
\* its case was written, although exports and other merges change the row meanwhile
\* and a merge may die between its two writes.
DatasetsAreClean ==
  MergedWasWritten /\ \A t \in Targets : NamedOnce(dataset[t]) /\ Completed(dataset[t])
=============================================================================
