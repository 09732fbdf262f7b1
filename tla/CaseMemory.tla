----------------------------- MODULE CaseMemory -----------------------------
(***************************************************************************)
(* What the agent learns from incidents: the incident_case row of each     *)
(* session, the human verdicts on it, the case index of the RAG service    *)
(* that a background call fills, and the diagnosis playbooks extracted     *)
(* from confirmed cases.                                                   *)
(*                                                                         *)
(* The store calls of one handler run without a suspension, so a handler   *)
(* is one step unless the process dies in it; an index call suspends three *)
(* times and runs beside everything else.  A conclusion is the number of   *)
(* the run that wrote it; texts and scores are left out.  The bad-case     *)
(* candidate a handler may add is in module BadCases.                      *)
(***************************************************************************)
EXTENDS Naturals, FiniteSets

CONSTANTS
  Sessions,        \* numbered in the order of their services' names
  ServiceType,     \* infer_service_type of each session's service
  FailureModes,    \* what infer_failure_mode can find
  NoMode,          \* it found nothing
  MinCases,        \* confirmed cases a playbook is extracted from
  MaxRuns,         \* bound: runs that end
  MaxReviews,      \* bound: verdicts
  MaxEdits,        \* bound: edits of playbooks by hand
  MaxSyncs,        \* bound: uses of the script that syncs every confirmed case
  MaxDeaths        \* bound: process deaths

ASSUME CaseMemoryAssumptions ==
  /\ Sessions \subseteq Nat /\ Sessions # {} /\ IsFiniteSet(Sessions)
  /\ NoMode \notin FailureModes
  /\ MinCases \in Nat \ {0}
  /\ {MaxRuns, MaxReviews, MaxEdits, MaxSyncs, MaxDeaths} \subseteq Nat

VARIABLES
  incident,    \* incident_case, by session
  feedback,    \* status of the session's feedback interrupt
  verdict,     \* history: the last verdict stored on the case
  confirmed,   \* history: the row versions that counted as confirmed, and who saw to it
  calls,       \* case_memory_sync calls under way
  indexed,     \* the RAG service's row, by case
  playbook,    \* diagnosis_playbook, by service type and failure mode
  approved,    \* history: what a human last let into recall, by playbook
  runs, reviews, edits, syncs, deaths

caseVars     == <<incident, feedback, verdict, confirmed>>
playbookVars == <<playbook, approved>>
memoryVars   == <<caseVars, calls, indexed, playbookVars, runs, reviews, edits, syncs, deaths>>

CaseStatuses == {"draft", "pending_review", "verified", "rejected"}
Modes == FailureModes \cup {NoMode}
PlaybookIds == {ServiceType[s] : s \in Sessions} \X FailureModes

\* A row: about is the run it concludes and stamp its version; said is there when
\* the reviewer named a root cause or gave accuracies, reviewed stands for the
\* reviewer, the time and the note.
Cases ==
  [about : 0..MaxRuns, stamp : Nat, mode : Modes,
   status : CaseStatuses \cup {"absent"}, human_verified : BOOLEAN,
   said : BOOLEAN, reviewed : BOOLEAN]

NoCase ==
  [about |-> 0, stamp |-> 0, mode |-> NoMode, status |-> "absent",
   human_verified |-> FALSE, said |-> FALSE, reviewed |-> FALSE]

\* A confirmed row version; human when it was the verdict itself that wrote it.
Confirmation(s, row, human) ==
  [session |-> s, about |-> row.about, stamp |-> row.stamp, human |-> human]

Unindexed == [about |-> 0, stamp |-> 0]

\* "draft" is treated as "pending_review" is, and "retired" as "rejected".
PlaybookStatuses == {"pending_review", "verified", "rejected"}
NoPlaybook == [status |-> "absent", human_verified |-> FALSE, sources |-> {}]

CaseMemoryInit ==
  /\ incident = [s \in Sessions |-> NoCase]
  /\ feedback = [s \in Sessions |-> "none"]
  /\ verdict = [s \in Sessions |-> "none"]
  /\ confirmed = {}
  /\ calls = {}
  /\ indexed = [s \in Sessions |-> Unindexed]
  /\ playbook = [p \in PlaybookIds |-> NoPlaybook]
  /\ approved = [p \in PlaybookIds |-> [recall |-> FALSE, sources |-> {}]]
  /\ runs = 0 /\ reviews = 0 /\ edits = 0 /\ syncs = 0 /\ deaths = 0

-----------------------------------------------------------------------------
(* The incident_case row.                                                  *)

Exists(s) == incident[s].status # "absent"

NormalizedCaseStatus(row) ==
  IF row.human_verified THEN "verified"
  ELSE IF row.status = "verified" THEN "pending_review" ELSE row.status

MergedFeedback_VerdictOnly(old, new) ==
  IF old.status = "absent" THEN new
  ELSE [new EXCEPT !.human_verified = @ \/ old.human_verified, !.said = @ \/ old.said]

MergedFeedback_ReviewOfVerifiedOnly(old, new) ==
  IF old.status # "verified" \/ new.reviewed THEN [new EXCEPT !.said = @ \/ old.said]
  ELSE [new EXCEPT !.human_verified = TRUE, !.status = "verified", !.reviewed = TRUE, !.said = @ \/ old.said]

IsVerified(row) == row.human_verified /\ row.status = "verified"

\* What a new row takes from the row it replaces, one condition each.
MergedFeedback(old, new) ==
  LET isReview == new.status \in {"verified", "rejected"} \/ new.reviewed
      keep == old.human_verified \/ old.said \/ old.status = "verified"
      keepVerified == old.human_verified /\ ~new.human_verified /\ ~new.said /\ ~isReview
      keepStatus == old.status = "verified" /\ new.status \in {"draft", "pending_review"} /\ ~isReview
      keepReview == keepStatus \/ (old.reviewed /\ ~new.reviewed /\ ~isReview)
  IN IF old.status = "absent" \/ ~keep THEN new
     ELSE [new EXCEPT
            !.human_verified = IF keepVerified THEN TRUE ELSE @,
            !.status         = IF keepStatus THEN "verified" ELSE @,
            !.reviewed       = IF keepReview THEN old.reviewed ELSE @,
            !.said           = @ \/ old.said]

\* upsert_case: one row per session, which keeps its case_id.
Upserted(s, new) ==
  LET merged == MergedFeedback(incident[s], new)
  IN [merged EXCEPT !.status = NormalizedCaseStatus(merged), !.stamp = incident[s].stamp + 1]

\* The row a finished run writes.
Conclusion(n, mode) == [NoCase EXCEPT !.about = n, !.mode = mode, !.status = "pending_review"]

\* The row update_feedback hands to upsert_case.
Reviewed(s, ok, said) ==
  [incident[s] EXCEPT
     !.human_verified = ok,
     !.status   = IF ok THEN "verified" ELSE "rejected",
     !.said     = @ \/ said,
     !.reviewed = TRUE]

\* update_feedback does nothing for a session that has no case.
WriteReview(s, ok, said) ==
  IF Exists(s)
  THEN /\ incident' = [incident EXCEPT ![s] = Upserted(s, Reviewed(s, ok, said))]
       /\ verdict' = [verdict EXCEPT ![s] = IF ok THEN "yes" ELSE "no"]
       /\ confirmed' = IF ok THEN confirmed \cup {Confirmation(s, incident'[s], TRUE)} ELSE confirmed
  ELSE UNCHANGED <<incident, verdict, confirmed>>

-----------------------------------------------------------------------------
(* Playbooks.                                                              *)

NormalizedPlaybookStatus(status, ok) ==
  IF status \in {"retired", "rejected"} THEN status
  ELSE IF ok THEN "verified"
  ELSE IF status = "verified" THEN "pending_review" ELSE status

\* The confirmed cases like the one of s, as the rows stand in cases.
RelatedVerified(cases, s) ==
  {t \in Sessions : /\ cases[s].mode # NoMode
                    /\ cases[t].mode = cases[s].mode
                    /\ IsVerified(cases[t])}

\* The playbook is named by the mode and by the type of the first service.
PlaybookOf(group, mode) ==
  <<ServiceType[CHOOSE s \in group : \A t \in group : s <= t], mode>>

Recallable(p) == playbook[p].status = "verified" /\ playbook[p].human_verified

ExtractPlaybook_Always(cases, s, least) ==
  LET group == RelatedVerified(cases, s)
  IN IF IsVerified(cases[s]) /\ Cardinality(group) >= least
     THEN playbook' = [playbook EXCEPT ![PlaybookOf(group, cases[s].mode)] =
                         [status |-> "pending_review", human_verified |-> FALSE, sources |-> group]]
     ELSE UNCHANGED playbook

\* A candidate never replaces a playbook that is in recall.
ExtractPlaybook(cases, s, least) ==
  LET group == RelatedVerified(cases, s)
      p == PlaybookOf(group, cases[s].mode)
  IN IF IsVerified(cases[s]) /\ Cardinality(group) >= least
     THEN playbook' =
            [playbook EXCEPT ![p] =
               IF Recallable(p) THEN @
               ELSE [status |-> "pending_review", human_verified |-> FALSE, sources |-> group]]
     ELSE UNCHANGED playbook

-----------------------------------------------------------------------------
(* Runs and reviews.                                                       *)

\* A run that ends as completed or failed writes its conclusion, and asks for
\* feedback when it has an action to judge.  The interrupt and the session row
\* come first: died says that the process ended before the case was written.
Conclude(s) ==
  \E mode \in Modes, ask \in BOOLEAN, died \in BOOLEAN :
    /\ runs < MaxRuns
    /\ died => deaths < MaxDeaths
    /\ deaths' = IF died THEN deaths + 1 ELSE deaths
    /\ runs' = runs + 1
    /\ feedback' = [feedback EXCEPT ![s] = IF ask THEN "pending" ELSE "none"]
    /\ IF died
       THEN /\ calls' = {c \in calls : c.at # "queued"}
            /\ UNCHANGED <<incident, confirmed>>
       ELSE /\ incident' = [incident EXCEPT ![s] = Upserted(s, Conclusion(runs', mode))]
            /\ confirmed' = confirmed \cup
                 IF IsVerified(incident'[s]) THEN {Confirmation(s, incident'[s], FALSE)} ELSE {}
            /\ UNCHANGED calls
    /\ UNCHANGED <<verdict, indexed, playbookVars, reviews, edits, syncs>>

\* The background call carries the row as it is now.
IndexCall(s, row) ==
  [session |-> s, about |-> row.about, stamp |-> row.stamp, at |-> "queued"]

AnswerFeedback_AnswersFirst(s) ==
  \E ok \in BOOLEAN, said \in BOOLEAN, died \in BOOLEAN :
    /\ feedback[s] = "pending"
    /\ reviews < MaxReviews
    /\ died => deaths < MaxDeaths
    /\ deaths' = IF died THEN deaths + 1 ELSE deaths
    /\ reviews' = reviews + 1
    /\ feedback' = [feedback EXCEPT ![s] = "answered"]
    /\ IF died THEN UNCHANGED <<incident, verdict, confirmed>> ELSE WriteReview(s, ok, said)
    /\ UNCHANGED <<calls, indexed, playbookVars, runs, edits, syncs>>

\* _resume_feedback.  The review is committed before the interrupt is answered; a death
\* between the two leaves the interrupt open, and takes the calls not sent yet with it.
AnswerFeedback(s) ==
  \E ok \in BOOLEAN, said \in BOOLEAN, died \in BOOLEAN :
    /\ feedback[s] = "pending"
    /\ reviews < MaxReviews
    /\ died => deaths < MaxDeaths
    /\ deaths' = IF died THEN deaths + 1 ELSE deaths
    /\ reviews' = reviews + 1
    /\ WriteReview(s, ok, said)
    /\ IF ok /\ Exists(s) /\ ~died
       THEN ExtractPlaybook(incident', s, MinCases)
       ELSE UNCHANGED playbook
    /\ calls' = IF died THEN {c \in calls : c.at # "queued"}
                ELSE IF ok /\ Exists(s) THEN calls \cup {IndexCall(s, incident'[s])}
                ELSE calls
    /\ feedback' = IF died THEN feedback ELSE [feedback EXCEPT ![s] = "answered"]
    /\ UNCHANGED <<indexed, approved, runs, edits, syncs>>

\* POST /cases/{id}/review: extracts a playbook, and indexes nothing.
ReviewCase(s) ==
  \E ok \in BOOLEAN, said \in BOOLEAN :
    /\ Exists(s)
    /\ reviews < MaxReviews
    /\ reviews' = reviews + 1
    /\ WriteReview(s, ok, said)
    /\ IF ok THEN ExtractPlaybook(incident', s, MinCases) ELSE UNCHANGED playbook
    /\ UNCHANGED <<feedback, calls, indexed, approved, runs, edits, syncs, deaths>>

\* POST /cases/{id}/extract-playbook, by default or from a single case.
RequestPlaybook(s) ==
  \E least \in {1, MinCases} :
    /\ Exists(s)
    /\ ExtractPlaybook(incident, s, least)
    /\ UNCHANGED <<caseVars, calls, indexed, approved, runs, reviews, edits, syncs, deaths>>

\* What a human lets into recall is what the playbook says then.
Approved(p, ok, status, sources) ==
  approved' = [approved EXCEPT ![p] =
                 [recall |-> ok /\ status \notin {"retired", "rejected"}, sources |-> sources]]

\* POST /playbooks/{id}/review; status overrides the verdict's.
ReviewPlaybook(p) ==
  \E ok \in BOOLEAN, status \in PlaybookStatuses :
    /\ playbook[p].status # "absent"
    /\ edits < MaxEdits
    /\ edits' = edits + 1
    /\ playbook' = [playbook EXCEPT ![p].human_verified = ok,
                                    ![p].status = NormalizedPlaybookStatus(status, ok)]
    /\ Approved(p, ok, status, playbook[p].sources)
    /\ UNCHANGED <<caseVars, calls, indexed, runs, reviews, syncs, deaths>>

\* POST /playbooks: a playbook written by hand, here without source cases.
UpsertPlaybook(p) ==
  \E ok \in BOOLEAN, status \in PlaybookStatuses :
    /\ edits < MaxEdits
    /\ edits' = edits + 1
    /\ playbook' = [playbook EXCEPT ![p] =
                      [status |-> NormalizedPlaybookStatus(status, ok),
                       human_verified |-> ok, sources |-> {}]]
    /\ Approved(p, ok, status, {})
    /\ UNCHANGED <<caseVars, calls, indexed, runs, reviews, syncs, deaths>>

-----------------------------------------------------------------------------
(* The index call: the agent's task sends it, and the RAG service reads    *)
(* what it has, embeds the text and writes the row.                        *)

\* The agent checks the row it was given once more before it sends the call.
SendCall(c) ==
  /\ c.at = "queued"
  /\ calls' = (calls \ {c}) \cup {[c EXCEPT !.at = "reading"]}
  /\ UNCHANGED <<caseVars, indexed, playbookVars, runs, reviews, edits, syncs, deaths>>

\* sync_all_cases, in a process of its own: one request with every confirmed case,
\* which the service works through one by one; only calls that the agent itself has
\* queued die with it.
SyncAll ==
  /\ syncs < MaxSyncs
  /\ syncs' = syncs + 1
  /\ calls' = calls \cup {[IndexCall(s, incident[s]) EXCEPT !.at = "reading"] :
                          s \in {t \in Sessions : IsVerified(incident[t])}}
  /\ UNCHANGED <<caseVars, indexed, playbookVars, runs, reviews, edits, deaths>>

\* A row with the same version is left alone; a read that fails counts as no row.
SyncRead(c) ==
  \E failed \in BOOLEAN :
    /\ c.at = "reading"
    /\ calls' = IF ~failed /\ indexed[c.session].stamp = c.stamp
                THEN calls \ {c}
                ELSE (calls \ {c}) \cup {[c EXCEPT !.at = "writing"]}
    /\ UNCHANGED <<caseVars, indexed, playbookVars, runs, reviews, edits, syncs, deaths>>

SyncWrite_ReadsTheRow(c) ==
  /\ c.at = "writing"
  /\ indexed' = [indexed EXCEPT ![c.session] = [about |-> incident[c.session].about, stamp |-> c.stamp]]
  /\ calls' = calls \ {c}
  /\ UNCHANGED <<caseVars, playbookVars, runs, reviews, edits, syncs, deaths>>

SyncWrite(c) ==
  /\ c.at = "writing"
  /\ indexed' = [indexed EXCEPT ![c.session] = [about |-> c.about, stamp |-> c.stamp]]
  /\ calls' = calls \ {c}
  /\ UNCHANGED <<caseVars, playbookVars, runs, reviews, edits, syncs, deaths>>

\* A call that cannot be sent, or whose text cannot be embedded, is only logged.
CallFails(c) ==
  /\ c.at \in {"queued", "writing"}
  /\ calls' = calls \ {c}
  /\ UNCHANGED <<caseVars, indexed, playbookVars, runs, reviews, edits, syncs, deaths>>

CaseMemoryNext ==
  \/ \E s \in Sessions :
       Conclude(s) \/ AnswerFeedback(s) \/ ReviewCase(s) \/ RequestPlaybook(s)
  \/ \E p \in PlaybookIds : ReviewPlaybook(p) \/ UpsertPlaybook(p)
  \/ SyncAll
  \/ \E c \in calls : SendCall(c) \/ SyncRead(c) \/ SyncWrite(c) \/ CallFails(c)

CaseMemorySpec == CaseMemoryInit /\ [][CaseMemoryNext]_memoryVars

-----------------------------------------------------------------------------
(* Properties.                                                             *)

\* The rows hold what their columns allow.
CaseMemoryTypeOK ==
  /\ incident \in [Sessions -> Cases]
  /\ feedback \in [Sessions -> {"none", "pending", "answered"}]
  /\ verdict \in [Sessions -> {"none", "yes", "no"}]
  /\ confirmed \subseteq [session : Sessions, about : 0..MaxRuns, stamp : Nat, human : BOOLEAN]
  /\ calls \subseteq [session : Sessions, about : 0..MaxRuns, stamp : Nat,
                      at : {"queued", "reading", "writing"}]
  /\ indexed \in [Sessions -> [about : 0..MaxRuns, stamp : Nat]]
  /\ playbook \in [PlaybookIds -> [status : PlaybookStatuses \cup {"absent"},
                                   human_verified : BOOLEAN, sources : SUBSET Sessions]]
  /\ approved \in [PlaybookIds -> [recall : BOOLEAN, sources : SUBSET Sessions]]
  /\ runs \in 0..MaxRuns /\ reviews \in 0..MaxReviews /\ edits \in 0..MaxEdits
  /\ syncs \in 0..MaxSyncs /\ deaths \in 0..MaxDeaths

\* A case counts as confirmed exactly while a human's last word on it is yes:
\* no later run of the session takes the confirmation away or gives it back,
\* whatever was reviewed before (merge_incident_case_feedback).
VerifiedIffConfirmed ==
  \A s \in Sessions :
    /\ incident[s].status = "verified" <=> verdict[s] = "yes"
    /\ incident[s].human_verified <=> verdict[s] = "yes"

\* A feedback interrupt is only answered when the case, if there is one, holds
\* a verdict: a death inside _resume_feedback loses no review.
AnsweredWasReviewed ==
  \A s \in Sessions :
    feedback[s] = "answered" /\ Exists(s) => verdict[s] # "none"

\* The case index never mixes two versions of a row, and holds none that did not
\* count as confirmed, although runs and reviews replace rows under its calls.
IndexHoldsVerified ==
  \A s \in Sessions : indexed[s] # Unindexed =>
    \E v \in confirmed : v.session = s /\ v.about = indexed[s].about /\ v.stamp = indexed[s].stamp

\* No conclusion enters the index that a human has not confirmed: README of the
\* agent, "a summary without human confirmation is never written to the index".
IndexHoldsConfirmed ==
  \A s \in Sessions : indexed[s] # Unindexed =>
    \E v \in confirmed : v.session = s /\ v.about = indexed[s].about /\ v.human

\* A playbook is recalled exactly while a human's last word on it lets it in,
\* and with the sources the human saw: no extraction changes or withdraws it.
RecalledAsApproved ==
  \A p \in PlaybookIds :
    /\ Recallable(p) <=> approved[p].recall
    /\ Recallable(p) => playbook[p].sources = approved[p].sources

\* The reviewer, the time and the note of a review, and the cause and accuracies named in
\* it, outlive every finished run as long as the case counts as confirmed or some review
\* named a cause or an accuracy: merge_incident_case_feedback keeps no others.
RunsKeepFeedback ==
  [][\A s \in Sessions :
       runs' # runs /\ (incident[s].said \/ verdict[s] = "yes")
         => incident'[s].said = incident[s].said /\ incident'[s].reviewed]_memoryVars

\* What the documents promise of a case reopened by a rejected feedback (README of the
\* agent, "feedback_reopen"): the next diagnosis leaves its review and its status.
RejectionOutlivesRuns ==
  [][\A s \in Sessions :
       runs' # runs /\ feedback[s] = "answered" /\ verdict[s] = "no"
         => /\ incident'[s].reviewed = incident[s].reviewed
            /\ incident'[s].status = incident[s].status]_memoryVars

=============================================================================
