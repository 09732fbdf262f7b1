------------------------------ MODULE ReactLoop ------------------------------
(***************************************************************************)
(* One run of the tool-first diagnosis (runtime/react_supervisor.py): the  *)
(* model is asked what to look at, the calls of a batch run concurrently   *)
(* and share a cache, and the run ends with an answer, on its tool budget  *)
(* or on its iteration limit.                                              *)
(*                                                                         *)
(* The language model is free: it may ask for any tools, candidates or     *)
(* not, the same one twice, or answer with any confidence.  A tool is      *)
(* called with one set of arguments, so its name is the cache key.  A      *)
(* result is what the loop reads of it: how many evidence texts it gives,  *)
(* whether it is anomalous, and how many hits or cases it adds.            *)
(***************************************************************************)
EXTENDS Naturals, Sequences, FiniteSets, SequencesExt, Subsequences

CONSTANTS
  Tools,             \* registered tools
  NotATool,          \* a name the model may ask for that no tool has
  KnowledgeSearch, CaseSearch,  \* search_knowledge_base and search_similar_incidents
  Helpers,           \* check_service_health, check_recent_alerts
  Defaults,          \* candidates when no domain is known
  ToolGroup,         \* DOMAIN_TOOL_GROUPS: the tools of each domain
  ExpansionPriority,          \* DOMAIN_EXPANSION_PRIORITIES
  Adjacency,         \* DOMAIN_ADJACENCY
  EmptyTexts,        \* evidence texts derived from an empty payload, by tool
  Tickets,           \* what a run starts from: see Ticket
  MaxIterations, MaxToolCalls, MaxParallelBranches,
  MaxCandidates,     \* 10 in the code
  MaxAsked           \* bound: calls the model asks for at once

Domains == DOMAIN ToolGroup

\* explicit: the domains named by words of the message; matched: those of the
\* context; playbook: the tools of the recalled playbooks' steps; hits, cases: what
\* the recall before the run found; queries: the targets of planned subqueries; service:
\* whether the request names one.
Ticket ==
  [explicit : Seq(Domains), matched : Seq(Domains), playbook : Seq(Tools),
   hits : Nat, cases : Nat, queries : SUBSET {"knowledge", "cases"}, service : BOOLEAN]

Searches == {KnowledgeSearch, CaseSearch}

ASSUME ReactAssumptions ==
  /\ Searches \cup Helpers \subseteq Tools
  /\ NotATool \notin Tools
  /\ {MaxIterations, MaxToolCalls, MaxParallelBranches} \subseteq Nat \ {0}
  /\ MaxCandidates \in Nat /\ MaxCandidates >= 5
  /\ MaxAsked \in Nat
  /\ EmptyTexts \in [Tools -> Nat]
  /\ Tickets \subseteq Ticket

\* Every domain has a tool of its own, and the defaults are no searches.
ASSUME ToolTables ==
  /\ {ToolGroup, ExpansionPriority} \subseteq [Domains -> Seq(Tools)]
  /\ Adjacency \in [Domains -> Seq(Domains)]
  /\ \A d \in Domains : \E i \in DOMAIN ToolGroup[d] : ToolGroup[d][i] \notin Helpers \cup Searches
  /\ Defaults \in Seq(Tools \ Searches) /\ Defaults # <<>>

VARIABLES
  ticket,
  iteration,   \* 0 before the first
  ledger,      \* observation_ledger: the observations in the order applied
  toolCache,   \* result by tool
  callsUsed,   \* tool_calls_used
  found,       \* hits and cases of the context snapshot
  batch,       \* the calls being gathered
  origin,      \* who asked for the batch
  stopReason,  \* "" while the run goes on
  rejected,    \* rejected_tool_call_count > 0
  executed     \* history: the iterations in which a tool really ran, by tool

reactVars == <<ticket, iteration, ledger, toolCache, callsUsed, found, batch, origin,
               stopReason, rejected, executed>>

NoResult == [kind |-> "none", texts |-> 0, found |-> 0]

\* What a tool can answer.  A call that failed or timed out, retries included, is
\* an answer too, and some tools' texts are derived even from its empty payload.
ResultsOf(t) ==
  {[kind |-> "failed", texts |-> EmptyTexts[t], found |-> 0]} \cup
  CASE t = KnowledgeSearch -> {[kind |-> "normal", texts |-> n, found |-> n] : n \in 0..2}
    [] t = CaseSearch     -> {[kind |-> "normal", texts |-> 0, found |-> n] : n \in 0..1}
    [] OTHER         -> {[kind |-> "normal", texts |-> 1, found |-> 0],
                         [kind |-> "anomalous", texts |-> 2, found |-> 0]}

FirstOf(s, n) == Selected(s, {i \in DOMAIN s : i <= n})
Distinct(s) == Selected(s, {i \in DOMAIN s : \A j \in 1..(i - 1) : s[j] # s[i]})
Only(s, S) == Selected(s, {i \in DOMAIN s : s[i] \in S})
Without(s, S) == Selected(s, {i \in DOMAIN s : s[i] \notin S})

-----------------------------------------------------------------------------
(* What the ledger says.                                                   *)

Observed(led) == {led[i].tool : i \in DOMAIN led}

Evidence(led) ==
  UNION {{<<led[i].tool, led[i].result.kind, n>> : n \in 1..led[i].result.texts} : i \in DOMAIN led}

Anomalies(led) == {i \in DOMAIN led : led[i].result.kind = "anomalous"}

\* _evaluate_evidence
EnoughForOutput(led) == Cardinality(Evidence(led)) >= 3

LiveObservationCount_All(led) == Len(led)

\* Anything but the knowledge search counts as live, the search for cases too.
LiveObservationCount(led) == Cardinality({i \in DOMAIN led : led[i].tool # KnowledgeSearch})

ToolDomains(t) == {d \in Domains : t \in ToSet(ToolGroup[d])}

\* Sum over the primary domains of _domain_anomaly_counts.
PrimaryAnomalies(primary, led) ==
  Cardinality({x \in Anomalies(led) \X ToSet(primary) : x[2] \in ToolDomains(led[x[1]].tool)})

ShouldExpand(primary, led) ==
  /\ LiveObservationCount(led) >= 2
  /\ ~(KnowledgeSearch \in Observed(led) /\ PrimaryAnomalies(primary, led) >= 1)
  /\ PrimaryAnomalies(primary, led) < 2

\* _should_stop_after_observations
ShouldStop(led, candidates) ==
  LET half == Len(candidates) \div 2
      atLeast == IF half >= 3 THEN 3 ELSE IF half <= 2 THEN 2 ELSE half
  IN Len(led) >= atLeast /\ EnoughForOutput(led) /\ Cardinality(Anomalies(led)) >= 2

-----------------------------------------------------------------------------
(* Which domains and which tools the model may look at.                    *)

PrimaryDomains(t) ==
  FirstOf(Distinct(IF t.explicit # <<>> THEN t.explicit ELSE t.matched), 2)

\* _resolve_candidate_domains: neighbours of the primary domains, then the matched
\* domains the message does not name (none are left when it names no domain).
ExpandedDomains(t, led) ==
  LET primary == PrimaryDomains(t)
      prioritized == ToSet(IF t.explicit # <<>> THEN t.explicit ELSE t.matched)
      matchedOnly == Without(t.matched, prioritized)
      adjacent == Without(Flattened([i \in DOMAIN primary |-> Adjacency[primary[i]]]), ToSet(primary))
  IN IF primary = <<>> \/ ~ShouldExpand(primary, led) THEN <<>>
     ELSE FirstOf(Distinct(adjacent \o matchedOnly), 2)

PlaybookTools(t, led) == FirstOf(Distinct(Without(t.playbook, Observed(led))), 4)

IncludeKnowledge(t, led, have) ==
  \/ "knowledge" \in t.queries
  \/ led = <<>> /\ have.hits <= 1
  \/ led # <<>> /\ have.hits <= 2 /\ ~EnoughForOutput(led)

IncludeCases(t, led, have) ==
  /\ t.service
  /\ \/ "cases" \in t.queries
     \/ led # <<>> /\ have.cases <= 1 /\ ~EnoughForOutput(led)

\* _select_candidate_tool_names: helpers join once something was seen and as long as no
\* domain is expanded; a tool seen before stays a candidate, if there is room.  The
\* searches and the defaults are appended without a look at what is there.
CandidateTools(t, led, have) ==
  LET primary == PrimaryDomains(t)
      expanded == ExpandedDomains(t, led)
      helpers(d) == IF led = <<>> \/ expanded # <<>> THEN <<>> ELSE Only(ToolGroup[d], Helpers)
      ofPrimary == Flattened([i \in DOMAIN primary |->
                     Without(ToolGroup[primary[i]], Helpers) \o helpers(primary[i])])
      ofExpanded == Flattened([i \in DOMAIN expanded |-> ExpansionPriority[expanded[i]]])
      named == PlaybookTools(t, led)
      searches == (IF IncludeKnowledge(t, led, have) THEN <<KnowledgeSearch>> ELSE <<>>)
                  \o (IF IncludeCases(t, led, have) THEN <<CaseSearch>> ELSE <<>>)
      ofDomains == IF primary # <<>> THEN ofPrimary \o ofExpanded ELSE Defaults
      anyway == (Len(named) + 1)..(Len(named) + Len(searches) + IF primary = <<>> THEN Len(Defaults) ELSE 0)
      all == named \o searches \o ofDomains \o [i \in DOMAIN led |-> led[i].tool]
  IN FirstOf(Selected(all, {i \in DOMAIN all : i \in anyway \/ \A j \in 1..(i - 1) : all[j] # all[i]}),
             MaxCandidates)

CandidatesNow == CandidateTools(ticket, ledger, found)

\* _expansion_probe_tool_names: two unseen tools of the first domain that has any,
\* more domains being read only while there is none.
ExpansionProbe(t, led) ==
  LET expanded == ExpandedDomains(t, led)
      unseen == [i \in DOMAIN expanded |-> Without(ExpansionPriority[expanded[i]], Observed(led))]
      first == {i \in DOMAIN unseen : unseen[i] # <<>> /\ \A j \in 1..(i - 1) : unseen[j] = <<>>}
  IN IF first = {} THEN <<>> ELSE FirstOf(Distinct(unseen[CHOOSE i \in first : TRUE]), 2)

ShouldProbeExpansion(t, led) ==
  /\ LiveObservationCount(led) >= 2
  /\ ~(EnoughForOutput(led) /\ Cardinality(Anomalies(led)) >= 2)
  /\ ExpansionProbe(t, led) # <<>>

\* _run_initial_evidence_probe_if_needed
InitialProbe(led, candidates) ==
  LET limit == IF MaxParallelBranches < 3 THEN MaxParallelBranches ELSE 3
  IN IF LiveObservationCount(led) > 0 THEN <<>>
     ELSE FirstOf(Distinct(Without(candidates, Searches)), limit)

-----------------------------------------------------------------------------
(* The loop.                                                               *)

ReactInit ==
  /\ ticket \in Tickets
  /\ iteration = 1
  /\ ledger = <<>> /\ toolCache = <<>> /\ callsUsed = 0
  /\ found = [hits |-> ticket.hits, cases |-> ticket.cases]
  /\ batch = <<>> /\ origin = "none"
  /\ stopReason = "" /\ rejected = FALSE
  /\ executed = [t \in Tools |-> {}]

Deciding == stopReason = "" /\ batch = <<>>

Gather(tools, who) ==
  /\ batch' = [i \in DOMAIN tools |-> [tool |-> tools[i], state |-> "queued", result |-> NoResult]]
  /\ origin' = who
  /\ UNCHANGED stopReason

\* _build_final_response: the reason is written over whatever the loop had put there.
FinalReason(confident, led) ==
  IF confident THEN "model_answered"
  ELSE IF EnoughForOutput(led) THEN "evidence_sufficient_low_model_confidence" ELSE "low_confidence"

Answer(confident) ==
  /\ stopReason' = FinalReason(confident, ledger)
  /\ UNCHANGED <<batch, origin>>

ProbeExpandedDomains ==
  /\ Deciding
  /\ ShouldProbeExpansion(ticket, ledger)
  /\ Gather(ExpansionProbe(ticket, ledger), "expansion")
  /\ UNCHANGED <<ticket, iteration, ledger, toolCache, callsUsed, found, rejected, executed>>

ModelAnswers ==
  /\ Deciding
  /\ ~ShouldProbeExpansion(ticket, ledger)
  /\ LET probe == InitialProbe(ledger, CandidatesNow)
     IN IF probe # <<>> THEN Gather(probe, "initial")
        ELSE \E confident \in BOOLEAN : Answer(confident)
  /\ UNCHANGED <<ticket, iteration, ledger, toolCache, callsUsed, found, rejected, executed>>

\* What the budget leaves of the calls is split into candidates and rejected names.
ModelAsks(asked) ==
  /\ Deciding
  /\ ~ShouldProbeExpansion(ticket, ledger)
  /\ LET within == FirstOf(asked, MaxToolCalls - callsUsed)
         valid == Only(within, ToSet(CandidatesNow))
         probe == InitialProbe(ledger, CandidatesNow)
     IN /\ rejected' = (rejected \/ valid # within)
        /\ IF valid # <<>> THEN Gather(FirstOf(valid, MaxParallelBranches), "model")
           ELSE IF probe # <<>> THEN Gather(probe, "rejected")
           ELSE \E confident \in BOOLEAN : Answer(confident)
  /\ UNCHANGED <<ticket, iteration, ledger, toolCache, callsUsed, found, executed>>

Requests == UNION {[1..n -> Tools \cup {NotATool}] : n \in 1..MaxAsked}

Cache_Forgotten(t, r) == toolCache' = toolCache

Cache(t, r) == toolCache' = [u \in DOMAIN toolCache \cup {t} |-> IF u = t THEN r ELSE toolCache[u]]

\* The calls of a batch start in order; a tool that needs not wait is done at once.
StartCall(i) ==
  /\ i \in DOMAIN batch /\ batch[i].state = "queued"
  /\ \A j \in 1..(i - 1) : batch[j].state # "queued"
  /\ LET t == batch[i].tool
         done(r) == batch' = [batch EXCEPT ![i].state = "done", ![i].result = r]
     IN IF t \in DOMAIN toolCache
        THEN done(toolCache[t]) /\ UNCHANGED <<toolCache, executed>>
        ELSE /\ executed' = [executed EXCEPT ![t] = @ \cup {iteration}]
             /\ \/ \E r \in ResultsOf(t) : done(r) /\ Cache(t, r)
                \/ batch' = [batch EXCEPT ![i].state = "running"] /\ UNCHANGED toolCache
  /\ UNCHANGED <<ticket, iteration, ledger, callsUsed, found, origin, stopReason, rejected>>

\* The tool answers, fails or times out, in any order.
FinishCall(i) ==
  /\ i \in DOMAIN batch /\ batch[i].state = "running"
  /\ \A j \in DOMAIN batch : batch[j].state # "queued"
  /\ \E r \in ResultsOf(batch[i].tool) :
       batch' = [batch EXCEPT ![i].state = "done", ![i].result = r] /\ Cache(batch[i].tool, r)
  /\ UNCHANGED <<ticket, iteration, ledger, callsUsed, found, origin, stopReason, rejected, executed>>

\* Hits and cases already there are not added again.
Added(t) ==
  LET new == {i \in DOMAIN batch : batch[i].tool = t}
  IN IF t \in Observed(ledger) \/ new = {} THEN 0
     ELSE CHOOSE n \in {batch[i].result.found : i \in new} : \A i \in new : batch[i].result.found <= n

NextStep_StopsPastBudget(led, used) ==
  IF origin # "rejected" /\ ShouldStop(led, CandidatesNow)
  THEN stopReason' = FinalReason(TRUE, led) /\ UNCHANGED iteration
  ELSE IF used > MaxToolCalls
  THEN stopReason' = "tool_budget_reached" /\ UNCHANGED iteration
  ELSE IF iteration = MaxIterations
  THEN stopReason' = "iteration_guardrail_reached" /\ UNCHANGED iteration
  ELSE iteration' = iteration + 1 /\ UNCHANGED stopReason

\* After the batch: an early stop (never after a batch that replaced rejected calls),
\* the budget, or the next iteration.
NextStep(led, used) ==
  IF origin # "rejected" /\ ShouldStop(led, CandidatesNow)
  THEN stopReason' = FinalReason(TRUE, led) /\ UNCHANGED iteration
  ELSE IF used >= MaxToolCalls
  THEN stopReason' = "tool_budget_reached" /\ UNCHANGED iteration
  ELSE IF iteration = MaxIterations
  THEN stopReason' = "iteration_guardrail_reached" /\ UNCHANGED iteration
  ELSE iteration' = iteration + 1 /\ UNCHANGED stopReason

\* _apply_observation_results, with the last twenty observations kept.
ApplyBatch ==
  /\ batch # <<>> /\ \A i \in DOMAIN batch : batch[i].state = "done"
  /\ LET led == ledger \o [i \in DOMAIN batch |-> [tool |-> batch[i].tool, result |-> batch[i].result]]
         used == callsUsed + Len(batch)
         kept == IF Len(led) <= 20 THEN led ELSE SubSeq(led, Len(led) - 19, Len(led))
     IN ledger' = kept /\ callsUsed' = used /\ NextStep(kept, used)
  /\ found' = [hits |-> found.hits + Added(KnowledgeSearch), cases |-> found.cases + Added(CaseSearch)]
  /\ batch' = <<>> /\ origin' = "none"
  /\ UNCHANGED <<ticket, toolCache, rejected, executed>>

ReactNext ==
  \/ ProbeExpandedDomains
  \/ ModelAnswers
  \/ \E asked \in Requests : ModelAsks(asked)
  \/ \E i \in DOMAIN batch : StartCall(i) \/ FinishCall(i)
  \/ ApplyBatch

ReactSpec == ReactInit /\ [][ReactNext]_reactVars

-----------------------------------------------------------------------------
(* Properties.                                                             *)

Answered == stopReason \in {"model_answered", "evidence_sufficient_low_model_confidence", "low_confidence"}

\* Probes are not cut to what is left of the budget, so a run may go past it, but by
\* less than one probe and only because of one; nothing is called after that.
BudgetOvershootBounded ==
  /\ callsUsed < MaxToolCalls + 3
  /\ callsUsed >= MaxToolCalls => stopReason # ""
  /\ callsUsed = Len(ledger) \/ Len(ledger) = 20

\* A tool that has answered once in a run, even with a failure, is not run again by a
\* later batch, whether the model or a probe asks for it: only the calls of one
\* batch can run the same question twice.
NoQuestionRunsAgain == \A t \in Tools : \A k, l \in executed[t] : k = l

\* However the model behaves (it answers at once, or asks only for names that are no
\* candidates), an answer rests on a tool other than the knowledge search.
AnswersRestOnALook == Answered => \E i \in DOMAIN ledger : ledger[i].tool # KnowledgeSearch

=============================================================================
