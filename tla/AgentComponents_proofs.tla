------------------------ MODULE AgentComponents_proofs ------------------------
(***************************************************************************)
(* What the diagnosis loop, the rules, the approval gate, the knowledge    *)
(* base and the case search guarantee, for any constants.  Each of them    *)
(* moves by itself, so each has an inductive invariant of its own; they    *)
(* stand in one module for the lemmas they share, about finite sets of     *)
(* positions, selections from a list and lists of lists.                   *)
(***************************************************************************)
EXTENDS ReactLoop, RuleDiagnosis, ApprovalGate, KnowledgeIndex, CaseRecall,
        Subsequences_proofs

-----------------------------------------------------------------------------
(* The diagnosis loop: its shared cache.                                   *)

WaitsFor(t) == \E i \in DOMAIN batch : batch[i].tool = t /\ batch[i].state = "running"

CallFields == {"tool", "state", "result"}

\* A tool that ran and has no result in the cache yet is still running, in a batch
\* of this iteration; and no tool ran in two iterations.
CacheInv ==
  /\ executed \in [Tools -> SUBSET Nat]
  /\ iteration \in Nat
  /\ \A i \in DOMAIN batch : DOMAIN batch[i] = CallFields
  /\ \A t \in Tools : \A k, l \in executed[t] : k = l
  /\ \A t \in Tools : executed[t] # {} /\ t \notin DOMAIN toolCache =>
       executed[t] = {iteration} /\ WaitsFor(t)

LEMMA LoopStartsWithNothing == ReactInit => CacheInv
<1> SUFFICES ASSUME ReactInit PROVE CacheInv
  OBVIOUS
<1>1. executed = [t \in Tools |-> {}] /\ iteration = 1 /\ batch = <<>>
  BY DEF ReactInit
<1>2. \A i \in DOMAIN batch : DOMAIN batch[i] = CallFields
  BY <1>1
<1> QED
  BY <1>1, <1>2 DEF CacheInv

\* While nothing waits, every tool that ran is in the cache, and the next iteration
\* and the next batch may begin.
LEMMA NothingWaitsForCache ==
  ASSUME CacheInv, \A t \in Tools : ~WaitsFor(t),
         UNCHANGED <<toolCache, executed>>, iteration' \in Nat,
         \A i \in DOMAIN batch' : DOMAIN batch'[i] = CallFields
  PROVE  CacheInv'
BY DEF CacheInv

LEMMA DecidingKeepsCache ==
  ASSUME CacheInv, Deciding, UNCHANGED <<iteration, toolCache, executed>>,
         batch' = batch \/ \E tools, who : Gather(tools, who)
  PROVE  CacheInv'
<1>1. batch = <<>> /\ iteration' \in Nat
  BY DEF Deciding, CacheInv
<1>2. \A t \in Tools : ~WaitsFor(t)
  BY <1>1 DEF WaitsFor
<1>3. ASSUME NEW tools, NEW who, Gather(tools, who)
      PROVE  \A i \in DOMAIN batch' : DOMAIN batch'[i] = CallFields
  BY <1>3 DEF Gather, CallFields
<1>4. \A i \in DOMAIN batch' : DOMAIN batch'[i] = CallFields
  BY <1>3 DEF CacheInv
<1> QED
  BY <1>1, <1>2, <1>4, NothingWaitsForCache

LEMMA ApplyBatchKeepsCache ==
  ASSUME CacheInv, ApplyBatch
  PROVE  CacheInv'
<1>1. \A t \in Tools : ~WaitsFor(t)
  BY DEF ApplyBatch, WaitsFor
<1>2. batch' = <<>> /\ \E led, used : NextStep(led, used)
  BY Zenon DEF ApplyBatch
<1>3. iteration' = iteration \/ iteration' = iteration + 1
  BY <1>2, Zenon DEF NextStep
<1>4. \A i \in DOMAIN batch' : DOMAIN batch'[i] = CallFields
  BY <1>2
<1> QED
  BY <1>1, <1>3, <1>4, NothingWaitsForCache DEF ApplyBatch, CacheInv

\* What a step writes into one call leaves the others and the call's tool alone.
LEMMA CallWritten ==
  ASSUME CacheInv, NEW i, NEW r,
         batch' = [batch EXCEPT ![i].state = "done", ![i].result = r]
         \/ batch' = [batch EXCEPT ![i].state = "running"]
  PROVE  /\ DOMAIN batch' = DOMAIN batch
         /\ \A j \in DOMAIN batch' : DOMAIN batch'[j] = CallFields /\ batch'[j].tool = batch[j].tool
         /\ \A j \in DOMAIN batch \ {i} : batch'[j] = batch[j]
<1>1. \A j \in DOMAIN batch : DOMAIN batch[j] = CallFields
  BY DEF CacheInv
<1>2. DOMAIN batch' = DOMAIN batch /\ \A j \in DOMAIN batch \ {i} : batch'[j] = batch[j]
  OBVIOUS
<1>3. ASSUME i \in DOMAIN batch
      PROVE  DOMAIN batch'[i] = CallFields /\ batch'[i].tool = batch[i].tool
  <2>1. CASE batch' = [batch EXCEPT ![i].state = "running"]
    <3>1. batch'[i] = [batch[i] EXCEPT !.state = "running"]
      BY <1>3, <2>1
    <3> QED
      BY <1>1, <1>3, <3>1 DEF CallFields
  <2>2. CASE batch' = [batch EXCEPT ![i].state = "done", ![i].result = r]
    <3>1. batch'[i] = [[batch[i] EXCEPT !.state = "done"] EXCEPT !.result = r]
      BY <1>3, <2>2
    <3> QED
      BY <1>1, <1>3, <3>1 DEF CallFields
  <2> QED
    BY <2>1, <2>2
<1> QED
  BY <1>1, <1>2, <1>3

\* A result that comes in is in the cache from then on.
LEMMA FinishCallKeepsCache ==
  ASSUME CacheInv, NEW i, FinishCall(i)
  PROVE  CacheInv'
<1> DEFINE t == batch[i].tool
<1> PICK r : batch' = [batch EXCEPT ![i].state = "done", ![i].result = r] /\ Cache(t, r)
  BY DEF FinishCall
<1>1. /\ UNCHANGED <<iteration, executed>>
      /\ DOMAIN toolCache' = DOMAIN toolCache \cup {t}
  BY DEF FinishCall, Cache
<1>2. /\ DOMAIN batch' = DOMAIN batch
      /\ \A j \in DOMAIN batch' : DOMAIN batch'[j] = CallFields /\ batch'[j].tool = batch[j].tool
      /\ \A j \in DOMAIN batch \ {i} : batch'[j] = batch[j]
  BY CallWritten
<1>3. \A u \in Tools \ {t} : WaitsFor(u) => WaitsFor(u)'
  BY <1>2 DEF WaitsFor
<1> QED
  BY <1>1, <1>2, <1>3 DEF CacheInv

\* A tool is run only when the cache holds nothing of it.
LEMMA StartCallKeepsCache ==
  ASSUME CacheInv, NEW i, StartCall(i)
  PROVE  CacheInv'
<1> PICK t : t = batch[i].tool
  OBVIOUS
<1>1. i \in DOMAIN batch /\ batch[i].state = "queued" /\ UNCHANGED iteration
  BY DEF StartCall
<1>2. CASE t \in DOMAIN toolCache
  <2>1. /\ UNCHANGED <<toolCache, executed>>
        /\ batch' = [batch EXCEPT ![i].state = "done", ![i].result = toolCache[t]]
    BY <1>2 DEF StartCall
  <2>2. /\ DOMAIN batch' = DOMAIN batch
        /\ \A j \in DOMAIN batch' : DOMAIN batch'[j] = CallFields /\ batch'[j].tool = batch[j].tool
        /\ \A j \in DOMAIN batch \ {i} : batch'[j] = batch[j]
    BY <2>1, CallWritten
  <2>3. \A u \in Tools : WaitsFor(u) => WaitsFor(u)'
    BY <1>1, <2>2 DEF WaitsFor
  <2> QED
    BY <1>1, <2>1, <2>2, <2>3 DEF CacheInv
<1>3. CASE t \notin DOMAIN toolCache
  <2>1. executed' = [executed EXCEPT ![t] = @ \cup {iteration}]
    BY <1>3 DEF StartCall
  <2>2. /\ executed' \in [Tools -> SUBSET Nat]
        /\ \A u \in Tools \ {t} : executed'[u] = executed[u]
        /\ t \in Tools => executed'[t] = {iteration}
    BY <1>3, <2>1 DEF CacheInv
  <2>3. CASE \E r : /\ batch' = [batch EXCEPT ![i].state = "done", ![i].result = r]
                    /\ Cache(t, r)
    <3>1. DOMAIN toolCache' = DOMAIN toolCache \cup {t}
      BY <2>3 DEF Cache
    <3>2. /\ DOMAIN batch' = DOMAIN batch
          /\ \A j \in DOMAIN batch' : DOMAIN batch'[j] = CallFields /\ batch'[j].tool = batch[j].tool
          /\ \A j \in DOMAIN batch \ {i} : batch'[j] = batch[j]
      BY <2>3, CallWritten
    <3>3. \A u \in Tools : WaitsFor(u) => WaitsFor(u)'
      BY <1>1, <3>2 DEF WaitsFor
    <3> QED
      BY <1>1, <2>2, <3>1, <3>2, <3>3 DEF CacheInv
  <2>4. CASE batch' = [batch EXCEPT ![i].state = "running"] /\ UNCHANGED toolCache
    <3>1. /\ DOMAIN batch' = DOMAIN batch
          /\ \A j \in DOMAIN batch' : DOMAIN batch'[j] = CallFields /\ batch'[j].tool = batch[j].tool
          /\ \A j \in DOMAIN batch \ {i} : batch'[j] = batch[j]
      BY <2>4, CallWritten
    <3>2. \A u \in Tools : WaitsFor(u) => WaitsFor(u)'
      BY <1>1, <3>1 DEF WaitsFor
    <3>3. i \in DOMAIN batch' /\ batch'[i].tool = t /\ batch'[i].state = "running"
      <4>1. batch'[i] = [batch[i] EXCEPT !.state = "running"] /\ DOMAIN batch[i] = CallFields
        BY <1>1, <2>4 DEF CacheInv
      <4> QED
        BY <1>1, <3>1, <4>1 DEF CallFields
    <3>4. WaitsFor(t)'
      BY <3>3 DEF WaitsFor
    <3> QED
      BY <1>1, <2>2, <2>4, <3>1, <3>2, <3>4 DEF CacheInv
  <2> QED
    BY <1>3, <2>3, <2>4 DEF StartCall
<1> QED
  BY <1>2, <1>3

LEMMA NextKeepsCache ==
  ASSUME CacheInv, [ReactNext]_reactVars
  PROVE  CacheInv'
<1>1. CASE ProbeExpandedDomains \/ ModelAnswers \/ \E asked \in Requests : ModelAsks(asked)
  <2>1. Deciding /\ UNCHANGED <<iteration, toolCache, executed>>
    BY <1>1 DEF ProbeExpandedDomains, ModelAnswers, ModelAsks
  <2>2. batch' = batch \/ \E tools, who : Gather(tools, who)
    BY <1>1, Zenon DEF ProbeExpandedDomains, ModelAnswers, ModelAsks, Answer
  <2> QED
    BY <2>1, <2>2, DecidingKeepsCache
<1>2. ASSUME NEW i \in DOMAIN batch, StartCall(i) \/ FinishCall(i)
      PROVE  CacheInv'
  BY <1>2, StartCallKeepsCache, FinishCallKeepsCache
<1>3. CASE ApplyBatch
  BY <1>3, ApplyBatchKeepsCache
<1>4. CASE UNCHANGED reactVars
  BY <1>4 DEF reactVars, CacheInv, WaitsFor
<1> QED
  BY <1>1, <1>2, <1>3, <1>4 DEF ReactNext

\* Whatever the model asks for and in whichever order the calls of a batch come back,
\* no tool runs in two iterations of a run (_execute_tool and its shared cache).
THEOREM QuestionsRunOnce == ReactSpec => []NoQuestionRunsAgain
<1>1. ReactInit => CacheInv
  BY LoopStartsWithNothing
<1>2. CacheInv /\ [ReactNext]_reactVars => CacheInv'
  BY NextKeepsCache
<1>3. CacheInv => NoQuestionRunsAgain
  BY DEF CacheInv, NoQuestionRunsAgain
<1> QED
  BY <1>1, <1>2, <1>3, PTL DEF ReactSpec

-----------------------------------------------------------------------------
(* The diagnosis loop: its tool budget.                                    *)

IsSequence(s) == Len(s) \in Nat /\ s = [i \in 1..Len(s) |-> s[i]]

\* The first n of a list are at most n.
LEMMA FirstOfLength ==
  ASSUME NEW s, DOMAIN s \subseteq Nat \ {0}, NEW n \in Nat
  PROVE  IsSequence(FirstOf(s, n)) /\ Len(FirstOf(s, n)) <= n
<1> DEFINE I == {i \in DOMAIN s : i <= n}
<1>1. I \in SUBSET (1..n)
  OBVIOUS
<1>2. Cardinality(I) \in 0..n /\ Len(Selected(s, I)) = Cardinality(I)
  BY <1>1, SelectedElements
<1>3. Selected(s, I) = [k \in 1..Cardinality(I) |-> Selected(s, I)[k]]
  BY DEF Selected
<1>4. FirstOf(s, n) = Selected(s, I)
  BY DEF FirstOf
<1> HIDE DEF I
<1> QED
  BY <1>2, <1>3, <1>4 DEF IsSequence

LEMMA SelectedDomain ==
  ASSUME NEW s, NEW I
  PROVE  DOMAIN Selected(s, I) \subseteq Nat \ {0}
BY DEF Selected

\* A part of a list is no longer than the list.
LEMMA SelectedLength ==
  ASSUME NEW s, IsSequence(s), NEW I \in SUBSET DOMAIN s
  PROVE  IsSequence(Selected(s, I)) /\ Len(Selected(s, I)) <= Len(s)
<1>1. I \in SUBSET (1..Len(s)) /\ Len(s) \in Nat
  BY DEF IsSequence
<1>2. Cardinality(I) \in 0..Len(s) /\ Len(Selected(s, I)) = Cardinality(I)
  BY <1>1, SelectedElements
<1>3. Selected(s, I) = [k \in 1..Cardinality(I) |-> Selected(s, I)[k]]
  BY DEF Selected
<1> QED
  BY <1>2, <1>3 DEF IsSequence

\* The next calls, of which the budget may leave some over, and what the last of them
\* leave behind: a run that goes on has calls left.
BudgetInv ==
  /\ callsUsed \in Nat
  /\ IsSequence(batch)
  /\ \E S : ledger \in Seq(S)
  /\ callsUsed < MaxToolCalls + 3
  /\ stopReason = "" => callsUsed < MaxToolCalls /\ callsUsed + Len(batch) < MaxToolCalls + 3
  /\ batch # <<>> => stopReason = ""
  /\ callsUsed = Len(ledger) \/ Len(ledger) = 20

LEMMA LoopStartsInBudget == ReactInit => BudgetInv
<1> SUFFICES ASSUME ReactInit PROVE BudgetInv
  OBVIOUS
<1>1. callsUsed = 0 /\ ledger = <<>> /\ batch = <<>> /\ stopReason = ""
  BY DEF ReactInit
<1>2. IsSequence(<<>>) /\ Len(<<>>) = 0 /\ <<>> \in Seq({})
  BY DEF IsSequence
<1>3. \E S : ledger \in Seq(S)
  BY <1>1, <1>2
<1>4. MaxToolCalls \in Nat \ {0}
  BY ReactAssumptions
<1>5. IsSequence(batch) /\ Len(batch) = 0 /\ Len(ledger) = 0
  BY <1>1, <1>2
<1>6. callsUsed < MaxToolCalls + 3 /\ callsUsed < MaxToolCalls /\ callsUsed + Len(batch) < MaxToolCalls + 3
  <2>1. ASSUME NEW n \in Nat, n = 0, NEW m \in Nat \ {0}
        PROVE  n < m + 3 /\ n < m /\ n + n < m + 3
    BY <2>1
  <2>2. callsUsed + Len(batch) = 0 + 0
    BY <1>1, <1>5
  <2> QED
    BY <1>1, <1>4, <2>1, <2>2
<1> QED
  BY <1>1, <1>3, <1>5, <1>6 DEF BudgetInv

\* Before a batch is gathered nothing is under way.
LEMMA DecidingKeepsBudget ==
  ASSUME BudgetInv, Deciding, UNCHANGED <<ledger, callsUsed>>,
         \/ \E confident : Answer(confident)
         \/ \E tools, who : /\ Gather(tools, who)
                            /\ IsSequence(tools) /\ Len(tools) <= MaxToolCalls - callsUsed + 2
  PROVE  BudgetInv'
<1>1. callsUsed \in Nat /\ callsUsed < MaxToolCalls /\ MaxToolCalls \in Nat /\ batch = <<>> /\ stopReason = ""
  BY ReactAssumptions DEF BudgetInv, Deciding
<1>2. CASE \E confident : Answer(confident)
  <2>1. UNCHANGED batch
    BY <1>2 DEF Answer
  <2>2. stopReason' # ""
    BY <1>2 DEF Answer, FinalReason
  <2> QED
    BY <1>1, <2>1, <2>2 DEF BudgetInv, IsSequence
<1>3. CASE \E tools, who : /\ Gather(tools, who)
                           /\ IsSequence(tools) /\ Len(tools) <= MaxToolCalls - callsUsed + 2
  <2>0. PICK tools, who : /\ Gather(tools, who)
                          /\ IsSequence(tools) /\ Len(tools) <= MaxToolCalls - callsUsed + 2
    BY <1>3
  <2>1. DOMAIN tools = 1..Len(tools) /\ Len(tools) \in Nat
    BY <2>0 DEF IsSequence
  <2>2. batch' = [i \in 1..Len(tools) |-> batch'[i]] /\ UNCHANGED stopReason
    BY <2>0, <2>1 DEF Gather
  <2>3. IsSequence(batch') /\ Len(batch') = Len(tools)
    BY <2>1, <2>2 DEF IsSequence
  <2>4. callsUsed + Len(batch') < MaxToolCalls + 3
    <3>1. ASSUME NEW c \in Nat, NEW l \in Nat, NEW m \in Nat, l <= m - c + 2 PROVE c + l < m + 3
      BY <3>1
    <3>2. Len(tools) \in Nat /\ Len(tools) <= MaxToolCalls - callsUsed + 2
      BY <2>0, <2>1
    <3>3. callsUsed + Len(tools) < MaxToolCalls + 3
      BY <1>1, <3>1, <3>2
    <3> QED
      BY <2>3, <3>3
  <2>5. \E S : ledger' \in Seq(S)
    BY DEF BudgetInv
  <2>6. callsUsed' = callsUsed /\ ledger' = ledger /\ stopReason' = ""
    BY <1>1, <2>2
  <2>7. callsUsed < MaxToolCalls + 3 /\ (callsUsed = Len(ledger) \/ Len(ledger) = 20)
    BY DEF BudgetInv
  <2> QED
    BY <1>1, <2>3, <2>4, <2>5, <2>6, <2>7 DEF BudgetInv
<1> QED
  BY <1>2, <1>3

LEMMA ProbesKeepBudget ==
  ASSUME BudgetInv, ProbeExpandedDomains \/ ModelAnswers \/ \E asked \in Requests : ModelAsks(asked)
  PROVE  BudgetInv'
<1>1. Deciding /\ UNCHANGED <<ledger, callsUsed>>
  BY DEF ProbeExpandedDomains, ModelAnswers, ModelAsks
<1>2. callsUsed \in Nat /\ callsUsed < MaxToolCalls /\ MaxToolCalls \in Nat /\ MaxParallelBranches \in Nat
  BY <1>1, ReactAssumptions DEF BudgetInv, Deciding
<1>3. ASSUME NEW tools, IsSequence(tools), Len(tools) <= 3
      PROVE  Len(tools) <= MaxToolCalls - callsUsed + 2
  BY <1>2, <1>3 DEF IsSequence
<1>4. LET probe == InitialProbe(ledger, CandidatesNow)
      IN  probe # <<>> => IsSequence(probe) /\ Len(probe) <= 3
  <2> DEFINE limit == IF MaxParallelBranches < 3 THEN MaxParallelBranches ELSE 3
             others == Distinct(Without(CandidatesNow, Searches))
  <2>1. limit \in Nat /\ limit <= 3
    BY <1>2
  <2>2. DOMAIN others \subseteq Nat \ {0}
    BY SelectedDomain DEF Distinct
  <2> HIDE DEF limit, others
  <2>3. IsSequence(FirstOf(others, limit)) /\ Len(FirstOf(others, limit)) <= limit
    BY <2>1, <2>2, FirstOfLength
  <2>4. IsSequence(FirstOf(others, limit)) /\ Len(FirstOf(others, limit)) <= 3
    BY <2>1, <2>3 DEF IsSequence
  <2> QED
    BY <2>4 DEF InitialProbe, limit, others
<1>5. LET probe == ExpansionProbe(ticket, ledger)
      IN  probe # <<>> => IsSequence(probe) /\ Len(probe) <= 3
  <2>1. ASSUME NEW s PROVE IsSequence(FirstOf(Distinct(s), 2)) /\ Len(FirstOf(Distinct(s), 2)) <= 3
    <3>1. DOMAIN Distinct(s) \subseteq Nat \ {0}
      BY SelectedDomain DEF Distinct
    <3>2. IsSequence(FirstOf(Distinct(s), 2)) /\ Len(FirstOf(Distinct(s), 2)) <= 2
      BY <3>1, FirstOfLength
    <3> QED
      BY <3>2 DEF IsSequence
  <2> QED
    BY <2>1, Zenon DEF ExpansionProbe
<1>6. CASE ProbeExpandedDomains
  <2>1. Gather(ExpansionProbe(ticket, ledger), "expansion") /\ ExpansionProbe(ticket, ledger) # <<>>
    BY <1>6 DEF ProbeExpandedDomains, ShouldProbeExpansion
  <2> QED
    BY <1>1, <1>3, <1>5, <2>1, DecidingKeepsBudget
<1>7. CASE ModelAnswers
  <2>1. \/ \E confident : Answer(confident)
        \/ /\ InitialProbe(ledger, CandidatesNow) # <<>>
           /\ Gather(InitialProbe(ledger, CandidatesNow), "initial")
    BY <1>7 DEF ModelAnswers
  <2> QED
    BY <1>1, <1>3, <1>4, <2>1, DecidingKeepsBudget
<1>8. ASSUME NEW asked \in Requests, ModelAsks(asked) PROVE BudgetInv'
  <2> DEFINE within == FirstOf(asked, MaxToolCalls - callsUsed)
             valid == Only(within, ToSet(CandidatesNow))
             probe == InitialProbe(ledger, CandidatesNow)
  <2>1. \/ \E confident : Answer(confident)
        \/ probe # <<>> /\ Gather(probe, "rejected")
        \/ Gather(FirstOf(valid, MaxParallelBranches), "model")
    BY <1>8 DEF ModelAsks
  <2>2. DOMAIN asked \subseteq Nat \ {0}
    BY DEF Requests
  <2>3. IsSequence(within) /\ Len(within) <= MaxToolCalls - callsUsed
    BY <1>2, <2>2, FirstOfLength
  <2>4. IsSequence(valid) /\ Len(valid) <= Len(within)
    <3> HIDE DEF within
    <3> QED
      BY <2>3, SelectedLength DEF Only
  <2>5. /\ IsSequence(FirstOf(valid, MaxParallelBranches))
        /\ Len(FirstOf(valid, MaxParallelBranches)) <= Len(valid)
    <3> HIDE DEF valid
    <3> QED
      BY <2>4, SelectedLength DEF FirstOf
  <2>6. Len(FirstOf(valid, MaxParallelBranches)) <= MaxToolCalls - callsUsed + 2
    <3> HIDE DEF valid, within
    <3> QED
      BY <1>2, <2>3, <2>4, <2>5 DEF IsSequence
  <2> QED
    BY <1>1, <1>3, <1>4, <2>1, <2>5, <2>6, DecidingKeepsBudget
<1> QED
  BY <1>6, <1>7, <1>8

\* A call that starts or comes back leaves its batch as long as it was.
LEMMA CallsKeepBudget ==
  ASSUME BudgetInv, NEW i \in DOMAIN batch, StartCall(i) \/ FinishCall(i)
  PROVE  BudgetInv'
<1>1. UNCHANGED <<ledger, callsUsed, stopReason>>
  BY DEF StartCall, FinishCall
<1>2. \/ \E r : batch' = [batch EXCEPT ![i].state = "done", ![i].result = r]
      \/ batch' = [batch EXCEPT ![i].state = "running"]
  BY Zenon DEF StartCall, FinishCall
<1>3. DOMAIN batch' = DOMAIN batch /\ batch' = [j \in DOMAIN batch |-> batch'[j]]
  BY <1>2
<1>4. DOMAIN batch = 1..Len(batch) /\ Len(batch) \in Nat
  BY DEF BudgetInv, IsSequence
<1>5. IsSequence(batch') /\ Len(batch') = Len(batch)
  BY <1>3, <1>4 DEF IsSequence
<1>6. stopReason = ""
  <2>1. batch # <<>>
    OBVIOUS
  <2> QED
    BY <2>1 DEF BudgetInv
<1> QED
  BY <1>1, <1>5, <1>6 DEF BudgetInv

\* A batch is counted whole, and its observations are all kept as long as they fit.
LEMMA ApplyBatchKeepsBudget ==
  ASSUME BudgetInv, ApplyBatch
  PROVE  BudgetInv'
<1> DEFINE seen == [i \in DOMAIN batch |-> [tool |-> batch[i].tool, result |-> batch[i].result]]
           led == ledger \o seen
           used == callsUsed + Len(batch)
           kept == IF Len(led) <= 20 THEN led ELSE SubSeq(led, Len(led) - 19, Len(led))
<1>1. /\ batch # <<>> /\ batch' = <<>>
      /\ ledger' = kept /\ callsUsed' = used /\ NextStep(kept, used)
  BY DEF ApplyBatch
<1>2. DOMAIN batch = 1..Len(batch) /\ Len(batch) \in Nat
  BY DEF BudgetInv, IsSequence
<1>3. PICK S : ledger \in Seq(S)
  BY DEF BudgetInv
<1>4. /\ callsUsed \in Nat /\ MaxToolCalls \in Nat
      /\ callsUsed < MaxToolCalls /\ callsUsed + Len(batch) < MaxToolCalls + 3
  BY <1>1, ReactAssumptions DEF BudgetInv
<1>5. callsUsed = Len(ledger) \/ Len(ledger) = 20
  BY DEF BudgetInv
<1> DEFINE T == S \cup {seen[i] : i \in DOMAIN batch}
<1>6. ledger \in Seq(T) /\ Len(ledger) \in Nat
  BY <1>3
<1>7. seen \in Seq(T) /\ Len(seen) = Len(batch)
  <2>1. seen = [i \in 1..Len(batch) |-> seen[i]] /\ \A i \in 1..Len(batch) : seen[i] \in T
    BY <1>2
  <2> HIDE DEF seen, T
  <2> QED
    BY <1>2, <2>1
<1> HIDE DEF seen, T
<1>8. led \in Seq(T) /\ Len(led) = Len(ledger) + Len(batch) /\ Len(led) \in Nat
  BY <1>2, <1>6, <1>7
<1> HIDE DEF led
<1>9. kept \in Seq(T) /\ (Len(led) <= 20 => Len(kept) = Len(led)) /\ (~(Len(led) <= 20) => Len(kept) = 20)
  <2>1. CASE Len(led) <= 20
    BY <1>8, <2>1
  <2>2. CASE ~(Len(led) <= 20)
    <3>1. Len(led) - 19 \in 1..Len(led) /\ Len(led) - (Len(led) - 19) + 1 = 20 /\ Len(led) - 19 <= Len(led)
      BY <1>8, <2>2
    <3>2. kept = SubSeq(led, Len(led) - 19, Len(led))
      BY <2>2
    <3> QED
      BY <1>8, <2>2, <3>1, <3>2
  <2> QED
    BY <2>1, <2>2
<1> HIDE DEF kept
<1>10. used \in Nat /\ used < MaxToolCalls + 3
  BY <1>2, <1>4
<1>11. used = Len(kept) \/ Len(kept) = 20
  <2>1. Len(led) \in Nat /\ Len(ledger) \in Nat /\ Len(led) = Len(ledger) + Len(batch)
    BY <1>6, <1>8
  <2>2. ASSUME NEW l \in Nat, NEW b \in Nat, NEW c \in Nat, c = l \/ l = 20, l + b <= 20
        PROVE  c + b = l + b \/ l + b = 20
    BY <2>2
  <2> QED
    BY <1>2, <1>4, <1>5, <1>9, <2>1, <2>2
<1>12. stopReason' = "" => used < MaxToolCalls
  <2>1. NextStep(kept, used) => (used >= MaxToolCalls => stopReason' # "")
    BY DEF NextStep, FinalReason
  <2>2. ~(used >= MaxToolCalls) => used < MaxToolCalls
    BY <1>4, <1>10
  <2> QED
    BY <1>1, <2>1, <2>2
<1>13. IsSequence(batch') /\ Len(batch') = 0
  BY <1>1 DEF IsSequence
<1>14. stopReason' = "" => used + Len(batch') < MaxToolCalls + 3
  <2>1. ASSUME NEW u \in Nat, NEW l, l = 0 PROVE u + l = u
    BY <2>1
  <2> QED
    BY <1>10, <1>13, <2>1
<1>15. \E X : ledger' \in Seq(X)
  BY <1>1, <1>9
<1> HIDE DEF used
<1> QED
  BY <1>1, <1>10, <1>11, <1>12, <1>13, <1>14, <1>15 DEF BudgetInv

LEMMA NextKeepsBudget ==
  ASSUME BudgetInv, [ReactNext]_reactVars
  PROVE  BudgetInv'
<1>1. CASE UNCHANGED reactVars
  BY <1>1 DEF reactVars, BudgetInv, IsSequence
<1> QED
  BY <1>1, ProbesKeepBudget, CallsKeepBudget, ApplyBatchKeepsBudget DEF ReactNext

\* However the model behaves, a run goes past its tool budget by less than one probe, is
\* over once it has reached it, and loses no call it counts as long as the ledger is
\* not full (run_loop's budget check comes after a batch, and probes are not cut).
THEOREM OvershootIsOneProbe == ReactSpec => []BudgetOvershootBounded
<1>1. ReactInit => BudgetInv
  BY LoopStartsInBudget
<1>2. BudgetInv /\ [ReactNext]_reactVars => BudgetInv'
  BY NextKeepsBudget
<1>3. BudgetInv => BudgetOvershootBounded
  <2> SUFFICES ASSUME BudgetInv PROVE BudgetOvershootBounded
    OBVIOUS
  <2>1. callsUsed \in Nat /\ MaxToolCalls \in Nat
    BY ReactAssumptions DEF BudgetInv
  <2>2. callsUsed >= MaxToolCalls => ~(callsUsed < MaxToolCalls)
    BY <2>1
  <2>3. callsUsed >= MaxToolCalls => stopReason # ""
    BY <2>2 DEF BudgetInv
  <2> QED
    BY <2>3 DEF BudgetInv, BudgetOvershootBounded
<1> QED
  BY <1>1, <1>2, <1>3, PTL DEF ReactSpec

-----------------------------------------------------------------------------
(* The approval gate: what the coordinator makes of the proposals.         *)

LEMMA RiskPriorities == \A r \in ToSet(Risks) : RiskPriority(r) \in 1..4
<1>1. DOMAIN Risks = 1..4
  BY DEF Risks
<1>2. ASSUME NEW r \in ToSet(Risks) PROVE RiskPriority(r) \in 1..4
  <2>1. \E n \in 1..4 : Risks[n] = r
    BY <1>1 DEF ToSet
  <2> QED
    BY <1>1, <2>1 DEF RiskPriority
<1> QED
  BY <1>2

\* Of several proposals that ask the same there is one that is kept: the first of those
\* with the highest risk.
LEMMA ThereIsAWinner ==
  ASSUME NEW ps \in Seq(GateProposals), NEW same \in SUBSET DOMAIN ps, same # {}
  PROVE  \E w \in same : \A j \in same :
           ~Riskier(ps[j], ps[w]) /\ (Riskier(ps[w], ps[j]) \/ w <= j)
<1> DEFINE priority(j) == RiskPriority(ps[j].risk)
           Below == {4 - priority(j) : j \in same}
<1>1. same \subseteq Nat
  OBVIOUS
<1>2. \A j \in same : priority(j) \in 1..4
  <2>1. \A j \in same : ps[j] \in GateProposals
    OBVIOUS
  <2>2. \A j \in same : ps[j].risk \in ToSet(Risks)
    BY <2>1 DEF GateProposals
  <2> QED
    BY <2>2, RiskPriorities
<1> HIDE DEF priority
<1>3. Below \subseteq Nat /\ Below # {}
  BY <1>2
<1>4. PICK best \in same : \A j \in same : 4 - priority(best) <= 4 - priority(j)
  <2>1. PICK least \in Below : \A n \in Below : least <= n
    BY <1>3, LeastNumber
  <2> QED
    BY <2>1
<1>5. \A j \in same : priority(j) <= priority(best)
  BY <1>2, <1>4
<1> DEFINE Top == {j \in same : priority(j) = priority(best)}
<1>6. Top \subseteq Nat /\ Top # {}
  BY <1>1
<1>7. PICK w \in Top : \A j \in Top : w <= j
  BY <1>6, LeastNumber
<1>8. ASSUME NEW j \in same
      PROVE  ~(priority(j) > priority(w)) /\ (priority(w) > priority(j) \/ w <= j)
  <2>1. priority(w) = priority(best) /\ priority(j) <= priority(best)
    BY <1>5, <1>7
  <2>2. priority(j) \in 1..4 /\ priority(best) \in 1..4
    BY <1>2
  <2> QED
    BY <1>7, <2>1, <2>2
<1> QED
  BY <1>7, <1>8 DEF Riskier, priority

\* What is left of the proposals when each question is asked once.
LEMMA DedupedAreProposals ==
  ASSUME NEW ps \in Seq(GateProposals)
  PROVE  DedupeProposals(ps) \in Seq(GateProposals)
<1> DEFINE same(i) == {j \in DOMAIN ps : SameQuestion(ps[j], ps[i])}
           winner(i) == CHOOSE w \in same(i) : \A j \in same(i) :
                          ~Riskier(ps[j], ps[w]) /\ (Riskier(ps[w], ps[j]) \/ w <= j)
           winners == [i \in DOMAIN ps |-> ps[winner(i)]]
           first == {i \in DOMAIN ps : \A j \in same(i) : i <= j}
<1>1. ASSUME NEW i \in DOMAIN ps PROVE winners[i] \in GateProposals
  <2>1. i \in same(i)
    BY DEF SameQuestion
  <2>2. same(i) \in SUBSET DOMAIN ps /\ same(i) # {}
    BY <2>1
  <2> HIDE DEF same
  <2>3. winner(i) \in same(i)
    BY <2>2, ThereIsAWinner
  <2>4. winner(i) \in DOMAIN ps
    BY <2>2, <2>3
  <2> HIDE DEF winner
  <2> QED
    BY <2>4
<1>2. first \in SUBSET (1..Len(ps)) /\ Len(ps) \in Nat
  OBVIOUS
<1>3. \A i \in first : winners[i] \in GateProposals
  BY <1>1
<1>4. DedupeProposals(ps) = Selected(winners, first)
  BY DEF DedupeProposals
<1> HIDE DEF winners, first
<1>5. /\ Cardinality(first) \in Nat
      /\ \A k \in 1..Cardinality(first) : Selected(winners, first)[k] \in GateProposals
  <2>1. /\ Cardinality(first) \in 0..Len(ps)
        /\ DOMAIN Selected(winners, first) = 1..Cardinality(first)
        /\ \A k \in DOMAIN Selected(winners, first) : \E i \in first : Selected(winners, first)[k] = winners[i]
    BY <1>2, SelectedElements, ZenonT(30)
  <2> QED
    BY <1>2, <1>3, <2>1
<1>6. Selected(winners, first) = [k \in 1..Cardinality(first) |-> Selected(winners, first)[k]]
  BY DEF Selected
<1> QED
  BY <1>4, <1>5, <1>6

\* What is judged comes from a proposal that can be executed, at the risk the policy
\* settled on, with the snapshot of the risk it came with.
LEMMA JudgedComeFromProposals ==
  ASSUME NEW ps \in Seq(GateProposals), NEW decision
  PROVE  /\ Judged(ps, decision) # <<>> => 1 \in DOMAIN Judged(ps, decision)
         /\ \A k \in DOMAIN Judged(ps, decision) : \E p \in GateProposals :
              /\ Executable(p)
              /\ PolicyVerdict(p).decision = decision
              /\ Judged(ps, decision)[k] =
                   [prop |-> [p EXCEPT !.risk = PolicyVerdict(p).risk], snapshot |-> Snapshot(p)]
<1> DEFINE unique == DedupeProposals(ps)
           able == {i \in DOMAIN unique : Executable(unique[i])}
           registered == Registered(unique)
           with == {i \in DOMAIN registered : PolicyVerdict(registered[i]).decision = decision}
           chosen == Selected(registered, with)
<1>1. unique \in Seq(GateProposals)
  BY DedupedAreProposals
<1> HIDE DEF unique
<1>2. able \in SUBSET (1..Len(unique)) /\ Len(unique) \in Nat
  BY <1>1
<1>3. registered = Selected(unique, able)
  BY DEF Registered
<1>4. /\ Cardinality(able) \in Nat /\ DOMAIN registered = 1..Cardinality(able)
      /\ \A k \in DOMAIN registered : \E i \in able : registered[k] = unique[i]
  <2> HIDE DEF able, registered
  <2>1. /\ Cardinality(able) \in 0..Len(unique)
        /\ DOMAIN Selected(unique, able) = 1..Cardinality(able)
        /\ \A k \in DOMAIN Selected(unique, able) : \E i \in able : Selected(unique, able)[k] = unique[i]
    BY <1>2, SelectedElements, ZenonT(30)
  <2> QED
    BY <1>2, <1>3, <2>1
<1>5. \A k \in DOMAIN registered : registered[k] \in GateProposals /\ Executable(registered[k])
  <2>1. \A i \in able : unique[i] \in GateProposals /\ Executable(unique[i])
    BY <1>1
  <2> HIDE DEF able, registered
  <2> QED
    BY <1>4, <2>1
<1> HIDE DEF able, registered
<1>6. with \in SUBSET (1..Cardinality(able))
  BY <1>4
<1>7. /\ Cardinality(with) \in Nat /\ DOMAIN chosen = 1..Cardinality(with)
      /\ \A k \in DOMAIN chosen : \E i \in with : chosen[k] = registered[i]
  <2> HIDE DEF with
  <2> QED
    BY <1>4, <1>6, SelectedElements
<1>8. \A k \in DOMAIN chosen : /\ chosen[k] \in GateProposals /\ Executable(chosen[k])
                               /\ PolicyVerdict(chosen[k]).decision = decision
  <2> HIDE DEF chosen
  <2> QED
    BY <1>5, <1>7
<1> HIDE DEF with
<1>9. Judged(ps, decision) =
        [i \in DOMAIN chosen |-> [prop |-> [chosen[i] EXCEPT !.risk = PolicyVerdict(chosen[i]).risk],
                                  snapshot |-> Attach(chosen[i], NoSnapshot).snapshot]]
  BY DEF Judged, registered, unique, with
<1> HIDE DEF chosen
<1>10. \A k \in DOMAIN chosen : Attach(chosen[k], NoSnapshot).snapshot = Snapshot(chosen[k])
  BY <1>8 DEF Attach
<1>11. Judged(ps, decision) # <<>> => 1 \in DOMAIN chosen
  <2>1. SUFFICES ASSUME 1 \notin DOMAIN chosen PROVE Judged(ps, decision) = <<>>
    OBVIOUS
  <2>2. DOMAIN chosen = {}
    BY <1>7, <2>1
  <2> QED
    BY <1>9, <2>2
<1> QED
  BY <1>8, <1>9, <1>10, <1>11

-----------------------------------------------------------------------------
(* The approval gate: a round.                                             *)

\* An action that is approved without a human.
Harmless(r) ==
  r.prop.action \notin Destructive /\ ~RequiresHuman(r.prop.risk)

\* An action a human is asked about, as the binding will want it.
BoundToAsk(r) ==
  /\ Executable(r.prop) /\ RequiresHuman(r.prop.risk)
  /\ r.snapshot = Snapshot(r.prop)

LEMMA FreeIsHarmless ==
  ASSUME NEW ps \in Seq(GateProposals)
  PROVE  \A k \in DOMAIN Judged(ps, "auto_approve") : Harmless(Judged(ps, "auto_approve")[k])
<1> TAKE k \in DOMAIN Judged(ps, "auto_approve")
<1>1. PICK p \in GateProposals :
        /\ Executable(p)
        /\ PolicyVerdict(p).decision = "auto_approve"
        /\ Judged(ps, "auto_approve")[k] =
             [prop |-> [p EXCEPT !.risk = PolicyVerdict(p).risk], snapshot |-> Snapshot(p)]
  BY JudgedComeFromProposals
<1>2. p.params # "auto_approve" /\ p.params # "policy_blocked"
  BY <1>1 DEF Executable, GoodShapes
<1>3. p.action \notin Destructive /\ ~RequiresHuman(PolicyVerdict(p).risk)
  BY <1>1, <1>2 DEF PolicyVerdict, RequiresHuman
<1>4. /\ Judged(ps, "auto_approve")[k].prop.risk = PolicyVerdict(p).risk
      /\ Judged(ps, "auto_approve")[k].prop.action = p.action
  BY <1>1 DEF GateProposals
<1> QED
  BY <1>3, <1>4 DEF Harmless

\* The request takes the snapshots anew, of the risk the policy settled on.
LEMMA AskedIsBound ==
  ASSUME NEW ps \in Seq(GateProposals), NEW asked, asked = Judged(ps, "requires_approval"),
         NEW k \in DOMAIN asked
  PROVE  BoundToAsk(Attach(asked[k].prop, asked[k].snapshot))
<1>1. PICK p \in GateProposals :
        /\ Executable(p)
        /\ PolicyVerdict(p).decision = "requires_approval"
        /\ asked[k] = [prop |-> [p EXCEPT !.risk = PolicyVerdict(p).risk], snapshot |-> Snapshot(p)]
  BY JudgedComeFromProposals
<1>2. RequiresHuman(PolicyVerdict(p).risk)
  BY <1>1 DEF PolicyVerdict
<1>3. /\ asked[k].prop.risk = PolicyVerdict(p).risk
      /\ asked[k].prop.action = p.action /\ asked[k].prop.params = p.params
  BY <1>1 DEF GateProposals
<1>4. Executable(asked[k].prop) /\ RequiresHuman(asked[k].prop.risk)
  BY <1>1, <1>2, <1>3 DEF Executable
<1>5. Attach(asked[k].prop, asked[k].snapshot) = [prop |-> asked[k].prop, snapshot |-> Snapshot(asked[k].prop)]
  BY <1>4 DEF Attach
<1> QED
  BY <1>4, <1>5 DEF BoundToAsk

\* What may be executed at each stage, and on whose approval.
GateInv ==
  /\ gateInput \in Seq(GateProposals)
  /\ gateStage = "gate" => gateInterrupt = "none"
  /\ gateStage \in {"requested", "awaiting", "orphan"} => request # <<>>
  /\ gateInterrupt # "none" \/ decided = "approved" => request # <<>>
  /\ request # <<>> => 1 \in DOMAIN request
  /\ \A k \in DOMAIN request : BoundToAsk(request[k])
  /\ gateStage = "execute" /\ decided # "approved" => 1 \in DOMAIN autoApproved
  /\ \A k \in DOMAIN autoApproved : Harmless(autoApproved[k])
  /\ gateStage # "executed" => toolCalled = {}
  /\ NothingRiskyWithoutAHuman
  /\ ApprovedDestructionRuns

LEMMA GateStartsEmpty == GateInit => GateInv
<1> SUFFICES ASSUME GateInit PROVE GateInv
  OBVIOUS
<1>1. /\ gateInput \in Seq(GateProposals) /\ gateStage = "gate"
      /\ request = <<>> /\ gateInterrupt = "none" /\ autoApproved = <<>>
      /\ decided = "none" /\ toolCalled = {}
  BY GateAssumptions DEF GateInit
<1>2. DOMAIN <<>> = {}
  OBVIOUS
<1> QED
  BY <1>1, <1>2 DEF GateInv, NothingRiskyWithoutAHuman, ApprovedDestructionRuns

LEMMA EnterGateKeeps ==
  ASSUME GateInv, EnterGate
  PROVE  GateInv'
<1> DEFINE asked == Judged(gateInput, "requires_approval")
           free  == Judged(gateInput, "auto_approve")
<1>1. /\ gateInput \in Seq(GateProposals) /\ gateStage = "gate" /\ gateInterrupt = "none"
      /\ UNCHANGED <<gateInput, gateInterrupt, decided, toolCalled>>
      /\ autoApproved' = free
  BY DEF EnterGate, GateInv
<1>2. asked # <<>> => 1 \in DOMAIN asked
  BY <1>1, JudgedComeFromProposals
<1>3. free # <<>> => 1 \in DOMAIN free
  BY <1>1, JudgedComeFromProposals
<1>4. \A k \in DOMAIN free : Harmless(free[k])
  BY <1>1, FreeIsHarmless
<1>5. \A k \in DOMAIN asked : BoundToAsk(Attach(asked[k].prop, asked[k].snapshot))
  <2>1. SUFFICES ASSUME NEW k \in DOMAIN asked
                 PROVE  BoundToAsk(Attach(asked[k].prop, asked[k].snapshot))
    OBVIOUS
  <2> QED
    BY <1>1, AskedIsBound
<1>6. CASE asked # <<>>
  <2>1. /\ request' = [i \in DOMAIN asked |-> Attach(asked[i].prop, asked[i].snapshot)]
        /\ gateStage' = "requested"
    BY <1>6 DEF EnterGate
  <2> HIDE DEF asked, free
  <2>2. /\ DOMAIN request' = DOMAIN asked
        /\ \A k \in DOMAIN request' : BoundToAsk(request'[k])
    BY <1>5, <2>1
  <2>3. 1 \in DOMAIN request' /\ request' # <<>>
    BY <1>2, <1>6, <2>2
  <2> QED
    BY <1>1, <1>4, <2>1, <2>2, <2>3 DEF GateInv, NothingRiskyWithoutAHuman, ApprovedDestructionRuns
<1>7. CASE asked = <<>>
  <2>1. /\ gateStage' = IF free # <<>> THEN "execute" ELSE "ended"
        /\ UNCHANGED request
    BY <1>1, <1>7 DEF EnterGate
  <2> HIDE DEF asked, free
  <2> QED
    BY <1>1, <1>3, <1>4, <2>1 DEF GateInv, NothingRiskyWithoutAHuman, ApprovedDestructionRuns
<1> QED
  BY <1>6, <1>7

\* A request that a human approved meets its binding; what the policy let through needs
\* no human.
LEMMA ExecuteKeeps ==
  ASSUME GateInv, ExecuteApproved
  PROVE  GateInv'
<1> DEFINE r == IF decided = "approved" THEN request[1] ELSE autoApproved[1]
<1>1. /\ gateStage = "execute" /\ gateStage' = "executed"
      /\ toolCalled' = IF BindingHolds(r) THEN {[action |-> r.prop.action, risk |-> r.prop.risk]} ELSE {}
      /\ UNCHANGED <<gateInput, request, gateInterrupt, autoApproved, decided>>
  BY DEF ExecuteApproved
<1>2. NothingRiskyWithoutAHuman'
  <2>1. SUFFICES ASSUME decided # "approved", BindingHolds(r)
                 PROVE  ~(r.prop.action \in Destructive \/ RequiresHuman(r.prop.risk))
    BY <1>1 DEF NothingRiskyWithoutAHuman
  <2>2. Harmless(r)
    BY <1>1, <2>1 DEF GateInv
  <2> QED
    BY <2>2 DEF Harmless
<1>3. ApprovedDestructionRuns'
  <2>1. SUFFICES ASSUME decided = "approved", request[1].prop.action \in Destructive
                 PROVE  BindingHolds(request[1])
    BY <1>1 DEF ApprovedDestructionRuns
  <2>2. BoundToAsk(request[1])
    BY <2>1 DEF GateInv
  <2>3. request[1].prop.risk \in AllowedRisks(request[1].prop.action)
    BY <2>1, <2>2 DEF BoundToAsk, RequiresHuman, AllowedRisks
  <2>4. Snapshot(request[1].prop) # NoSnapshot
    <3>1. "action" \in DOMAIN Snapshot(request[1].prop) /\ "action" \notin DOMAIN NoSnapshot
      BY DEF Snapshot, NoSnapshot
    <3> QED
      BY <3>1
  <2> QED
    BY <2>2, <2>3, <2>4 DEF BoundToAsk, BindingHolds, Executable
<1> QED
  BY <1>1, <1>2, <1>3 DEF GateInv

LEMMA GateNextKeeps ==
  ASSUME GateInv, [GateNext]_gateVars
  PROVE  GateInv'
<1>1. CASE CreateInterrupt
  BY <1>1 DEF CreateInterrupt, GateInv, NothingRiskyWithoutAHuman, ApprovedDestructionRuns
<1>2. CASE DieInGate
  BY <1>2 DEF DieInGate, GateInv, NothingRiskyWithoutAHuman, ApprovedDestructionRuns
<1>3. ASSUME NEW approved \in BOOLEAN, DecideRequest(approved) PROVE GateInv'
  <2>1. /\ request # <<>> /\ toolCalled = {}
        /\ UNCHANGED <<gateInput, request, autoApproved, toolCalled>>
    BY <1>3 DEF DecideRequest, GateInv
  <2>2. gateStage' # "executed" /\ gateStage' \in {"execute", "ended"}
        /\ (gateStage' = "execute" => decided' = "approved")
    BY <1>3 DEF DecideRequest
  <2>3. NothingRiskyWithoutAHuman'
    BY <1>3, <2>1 DEF DecideRequest, GateInv, NothingRiskyWithoutAHuman
  <2> QED
    BY <2>1, <2>2, <2>3 DEF GateInv, ApprovedDestructionRuns
<1>4. CASE UNCHANGED gateVars
  BY <1>4 DEF gateVars, GateInv, NothingRiskyWithoutAHuman, ApprovedDestructionRuns
<1> QED
  BY <1>1, <1>2, <1>3, <1>4, EnterGateKeeps, ExecuteKeeps DEF GateNext

LEMMA GateInvariant == GateSpec => []GateInv
<1>1. GateInit => GateInv
  BY GateStartsEmpty
<1>2. GateInv /\ [GateNext]_gateVars => GateInv'
  BY GateNextKeeps
<1> QED
  BY <1>1, <1>2, PTL DEF GateSpec

\* Whatever the proposals, their flags, their duplicates and their risks, no tool is
\* called for an action that destroys or is risky unless a human approved it
\* (build_gate_result, ApprovalPolicy.evaluate and validate_execution_binding together).
THEOREM RiskyNeedsAHuman == GateSpec => []NothingRiskyWithoutAHuman
<1>1. GateInv => NothingRiskyWithoutAHuman
  BY DEF GateInv
<1> QED
  BY <1>1, GateInvariant, PTL

\* A destructive action that a human approved passes the binding, for the request took
\* its snapshots after the policy had raised the risks (bind_request_snapshots).
THEOREM ApprovedDestructionIsBound == GateSpec => []ApprovedDestructionRuns
<1>1. GateInv => ApprovedDestructionRuns
  BY DEF GateInv
<1> QED
  BY <1>1, GateInvariant, PTL

\* Wherever the process dies between the two commits, an interrupt that is stored is
\* about a request that is (approval_gate stores the request first).
THEOREM InterruptHasARequest == GateSpec => []InterruptNamesRequest
<1>1. GateInv => InterruptNamesRequest
  BY DEF GateInv, InterruptNamesRequest
<1> QED
  BY <1>1, GateInvariant, PTL

-----------------------------------------------------------------------------
(* The knowledge base: what memory holds after a sync.                     *)

\* A row of a document that was read, chunked as the settings say.
Fresh(row, size) == \E c : c # NoContent /\ row = [content |-> c, size |-> size]

IndexerFields == {"at", "force", "boot", "existing", "left", "read"}

\* While the documents are read one by one: those still to come are as the sync found
\* them, those done are as it read them.
DocumentsInv ==
  /\ DOMAIN indexer.read = Docs /\ indexer.left \subseteq Docs
  /\ \A d \in indexer.left : blocks[d] = indexer.existing[d]
  /\ \A d \in Docs \ indexer.left :
       \/ indexer.read[d] = NoDocument /\ blocks[d] = indexer.existing[d]
       \/ Fresh(indexer.read[d], chunkSize) /\ blocks[d] = indexer.read[d]

SyncInv ==
  /\ backend \in {"pgvector", "local"}
  /\ DOMAIN indexer = IndexerFields
  /\ blocks = documents /\ DOMAIN blocks = Docs
  /\ indexer.at \in {"idle", "reading", "embedding", "loading"}
  /\ backend = "local" => indexer.at \in {"idle", "embedding"}
  /\ backend = "local" /\ indexer.at = "embedding" =>
       /\ DOMAIN indexer.read = Docs
       /\ \A d \in Docs : \E c : indexer.read[d] = [content |-> c, size |-> chunkSize]
  /\ backend = "pgvector" /\ indexer.at = "reading" =>
       DocumentsInv /\ \A d \in indexer.left : indexer.read[d] = NoDocument
  /\ backend = "pgvector" /\ indexer.at = "embedding" =>
       /\ DocumentsInv
       /\ NextDoc \in indexer.left /\ Fresh(indexer.read[NextDoc], chunkSize)
       /\ \A d \in indexer.left \ {NextDoc} : indexer.read[d] = NoDocument
  /\ backend = "pgvector" /\ indexer.at = "loading" =>
       /\ DOMAIN indexer.read = Docs
       /\ \A d \in Docs : blocks[d] = indexer.read[d]
       /\ \A d \in Docs : indexer.read[d] = NoDocument \/ Fresh(indexer.read[d], chunkSize)
  /\ SyncedIsWhatWasRead

\* No file, or no text in it: no chunk, whatever the settings.
LEMMA SameChunks ==
  ASSUME NEW read, NEW size,
         \A d \in Docs : \/ read[d] = NoDocument
                         \/ \E c : read[d] = [content |-> c, size |-> size]
  PROVE  LoadChunks(read) =
           LoadChunks([d \in Docs |-> IF read[d].content = NoContent THEN NoDocument
                                      ELSE [content |-> read[d].content, size |-> size]])
<1> DEFINE f == [d \in Docs |-> IF read[d].content = NoContent THEN NoDocument
                                ELSE [content |-> read[d].content, size |-> size]]
<1>1. ASSUME NEW d \in Docs PROVE ChunksOf(d, read[d]) = ChunksOf(d, f[d])
  <2>1. CASE read[d].content = NoContent
    <3>1. f[d] = NoDocument /\ NoDocument.content = NoContent
      BY <2>1 DEF NoDocument
    <3> HIDE DEF f
    <3>2. f[d].content = NoContent
      BY <3>1
    <3> QED
      BY <2>1, <3>2 DEF ChunksOf
  <2>2. CASE read[d].content # NoContent
    <3>1. read[d] # NoDocument
      BY <2>2 DEF NoDocument
    <3>2. PICK c : read[d] = [content |-> c, size |-> size]
      BY <3>1
    <3>3. f[d] = [content |-> c, size |-> size]
      BY <2>2, <3>2
    <3> QED
      BY <3>2, <3>3
  <2> QED
    BY <2>1, <2>2
<1>2. [d \in Docs |-> ChunksOf(d, read[d])] = [d \in Docs |-> ChunksOf(d, f[d])]
  <2> HIDE DEF f
  <2> QED
    BY <1>1
<1> QED
  BY <1>2 DEF LoadChunks

LEMMA KbStartsUnsynced == KbInit => SyncInv
<1> SUFFICES ASSUME KbInit PROVE SyncInv
  OBVIOUS
<1>1. indexer.at = "idle" /\ DOMAIN indexer = IndexerFields
  BY DEF KbInit, NoIndexer, IndexerFields
<1> QED
  BY <1>1 DEF KbInit, SyncInv, SyncedIsWhatWasRead

\* The build begins with everything as it is in the tables.
LEMMA BuildingStarts ==
  ASSUME SyncInv, NEW force, NEW boot, indexer' = Building(force, boot, chunkSize'),
         UNCHANGED <<backend, documents, blocks>>, SyncedIsWhatWasRead'
  PROVE  SyncInv'
<1>1. /\ DOMAIN indexer' = IndexerFields
      /\ indexer'.at = IF backend = "local" THEN "embedding" ELSE "reading"
      /\ indexer'.existing = documents /\ indexer'.left = Present
      /\ indexer'.read = IF backend = "local" THEN SourceFiles(chunkSize') ELSE [d \in Docs |-> NoDocument]
  BY DEF Building, IndexerFields
<1>2. CASE backend = "local"
  <2>1. \A d \in Docs : SourceFiles(chunkSize')[d] = [content |-> kbFiles[d], size |-> chunkSize']
    BY DEF SourceFiles
  <2>2. DOMAIN SourceFiles(chunkSize') = Docs
    BY DEF SourceFiles
  <2> QED
    BY <1>1, <1>2, <2>1, <2>2 DEF SyncInv
<1>3. CASE backend = "pgvector"
  <2>1. indexer'.left \subseteq Docs
    BY <1>1 DEF Present
  <2>2. DocumentsInv' /\ \A d \in Docs : indexer'.read[d] = NoDocument
    BY <1>1, <1>3, <2>1 DEF DocumentsInv, SyncInv
  <2> QED
    BY <1>1, <1>3, <2>1, <2>2 DEF SyncInv
<1> QED
  BY <1>2, <1>3 DEF SyncInv

\* Whatever leaves the index alone.
LEMMA IndexUntouched ==
  ASSUME SyncInv, UNCHANGED <<backend, documents, blocks, chunkSize, serving, memory, indexer, lastSync>>
  PROVE  SyncInv'
BY ZenonT(30) DEF SyncInv, DocumentsInv, Fresh, NextDoc, SyncedIsWhatWasRead

LEMMA NextDocIsLeft ==
  ASSUME indexer.left \subseteq Docs, indexer.left # {}
  PROVE  NextDoc \in indexer.left
<1>1. \E d \in indexer.left : \A e \in indexer.left : d <= e
  BY LeastNumber DEF Docs
<1> QED
  BY <1>1 DEF NextDoc

\* A document that is up to date is done with: its row is what was read.
LEMMA ReadDocumentKeeps ==
  ASSUME SyncInv, ReadDocument
  PROVE  SyncInv'
<1> DEFINE row == [content |-> kbFiles[NextDoc], size |-> chunkSize]
<1>1. /\ indexer.at = "reading" /\ indexer.left # {} /\ kbFiles[NextDoc] # NoContent
      /\ indexer' = [indexer EXCEPT
           !.read[NextDoc] = row,
           !.at = IF UpToDate(NextDoc) THEN "reading" ELSE "embedding",
           !.left = IF UpToDate(NextDoc) THEN @ \ {NextDoc} ELSE @]
      /\ UNCHANGED <<backend, documents, blocks, chunkSize, serving, memory, lastSync>>
  BY DEF ReadDocument
<1>2. /\ backend = "pgvector" /\ DOMAIN indexer = IndexerFields
      /\ DocumentsInv /\ \A d \in indexer.left : indexer.read[d] = NoDocument
  BY <1>1 DEF SyncInv
<1>3. NextDoc \in indexer.left /\ NextDoc \in Docs
  BY <1>1, <1>2, NextDocIsLeft DEF DocumentsInv
<1>4. Fresh(row, chunkSize)
  BY <1>1 DEF Fresh
<1> PICK n : n = NextDoc
  OBVIOUS
<1> HIDE DEF row
<1>5. /\ DOMAIN indexer' = IndexerFields /\ indexer'.existing = indexer.existing
      /\ indexer'.read = [indexer.read EXCEPT ![n] = row]
      /\ indexer'.at = IF UpToDate(n) THEN "reading" ELSE "embedding"
      /\ indexer'.left = IF UpToDate(n) THEN indexer.left \ {n} ELSE indexer.left
  BY <1>1, <1>2 DEF IndexerFields
<1>6. /\ DOMAIN indexer'.read = Docs /\ indexer'.read[n] = row
      /\ \A d \in Docs \ {n} : indexer'.read[d] = indexer.read[d]
  BY <1>2, <1>3, <1>5 DEF DocumentsInv
<1>7. Fresh(row, chunkSize')
  BY <1>1, <1>4 DEF Fresh, row
<1>8. CASE UpToDate(n)
  <2>1. indexer.existing[n] = row
    BY <1>8 DEF UpToDate, row
  <2>2. blocks[n] = row
    BY <1>2, <1>3, <2>1 DEF DocumentsInv
  <2>3. indexer'.at = "reading" /\ indexer'.left = indexer.left \ {n}
    BY <1>5, <1>8
  <2>4. \A d \in Docs \ indexer'.left :
          \/ indexer'.read[d] = NoDocument /\ blocks'[d] = indexer'.existing[d]
          \/ Fresh(indexer'.read[d], chunkSize') /\ blocks'[d] = indexer'.read[d]
    <3> SUFFICES ASSUME NEW d \in Docs \ indexer'.left
                 PROVE  \/ indexer'.read[d] = NoDocument /\ blocks'[d] = indexer'.existing[d]
                        \/ Fresh(indexer'.read[d], chunkSize') /\ blocks'[d] = indexer'.read[d]
      OBVIOUS
    <3>1. CASE d = n
      <4>1. indexer'.read[d] = row /\ blocks'[d] = row
        BY <1>1, <1>6, <2>2, <3>1
      <4>2. \E c : c # NoContent /\ indexer'.read[d] = [content |-> c, size |-> chunkSize']
        BY <1>1, <1>4, <4>1 DEF Fresh
      <4> QED
        BY <4>1, <4>2 DEF Fresh
    <3>2. CASE d # n
      <4>1. d \in Docs \ indexer.left /\ indexer'.read[d] = indexer.read[d]
        BY <1>6, <2>3, <3>2
      <4>2. \/ indexer.read[d] = NoDocument /\ blocks[d] = indexer.existing[d]
            \/ Fresh(indexer.read[d], chunkSize) /\ blocks[d] = indexer.read[d]
        BY <1>2, <4>1 DEF DocumentsInv
      <4>3. /\ blocks'[d] = blocks[d] /\ indexer'.existing[d] = indexer.existing[d]
            /\ indexer'.read[d] = indexer.read[d] /\ chunkSize' = chunkSize
        BY <1>1, <1>5, <4>1
      <4> QED
        BY <4>2, <4>3
    <3> QED
      BY <3>1, <3>2
  <2>5. DocumentsInv'
    BY <1>1, <1>2, <1>5, <1>6, <2>3, <2>4 DEF DocumentsInv
  <2>6. \A d \in indexer'.left : indexer'.read[d] = NoDocument
    BY <1>2, <1>6, <2>3 DEF DocumentsInv
  <2> QED
    BY <1>1, <1>2, <1>5, <2>3, <2>5, <2>6 DEF SyncInv, SyncedIsWhatWasRead
<1>9. CASE ~UpToDate(n)
  <2>1. indexer'.at = "embedding" /\ indexer'.left = indexer.left
    BY <1>5, <1>9
  <2>2. NextDoc' = n
    BY <2>1 DEF NextDoc
  <2>3. \A d \in Docs \ indexer'.left :
          \/ indexer'.read[d] = NoDocument /\ blocks'[d] = indexer'.existing[d]
          \/ Fresh(indexer'.read[d], chunkSize') /\ blocks'[d] = indexer'.read[d]
    <3> SUFFICES ASSUME NEW d \in Docs \ indexer'.left
                 PROVE  \/ indexer'.read[d] = NoDocument /\ blocks'[d] = indexer'.existing[d]
                        \/ Fresh(indexer'.read[d], chunkSize') /\ blocks'[d] = indexer'.read[d]
      OBVIOUS
    <3>1. d \in Docs \ indexer.left /\ indexer'.read[d] = indexer.read[d]
      BY <1>3, <1>6, <2>1
    <3>2. \/ indexer.read[d] = NoDocument /\ blocks[d] = indexer.existing[d]
          \/ Fresh(indexer.read[d], chunkSize) /\ blocks[d] = indexer.read[d]
      BY <1>2, <3>1 DEF DocumentsInv
    <3>3. /\ blocks'[d] = blocks[d] /\ indexer'.existing[d] = indexer.existing[d]
          /\ indexer'.read[d] = indexer.read[d] /\ chunkSize' = chunkSize
      BY <1>1, <1>5, <3>1
    <3> QED
      BY <3>2, <3>3
  <2>4. DocumentsInv'
    BY <1>1, <1>2, <1>5, <1>6, <2>1, <2>3 DEF DocumentsInv
  <2>5. \A d \in indexer'.left \ {n} : indexer'.read[d] = NoDocument
    BY <1>2, <1>6, <2>1 DEF DocumentsInv
  <2>6. n \in indexer'.left /\ \E c : c # NoContent /\ indexer'.read[n] = [content |-> c, size |-> chunkSize']
    BY <1>1, <1>3, <1>4, <1>6, <2>1 DEF Fresh
  <2>7. (NextDoc \in indexer.left)' /\ Fresh(indexer.read[NextDoc], chunkSize)'
        /\ (\A d \in indexer.left \ {NextDoc} : indexer.read[d] = NoDocument)'
    BY <2>2, <2>5, <2>6 DEF Fresh
  <2> QED
    BY <1>1, <1>2, <1>5, <2>1, <2>4, <2>7 DEF SyncInv, SyncedIsWhatWasRead
<1> QED
  BY <1>8, <1>9

\* The row becomes what was read of the document, in the same commit as its blocks.
LEMMA UpsertDocumentKeeps ==
  ASSUME SyncInv, UpsertDocument
  PROVE  SyncInv'
<1> PICK n : n = NextDoc
  OBVIOUS
<1>1. /\ backend = "pgvector" /\ indexer.at = "embedding"
      /\ documents' = [documents EXCEPT ![n] = indexer.read[n]]
      /\ blocks' = [blocks EXCEPT ![n] = indexer.read[n]]
      /\ indexer' = [indexer EXCEPT !.at = "reading", !.left = @ \ {n}]
      /\ UNCHANGED <<backend, chunkSize, serving, memory, lastSync>>
  BY DEF UpsertDocument
<1>2. /\ DOMAIN indexer = IndexerFields /\ blocks = documents /\ DOMAIN blocks = Docs
      /\ DocumentsInv /\ n \in indexer.left /\ Fresh(indexer.read[n], chunkSize)
      /\ \A d \in indexer.left \ {n} : indexer.read[d] = NoDocument
  BY <1>1 DEF SyncInv
<1>3. /\ DOMAIN indexer' = IndexerFields
      /\ indexer'.at = "reading" /\ indexer'.left = indexer.left \ {n}
      /\ indexer'.existing = indexer.existing /\ indexer'.read = indexer.read
  BY <1>1, <1>2 DEF IndexerFields
<1>4. /\ blocks' = documents' /\ DOMAIN blocks' = Docs /\ n \in Docs
      /\ blocks'[n] = indexer.read[n] /\ \A d \in Docs \ {n} : blocks'[d] = blocks[d]
  BY <1>1, <1>2 DEF DocumentsInv
<1>5. \A d \in Docs \ indexer'.left :
        \/ indexer'.read[d] = NoDocument /\ blocks'[d] = indexer'.existing[d]
        \/ Fresh(indexer'.read[d], chunkSize') /\ blocks'[d] = indexer'.read[d]
  <2> SUFFICES ASSUME NEW d \in Docs \ indexer'.left
               PROVE  \/ indexer'.read[d] = NoDocument /\ blocks'[d] = indexer'.existing[d]
                      \/ Fresh(indexer'.read[d], chunkSize') /\ blocks'[d] = indexer'.read[d]
    OBVIOUS
  <2>1. CASE d = n
    BY <1>1, <1>2, <1>3, <1>4, <2>1 DEF Fresh
  <2>2. CASE d # n
    <3>1. d \in Docs \ indexer.left /\ blocks'[d] = blocks[d]
      BY <1>3, <1>4, <2>2
    <3>2. \/ indexer.read[d] = NoDocument /\ blocks[d] = indexer.existing[d]
          \/ Fresh(indexer.read[d], chunkSize) /\ blocks[d] = indexer.read[d]
      BY <1>2, <3>1 DEF DocumentsInv
    <3>3. /\ blocks'[d] = blocks[d] /\ indexer'.existing[d] = indexer.existing[d]
          /\ indexer'.read[d] = indexer.read[d] /\ chunkSize' = chunkSize
      BY <1>1, <1>3, <3>1
    <3> QED
      BY <3>2, <3>3
  <2> QED
    BY <2>1, <2>2
<1>6. DocumentsInv'
  BY <1>2, <1>3, <1>4, <1>5 DEF DocumentsInv
<1> QED
  BY <1>1, <1>2, <1>3, <1>4, <1>6 DEF SyncInv, SyncedIsWhatWasRead

\* After the deletions the tables are what the sync read.
LEMMA DeleteDocumentsKeeps ==
  ASSUME SyncInv, DeleteDocuments
  PROVE  SyncInv'
<1> DEFINE gone == {d \in Docs : indexer.existing[d] # NoDocument /\ indexer.read[d] = NoDocument}
<1>1. /\ indexer.at = "reading" /\ indexer.left = {}
      /\ documents' = [d \in Docs |-> IF d \in gone THEN NoDocument ELSE documents[d]]
      /\ blocks' = [d \in Docs |-> IF d \in gone THEN NoDocument ELSE blocks[d]]
      /\ indexer' = [indexer EXCEPT !.at = "loading"]
      /\ UNCHANGED <<backend, chunkSize, serving, memory, lastSync>>
  BY DEF DeleteDocuments
<1>2. /\ backend = "pgvector" /\ DOMAIN indexer = IndexerFields /\ blocks = documents
      /\ DocumentsInv
  BY <1>1 DEF SyncInv
<1>3. /\ DOMAIN indexer' = IndexerFields /\ indexer'.at = "loading" /\ indexer'.read = indexer.read
  BY <1>1, <1>2 DEF IndexerFields
<1>4. blocks' = documents' /\ DOMAIN blocks' = Docs
  BY <1>1, <1>2
<1>5. ASSUME NEW d \in Docs
      PROVE  blocks'[d] = indexer.read[d] /\ (indexer.read[d] = NoDocument \/ Fresh(indexer.read[d], chunkSize))
  <2>1. \/ indexer.read[d] = NoDocument /\ blocks[d] = indexer.existing[d]
        \/ Fresh(indexer.read[d], chunkSize) /\ blocks[d] = indexer.read[d]
    BY <1>1, <1>2 DEF DocumentsInv
  <2>2. CASE indexer.read[d] = NoDocument /\ blocks[d] = indexer.existing[d]
    BY <1>1, <2>2
  <2>3. CASE Fresh(indexer.read[d], chunkSize) /\ blocks[d] = indexer.read[d]
    <3>1. indexer.read[d].content # NoContent
      BY <2>3 DEF Fresh
    <3>2. indexer.read[d] # NoDocument
      BY <3>1 DEF NoDocument
    <3> QED
      BY <1>1, <2>3, <3>2
  <2> QED
    BY <2>1, <2>2, <2>3
<1>6. \A d \in Docs : indexer'.read[d] = NoDocument \/ Fresh(indexer'.read[d], chunkSize')
  BY <1>1, <1>3, <1>5 DEF Fresh
<1> QED
  BY <1>1, <1>2, <1>3, <1>4, <1>5, <1>6 DEF SyncInv, DocumentsInv, SyncedIsWhatWasRead

\* The sync ends with what it read in memory.
LEMMA SyncEnds ==
  ASSUME SyncInv, EndSync, UNCHANGED <<backend, documents, blocks>>,
         memory'.chunks = LoadChunks(indexer.read),
         \A d \in Docs : \/ indexer.read[d] = NoDocument
                         \/ \E c : indexer.read[d] = [content |-> c, size |-> chunkSize]
  PROVE  SyncInv'
<1>1. indexer'.at = "idle" /\ DOMAIN indexer' = IndexerFields
  BY DEF EndSync, NoIndexer, IndexerFields
<1>2. lastSync'.read = indexer.read /\ lastSync'.size = chunkSize
  BY DEF EndSync
<1>3. SyncedIsWhatWasRead'
  <2>1. memory'.chunks =
          LoadChunks([d \in Docs |-> IF indexer.read[d].content = NoContent THEN NoDocument
                                     ELSE [content |-> indexer.read[d].content, size |-> chunkSize]])
    BY SameChunks
  <2> QED
    BY <1>2, <2>1 DEF SyncedIsWhatWasRead
<1> QED
  BY <1>1, <1>3 DEF SyncInv

LEMMA LoadTablesKeeps ==
  ASSUME SyncInv, LoadTables
  PROVE  SyncInv'
<1>1. /\ indexer.at = "loading" /\ memory'.chunks = LoadChunks(blocks)
      /\ EndSync /\ UNCHANGED <<backend, documents, blocks>>
  BY DEF LoadTables, Load
<1>2. /\ DOMAIN indexer.read = Docs /\ DOMAIN blocks = Docs
      /\ \A d \in Docs : blocks[d] = indexer.read[d]
      /\ \A d \in Docs : indexer.read[d] = NoDocument \/ Fresh(indexer.read[d], chunkSize)
  BY <1>1 DEF SyncInv
<1>3. [d \in Docs |-> ChunksOf(d, blocks[d])] = [d \in Docs |-> ChunksOf(d, indexer.read[d])]
  BY <1>2
<1>4. LoadChunks(blocks) = LoadChunks(indexer.read)
  BY <1>3 DEF LoadChunks
<1>5. \A d \in Docs : \/ indexer.read[d] = NoDocument
                      \/ \E c : indexer.read[d] = [content |-> c, size |-> chunkSize]
  BY <1>2 DEF Fresh
<1> QED
  BY <1>1, <1>4, <1>5, SyncEnds

LEMMA WriteIndexKeeps ==
  ASSUME SyncInv, WriteIndex
  PROVE  SyncInv'
<1>1. /\ backend = "local" /\ indexer.at = "embedding"
      /\ memory'.chunks = LoadChunks(indexer.read)
      /\ EndSync /\ UNCHANGED <<backend, documents, blocks>>
  BY DEF WriteIndex, Load
<1>2. \A d \in Docs : \E c : indexer.read[d] = [content |-> c, size |-> chunkSize]
  BY <1>1 DEF SyncInv
<1> QED
  BY <1>1, <1>2, SyncEnds

\* A process that starts has not synced yet.
LEMMA BootKeeps ==
  ASSUME SyncInv, NEW size, NEW auto, Boot(size, auto)
  PROVE  SyncInv'
<1>1. /\ chunkSize' = size /\ indexer = NoIndexer /\ lastSync' = NoSync
      /\ UNCHANGED <<backend, documents, blocks>>
      /\ indexer' = Building(FALSE, TRUE, size) \/ UNCHANGED indexer
  BY Zenon DEF Boot
<1>2. SyncedIsWhatWasRead'
  BY <1>1 DEF SyncedIsWhatWasRead
<1>3. CASE indexer' = Building(FALSE, TRUE, size)
  BY <1>1, <1>2, <1>3, BuildingStarts
<1>4. CASE UNCHANGED indexer
  <2>1. indexer'.at = "idle"
    BY <1>1, <1>4 DEF NoIndexer
  <2> QED
    BY <1>1, <1>2, <1>4, <2>1 DEF SyncInv
<1> QED
  BY <1>1, <1>3, <1>4

\* A sync that fails, and a process that dies, leave no build behind.
LEMMA NoBuildLeft ==
  ASSUME SyncInv, SyncFails \/ RagDies
  PROVE  SyncInv'
<1>1. /\ indexer' = NoIndexer /\ UNCHANGED <<backend, documents, blocks, lastSync>>
      /\ UNCHANGED <<serving, memory>> \/ serving' = FALSE
  BY DEF SyncFails, RagDies
<1>2. indexer'.at = "idle" /\ DOMAIN indexer' = IndexerFields
  BY <1>1 DEF NoIndexer, IndexerFields
<1>3. SyncedIsWhatWasRead'
  BY <1>1 DEF SyncInv, SyncedIsWhatWasRead
<1> QED
  BY <1>1, <1>2, <1>3 DEF SyncInv

LEMMA KbNextKeeps ==
  ASSUME SyncInv, [KbNext]_kbVars
  PROVE  SyncInv'
<1>1. ASSUME NEW d \in Docs, EditFile(d) PROVE SyncInv'
  BY <1>1, IndexUntouched DEF EditFile
<1>2. ASSUME NEW force \in BOOLEAN, StartSync(force) PROVE SyncInv'
  <2>1. /\ indexer' = Building(force, FALSE, chunkSize')
        /\ UNCHANGED <<backend, documents, blocks, serving, memory, lastSync>>
    BY <1>2 DEF StartSync
  <2>2. SyncedIsWhatWasRead'
    BY <2>1 DEF SyncInv, SyncedIsWhatWasRead
  <2> QED
    BY <2>1, <2>2, BuildingStarts
<1>3. ASSUME NEW s \in Searchers,
             StartSearch(s) \/ EmbedQuery(s) \/ DenseSearch(s) \/ MapRows(s) \/ HydrateParents(s)
      PROVE  SyncInv'
  <2>1. \E next : Step(s, next)
    BY <1>3, Zenon DEF StartSearch, EmbedQuery, DenseSearch, MapRows, HydrateParents
  <2> QED
    BY <2>1, IndexUntouched DEF Step
<1>4. CASE UNCHANGED kbVars
  BY <1>4, IndexUntouched DEF kbVars
<1> QED
  BY <1>1, <1>2, <1>3, <1>4, BootKeeps, ReadDocumentKeeps, UpsertDocumentKeeps, DeleteDocumentsKeeps,
     LoadTablesKeeps, WriteIndexKeeps, NoBuildLeft DEF KbNext

\* However often files change, syncs fail half way and the service restarts: after a sync
\* memory holds what that sync read, of every document, chunked by the running settings
\* (_sync_index, its skipped documents and its deletions).
THEOREM MemoryIsWhatWasRead == KbSpec => []SyncedIsWhatWasRead
<1>1. KbInit => SyncInv
  BY KbStartsUnsynced
<1>2. SyncInv /\ [KbNext]_kbVars => SyncInv'
  BY KbNextKeeps
<1>3. SyncInv => SyncedIsWhatWasRead
  BY DEF SyncInv
<1> QED
  BY <1>1, <1>2, <1>3, PTL DEF KbSpec

-----------------------------------------------------------------------------
(* The diagnosis by rules: what three confirmations are worth.             *)

\* R orders S strictly and totally.
StrictlyOrders(R, S) ==
  /\ \A x \in S : <<x, x>> \notin R
  /\ \A x, y, z \in S : <<x, y>> \in R /\ <<y, z>> \in R => <<x, z>> \in R
  /\ \A x, y \in S : x # y => <<x, y>> \in R \/ <<y, x>> \in R

\* In a finite set that is ordered strictly, whatever comes before x comes before
\* all that x comes before, and so does x.
LEMMA MoreComesBefore ==
  ASSUME NEW S, IsFiniteSet(S), NEW R, StrictlyOrders(R, S),
         NEW x \in S, NEW y \in S, <<x, y>> \in R
  PROVE  Cardinality({z \in S : <<z, x>> \in R}) < Cardinality({z \in S : <<z, y>> \in R})
<1> DEFINE B(v) == {z \in S : <<z, v>> \in R}
<1>1. IsFiniteSet(B(x)) /\ IsFiniteSet(B(y))
  BY FS_Subset
<1>2. x \notin B(x) /\ B(x) \cup {x} \subseteq B(y)
  BY DEF StrictlyOrders
<1> HIDE DEF B
<1>3. Cardinality(B(x) \cup {x}) = Cardinality(B(x)) + 1
  BY <1>1, <1>2, FS_AddElement
<1>4. Cardinality(B(x) \cup {x}) <= Cardinality(B(y))
  BY <1>1, <1>2, FS_Subset
<1>5. Cardinality(B(x)) \in Nat /\ Cardinality(B(y)) \in Nat
  BY <1>1, FS_CardinalityType
<1>6. Cardinality(B(x)) < Cardinality(B(y))
  BY <1>3, <1>4, <1>5
<1> QED
  BY <1>6 DEF B

\* So if the order is total, every place is somebody's.
LEMMA PlacesAreTaken ==
  ASSUME NEW S, IsFiniteSet(S), NEW R, StrictlyOrders(R, S),
         NEW k \in Nat, k < Cardinality(S)
  PROVE  \E x \in S : Cardinality({z \in S : <<z, x>> \in R}) = k
<1> DEFINE B(v) == {z \in S : <<z, v>> \in R}
           n == Cardinality(S)
           T == (0..(n - 1)) \ {k}
           f == [x \in S |-> Cardinality(B(x))]
<1>1. n \in Nat
  BY FS_CardinalityType
<1>2. ASSUME NEW x \in S PROVE Cardinality(B(x)) \in 0..(n - 1)
  <2>1. IsFiniteSet(S \ {x}) /\ Cardinality(S \ {x}) = n - 1
    BY FS_RemoveElement
  <2>2. B(x) \subseteq S \ {x}
    BY DEF StrictlyOrders
  <2> HIDE DEF B
  <2>3. IsFiniteSet(B(x)) /\ Cardinality(B(x)) <= Cardinality(S \ {x})
    BY <2>1, <2>2, FS_Subset
  <2>4. Cardinality(B(x)) \in Nat
    BY <2>3, FS_CardinalityType
  <2> QED
    BY <1>1, <2>1, <2>3, <2>4
<1>3. ASSUME NEW x \in S, NEW y \in S, x # y PROVE f[x] # f[y]
  <2>1. CASE <<x, y>> \in R
    <3>1. Cardinality(B(x)) < Cardinality(B(y))
      BY <2>1, MoreComesBefore
    <3> QED
      BY <1>2, <3>1
  <2>2. CASE <<y, x>> \in R
    <3>1. Cardinality(B(y)) < Cardinality(B(x))
      BY <2>2, MoreComesBefore
    <3> QED
      BY <1>2, <3>1
  <2> QED
    BY <1>3, <2>1, <2>2 DEF StrictlyOrders
<1>4. IsFiniteSet(T) /\ Cardinality(T) = n - 1
  <2>1. IsFiniteSet(0..(n - 1)) /\ Cardinality(0..(n - 1)) = n
    <3>1. 0 \in Int /\ n - 1 \in Int /\ (IF 0 > n - 1 THEN 0 ELSE (n - 1) - 0 + 1) = n
      BY <1>1
    <3> QED
      BY <3>1, FS_Interval
  <2>2. k \in 0..(n - 1)
    BY <1>1
  <2> QED
    BY <2>1, <2>2, FS_RemoveElement
<1>5. ASSUME \A x \in S : Cardinality(B(x)) # k PROVE FALSE
  <2>1. f \in [S -> T]
    BY <1>2, <1>5
  <2>2. n - 1 < n
    BY <1>1
  <2> HIDE DEF f, T
  <2>3. \E x, y \in S : x # y /\ f[x] = f[y]
    BY <1>4, <2>1, <2>2, FS_PigeonHole
  <2> QED
    BY <1>3, <2>3
<1> QED
  BY <1>5

\* A hypothesis that begins with little is a playbook's or has two checks at most;
\* one that begins with very much is a playbook's.
RuleActions == {NoAction, "rollback_release", "restart_pods", "observe_service"}

RuleHypotheses ==
  {h \in [id : HypothesisIds, prior : 550..860, tools : Seq(RuleTools), action : RuleActions] :
     /\ h.prior < 680 => (h.id = "playbook" /\ h.prior >= 620) \/ Len(h.tools) <= 2
     /\ h.prior > 840 => h.id = "playbook"
     /\ h.tools # <<>>}

LEMMA HypothesisIsOne ==
  ASSUME NEW id \in HypothesisIds, NEW prior \in 550..860, NEW tools \in Seq(RuleTools),
         NEW action \in RuleActions, tools # <<>>,
         prior < 680 => (id = "playbook" /\ prior >= 620) \/ Len(tools) <= 2,
         prior > 840 => id = "playbook"
  PROVE  Hypothesis(id, prior, tools, action) \in RuleHypotheses
<1> DEFINE h == [id |-> id, prior |-> prior, tools |-> tools, action |-> action]
<1>1. /\ h \in [id : HypothesisIds, prior : 550..860, tools : Seq(RuleTools), action : RuleActions]
      /\ h.id = id /\ h.prior = prior /\ h.tools = tools
  OBVIOUS
<1>2. Hypothesis(id, prior, tools, action) = h
  BY DEF Hypothesis
<1> HIDE DEF h
<1> QED
  BY <1>1, <1>2 DEF RuleHypotheses

LEMMA ElementOf ==
  ASSUME NEW S, NEW s \in Seq(S), NEW i \in 1..Len(s)
  PROVE  s[i] \in S
OBVIOUS

\* The first n of a list that is not empty.
LEMMA FirstFew ==
  ASSUME NEW S, NEW s \in Seq(S), s # <<>>, NEW n \in Nat \ {0}
  PROVE  LET few == SubSeq(s, 1, IF Len(s) < n THEN Len(s) ELSE n)
         IN  few \in Seq(S) /\ few # <<>>
<1> DEFINE m == IF Len(s) < n THEN Len(s) ELSE n
<1>1. m \in 1..Len(s)
  OBVIOUS
<1> HIDE DEF m
<1>2. /\ SubSeq(s, 1, m) \in Seq(S) /\ Len(SubSeq(s, 1, m)) = m
  BY <1>1
<1>3. SubSeq(s, 1, m) # <<>>
  BY <1>1, <1>2
<1> QED
  BY <1>2, <1>3 DEF m

LEMMA NoneOrOne ==
  ASSUME NEW S, NEW a \in S, NEW b \in S, NEW s, s = <<>> \/ s = <<a>> \/ s = <<b>>
  PROVE  s \in Seq(S)
<1>1. <<>> \in Seq(S) /\ <<a>> \in Seq(S) /\ <<b>> \in Seq(S)
  OBVIOUS
<1> QED
  BY <1>1, Zenon

LEMMA NamedHypotheses ==
  ASSUME NEW c
  PROVE  /\ DeployHypothesis(c) \in Seq(RuleHypotheses)
         /\ NetworkHypothesis(c) \in Seq(RuleHypotheses)
         /\ DatabaseHypothesis(c) \in Seq(RuleHypotheses)
         /\ PodHypothesis(c) \in Seq(RuleHypotheses)
         /\ <<Hypothesis("generic", 550, <<"health", "alerts">>, NoAction)>> \in Seq(RuleHypotheses)
         /\ <<Hypothesis("observe", 700, <<"health", "alerts">>, "observe_service")>>
              \in Seq(RuleHypotheses)
<1> DEFINE six == <<"health", "deployments", "rollout", "pipeline", "changes", "rollbacks">>
           network == <<"ingress", "vpc", "upstream">>
           database == <<"instance", "pool", "queries">>
           pod == <<"pods", "logs", "events">>
           two == <<"health", "alerts">>
           deployed(p, a) == Hypothesis("deploy", p, six, a)
           n == Hypothesis("network", 700, network, NoAction)
           d == Hypothesis("database", 680, database, NoAction)
           podded(a) == Hypothesis("pod", 720, pod, a)
           g == Hypothesis("generic", 550, two, NoAction)
           o == Hypothesis("observe", 700, two, "observe_service")
<1>1. /\ six \in Seq(RuleTools) /\ six # <<>> /\ network \in Seq(RuleTools) /\ network # <<>>
      /\ database \in Seq(RuleTools) /\ database # <<>> /\ pod \in Seq(RuleTools) /\ pod # <<>>
      /\ two \in Seq(RuleTools) /\ two # <<>> /\ Len(two) <= 2
  BY DEF RuleTools
<1>2. {"deploy", "network", "database", "pod", "generic", "observe"} \subseteq HypothesisIds
  BY DEF HypothesisIds
<1>3. {NoAction, "rollback_release", "restart_pods", "observe_service"} \subseteq RuleActions
  BY DEF RuleActions
<1> HIDE DEF six, network, database, pod, two
<1>4. deployed(840, "rollback_release") \in RuleHypotheses
  BY <1>1, <1>2, <1>3, HypothesisIsOne
<1>5. deployed(760, NoAction) \in RuleHypotheses
  BY <1>1, <1>2, <1>3, HypothesisIsOne
<1>6. n \in RuleHypotheses
  BY <1>1, <1>2, <1>3, HypothesisIsOne
<1>7. d \in RuleHypotheses
  BY <1>1, <1>2, <1>3, HypothesisIsOne
<1>8. podded("restart_pods") \in RuleHypotheses /\ podded(NoAction) \in RuleHypotheses
  <2>1. podded("restart_pods") \in RuleHypotheses
    BY <1>1, <1>2, <1>3, HypothesisIsOne
  <2>2. podded(NoAction) \in RuleHypotheses
    BY <1>1, <1>2, <1>3, HypothesisIsOne
  <2> QED
    BY <2>1, <2>2
<1>9. g \in RuleHypotheses
  BY <1>1, <1>2, <1>3, HypothesisIsOne
<1>10. o \in RuleHypotheses
  BY <1>1, <1>2, <1>3, HypothesisIsOne
<1>11. DeployHypothesis(c) \in Seq(RuleHypotheses)
  <2>1. \/ DeployHypothesis(c) = <<>>
        \/ DeployHypothesis(c) = <<deployed(840, "rollback_release")>>
        \/ DeployHypothesis(c) = <<deployed(760, NoAction)>>
    <3> DEFINE spoke == \/ "deploy" \in c.words
                        \/ "cicd" \in c.domains /\ c.words \cap {"pod", "network", "database"} = {}
               of == deployed(IF "rollback" \in c.words THEN 840 ELSE 760,
                              IF "rollback" \in c.words THEN "rollback_release" ELSE NoAction)
    <3>1. DeployHypothesis(c) = IF spoke THEN <<of>> ELSE <<>>
      BY DEF DeployHypothesis, six
    <3>2. of = deployed(840, "rollback_release") \/ of = deployed(760, NoAction)
      <4>1. CASE "rollback" \in c.words
        BY <4>1
      <4>2. CASE "rollback" \notin c.words
        BY <4>2
      <4> QED
        BY <4>1, <4>2
    <3> HIDE DEF spoke, of, deployed
    <3> QED
      BY <3>1, <3>2
  <2> HIDE DEF deployed
  <2> QED
    BY <1>4, <1>5, <2>1, NoneOrOne
<1>12. NetworkHypothesis(c) \in Seq(RuleHypotheses)
  <2>1. NetworkHypothesis(c) = <<>> \/ NetworkHypothesis(c) = <<n>>
    BY Zenon DEF NetworkHypothesis, network
  <2> HIDE DEF n
  <2> QED
    BY <1>6, <2>1, NoneOrOne
<1>13. DatabaseHypothesis(c) \in Seq(RuleHypotheses)
  <2>1. DatabaseHypothesis(c) = <<>> \/ DatabaseHypothesis(c) = <<d>>
    BY Zenon DEF DatabaseHypothesis, database
  <2> HIDE DEF d
  <2> QED
    BY <1>7, <2>1, NoneOrOne
<1>14. PodHypothesis(c) \in Seq(RuleHypotheses)
  <2>1. \/ PodHypothesis(c) = <<>> \/ PodHypothesis(c) = <<podded("restart_pods")>>
        \/ PodHypothesis(c) = <<podded(NoAction)>>
    BY DEF PodHypothesis, pod
  <2> HIDE DEF podded
  <2> QED
    BY <1>8, <2>1, NoneOrOne
<1> HIDE DEF g, o
<1>15. <<g>> \in Seq(RuleHypotheses) /\ <<o>> \in Seq(RuleHypotheses)
  BY <1>9, <1>10
<1> QED
  BY <1>11, <1>12, <1>13, <1>14, <1>15 DEF g, o, two

LEMMA GuidedHypotheses ==
  ASSUME NEW c \in Clue
  PROVE  PlaybookHypotheses(c) \in Seq(RuleHypotheses)
<1> DEFINE I == {i \in DOMAIN c.playbooks : i <= 2 /\ c.playbooks[i].tools # <<>>}
           guided == Selected(c.playbooks, I)
           few(t) == SubSeq(t, 1, IF Len(t) < 5 THEN Len(t) ELSE 5)
<1>1. c.playbooks \in Seq(Playbooks)
  BY DEF Clue
<1>2. /\ I \in SUBSET (1..2) /\ I \subseteq DOMAIN c.playbooks
      /\ \A i \in I : c.playbooks[i].tools # <<>>
  BY <1>1
<1> HIDE DEF I
<1>3. /\ Cardinality(I) \in 0..2 /\ DOMAIN guided = 1..Cardinality(I)
      /\ Len(guided) = Cardinality(I)
      /\ \A k \in DOMAIN guided : \E i \in I : guided[k] = c.playbooks[i]
  <2>1. 2 \in Nat /\ I \in SUBSET (1..2)
    BY <1>2
  <2> QED
    BY <2>1, SelectedElements
<1>4. ASSUME NEW t \in Seq(RuleTools), t # <<>>
      PROVE  few(t) \in Seq(RuleTools) /\ few(t) # <<>>
  BY <1>4, FirstFew
<1>5. PlaybookHypotheses(c) =
        [k \in 1..Cardinality(I) |->
           Hypothesis("playbook", guided[k].prior, few(guided[k].tools), NoAction)]
  BY <1>3 DEF PlaybookHypotheses, I
<1> HIDE DEF few, guided
<1>6. ASSUME NEW k \in DOMAIN guided
      PROVE  Hypothesis("playbook", guided[k].prior, few(guided[k].tools), NoAction)
               \in RuleHypotheses
  <2>1. PICK i \in I : guided[k] = c.playbooks[i]
    BY <1>3
  <2>2. /\ guided[k] \in Playbooks
        /\ guided[k].tools # <<>>
    <3>1. i \in 1..Len(c.playbooks) /\ c.playbooks[i].tools # <<>>
      BY <1>1, <1>2
    <3>2. c.playbooks[i] \in Playbooks
      BY <1>1, <3>1, ElementOf
    <3> QED
      BY <2>1, <3>1, <3>2
  <2>3. /\ guided[k].prior \in 620..860
        /\ few(guided[k].tools) \in Seq(RuleTools) /\ few(guided[k].tools) # <<>>
    BY <1>4, <2>2 DEF Playbooks
  <2>4. guided[k].prior \in 550..860 /\ guided[k].prior >= 620
    <3>1. \A p \in 620..860 : p \in 550..860 /\ p >= 620
      OBVIOUS
    <3> QED
      BY <2>3, <3>1, ZenonT(30)
  <2>5. "playbook" \in HypothesisIds /\ NoAction \in RuleActions
    BY DEF HypothesisIds, RuleActions
  <2> QED
    BY <2>3, <2>4, <2>5, HypothesisIsOne, ZenonT(30)
<1> QED
  BY <1>3, <1>5, <1>6

LEMMA HypothesesAreBuilt ==
  ASSUME NEW c \in Clue
  PROVE  BuildHypotheses(c) \in Seq(RuleHypotheses) /\ BuildHypotheses(c) # <<>>
<1> DEFINE ofNames == DeployHypothesis(c) \o NetworkHypothesis(c) \o DatabaseHypothesis(c)
                      \o PodHypothesis(c)
           guided == PlaybookHypotheses(c)
           generic == <<Hypothesis("generic", 550, <<"health", "alerts">>, NoAction)>>
           observe == <<Hypothesis("observe", 700, <<"health", "alerts">>, "observe_service")>>
           all == IF guided \o ofNames = <<>> THEN generic ELSE guided \o ofNames
<1>1. /\ ofNames \in Seq(RuleHypotheses) /\ guided \in Seq(RuleHypotheses)
      /\ generic \in Seq(RuleHypotheses) /\ observe \in Seq(RuleHypotheses)
      /\ generic # <<>> /\ observe # <<>>
  BY NamedHypotheses, GuidedHypotheses
<1>2. BuildHypotheses(c) =
        IF "low risk" \in c.words THEN guided \o observe
        ELSE SubSeq(all, 1, IF Len(all) < 3 THEN Len(all) ELSE 3)
  BY DEF BuildHypotheses
<1> HIDE DEF ofNames, guided, generic, observe
<1>3. all \in Seq(RuleHypotheses) /\ all # <<>>
  BY <1>1
<1>4. guided \o observe \in Seq(RuleHypotheses) /\ guided \o observe # <<>>
  BY <1>1
<1> HIDE DEF all
<1>5. LET few == SubSeq(all, 1, IF Len(all) < 3 THEN Len(all) ELSE 3)
      IN few \in Seq(RuleHypotheses) /\ few # <<>>
  BY <1>3, FirstFew
<1> QED
  BY <1>2, <1>4, <1>5

-----------------------------------------------------------------------------
\* No hypothesis has more confirmations than checks that were made, and the ranking
\* was made of what the checks had shown in the end.
RulesInv ==
  /\ clue \in Clue
  /\ hypotheses \in Seq(RuleHypotheses) /\ hypotheses # <<>>
  /\ verifying \in (Nat \ {0}) \X (Nat \ {0})
  /\ checked = [i \in DOMAIN hypotheses |-> checked[i]]
  /\ \A i \in DOMAIN hypotheses :
       /\ checked[i].signals \in Nat /\ checked[i].texts \in Nat
       /\ checked[i].signals <= Len(hypotheses[i].tools)
       /\ i = verifying[1] =>
            verifying[2] <= Len(hypotheses[i].tools) /\ checked[i].signals < verifying[2]
       /\ i > verifying[1] => checked[i].signals = 0
  /\ \A t \in DOMAIN ruleCache : ruleCache[t].texts \in Nat
  /\ ranked # <<>> =>
       /\ verifying[1] > Len(hypotheses)
       /\ \E results : results = VerificationResults /\ ranked = Ranking(results)

LEMMA RulesStart == RuleInit => RulesInv
<1> SUFFICES ASSUME RuleInit PROVE RulesInv
  OBVIOUS
<1>1. clue \in Clue
  BY RuleAssumptions DEF RuleInit
<1>2. hypotheses \in Seq(RuleHypotheses) /\ hypotheses # <<>>
  BY <1>1, HypothesesAreBuilt DEF RuleInit
<1>3. verifying \in (Nat \ {0}) \X (Nat \ {0}) /\ verifying[1] = 1 /\ verifying[2] = 1
  BY DEF RuleInit
<1>4. /\ checked = [i \in DOMAIN hypotheses |-> checked[i]]
      /\ \A i \in DOMAIN hypotheses : checked[i].signals = 0 /\ checked[i].texts = 0
  BY DEF RuleInit, Unchecked
<1>5. ASSUME NEW i \in DOMAIN hypotheses PROVE Len(hypotheses[i].tools) \in Nat \ {0}
  <2>1. hypotheses[i] \in RuleHypotheses
    BY <1>2
  <2>2. hypotheses[i].tools \in Seq(RuleTools) /\ hypotheses[i].tools # <<>>
    BY <2>1 DEF RuleHypotheses
  <2> QED
    BY <2>2
<1>6. ruleCache = <<>> /\ ranked = <<>>
  BY DEF RuleInit
<1>7. ASSUME NEW i \in DOMAIN hypotheses
      PROVE  /\ checked[i].signals \in Nat /\ checked[i].texts \in Nat
             /\ checked[i].signals <= Len(hypotheses[i].tools)
             /\ i = verifying[1] =>
                  verifying[2] <= Len(hypotheses[i].tools) /\ checked[i].signals < verifying[2]
             /\ i > verifying[1] => checked[i].signals = 0
  BY <1>3, <1>4, <1>5
<1> QED
  BY <1>1, <1>2, <1>3, <1>4, <1>6, <1>7 DEF RulesInv

LEMMA RunNamedToolKeeps == RulesInv /\ RunNamedTool => RulesInv'
<1> SUFFICES ASSUME RulesInv, RunNamedTool PROVE RulesInv'
  OBVIOUS
<1> DEFINE i == verifying[1]
           k == verifying[2]
           t == hypotheses[i].tools[k]
           again == \E l \in 1..(k - 1) : hypotheses[i].tools[l] = t
<1>1. /\ i \in DOMAIN hypotheses /\ k \in Nat \ {0} /\ verifying = <<i, k>>
      /\ DOMAIN hypotheses = 1..Len(hypotheses) /\ Len(hypotheses) \in Nat
  <2>1. i \in Nat \ {0} /\ k \in Nat \ {0} /\ verifying = <<i, k>>
    BY DEF RulesInv
  <2>2. DOMAIN hypotheses = 1..Len(hypotheses) /\ Len(hypotheses) \in Nat
    BY DEF RulesInv
  <2> QED
    BY <2>1, <2>2 DEF RunNamedTool
<1>2. PICK o \in IF t \in DOMAIN ruleCache THEN {ruleCache[t]} ELSE ToolOutcomes(t) :
        /\ checked' = [checked EXCEPT ![i] =
             [signals |-> @.signals + IF o.signal THEN 1 ELSE 0,
              texts |-> @.texts + IF again THEN 0 ELSE o.texts,
              says |-> @.says \cup o.says]]
        /\ ruleCache' = [u \in {u \in DOMAIN ruleCache \cup {t} : AskedAgain(i, k, u)} |->
                           IF u = t THEN o ELSE ruleCache[u]]
        /\ verifying' = IF k < Len(hypotheses[i].tools) THEN <<i, k + 1>> ELSE <<i + 1, 1>>
  BY DEF RunNamedTool
<1>3. o.texts \in Nat
  <2>1. CASE t \in DOMAIN ruleCache
    BY <1>2, <2>1 DEF RulesInv
  <2>2. CASE t \notin DOMAIN ruleCache
    BY <1>2, <2>2 DEF ToolOutcomes
  <2> QED
    BY <2>1, <2>2
<1>4. clue' = clue /\ hypotheses' = hypotheses /\ ranked' = ranked /\ ranked = <<>>
  BY <1>1 DEF RunNamedTool, RulesInv
<1>5. ASSUME NEW j \in DOMAIN hypotheses
      PROVE  /\ checked[j].signals \in Nat /\ checked[j].texts \in Nat
             /\ checked[j].signals <= Len(hypotheses[j].tools)
             /\ Len(hypotheses[j].tools) \in Nat \ {0}
             /\ j = i => k <= Len(hypotheses[j].tools) /\ checked[j].signals < k
             /\ j > i => checked[j].signals = 0
  <2>1. hypotheses \in Seq(RuleHypotheses)
    BY DEF RulesInv
  <2>2. hypotheses[j] \in RuleHypotheses
    BY <2>1
  <2>3. hypotheses[j].tools \in Seq(RuleTools) /\ hypotheses[j].tools # <<>>
    BY <2>2 DEF RuleHypotheses
  <2>4. Len(hypotheses[j].tools) \in Nat \ {0}
    BY <2>3
  <2> QED
    BY <2>4 DEF RulesInv
<1>6. checked = [j \in DOMAIN hypotheses |-> checked[j]]
  BY DEF RulesInv
<1> HIDE DEF again, t
<1>7. /\ checked' = [j \in DOMAIN hypotheses |-> checked'[j]]
      /\ \A j \in DOMAIN hypotheses \ {i} : checked'[j] = checked[j]
      /\ checked'[i].signals = checked[i].signals + IF o.signal THEN 1 ELSE 0
      /\ checked'[i].texts = checked[i].texts + IF again THEN 0 ELSE o.texts
  BY <1>1, <1>2, <1>6
<1>8. /\ checked'[i].signals \in Nat /\ checked'[i].texts \in Nat
      /\ checked'[i].signals <= k
  <2>1. ASSUME NEW a \in Nat, NEW b \in {0, 1}, a < k PROVE a + b \in Nat /\ a + b <= k
    BY <1>1, <2>1
  <2>2. (IF o.signal THEN 1 ELSE 0) \in {0, 1} /\ (IF again THEN 0 ELSE o.texts) \in Nat
    BY <1>3
  <2>3. ASSUME NEW a \in Nat, NEW b \in Nat PROVE a + b \in Nat
    BY <2>3
  <2>4. checked[i].signals \in Nat /\ checked[i].texts \in Nat /\ checked[i].signals < k
    BY <1>1, <1>5
  <2> QED
    BY <1>7, <2>1, <2>2, <2>3, <2>4
<1>9. /\ verifying' \in (Nat \ {0}) \X (Nat \ {0})
      /\ \/ verifying'[1] = i /\ verifying'[2] = k + 1 /\ k < Len(hypotheses[i].tools)
         \/ verifying'[1] = i + 1 /\ verifying'[2] = 1
  BY <1>1, <1>2
<1>10. ASSUME NEW u \in DOMAIN ruleCache' PROVE ruleCache'[u].texts \in Nat
  <2>1. u \in DOMAIN ruleCache \cup {t} /\ ruleCache'[u] = IF u = t THEN o ELSE ruleCache[u]
    BY <1>2
  <2> QED
    BY <1>3, <2>1 DEF RulesInv
<1>11. ASSUME NEW j \in DOMAIN hypotheses
       PROVE  /\ checked'[j].signals \in Nat /\ checked'[j].texts \in Nat
              /\ checked'[j].signals <= Len(hypotheses[j].tools)
              /\ j = verifying'[1] =>
                   /\ verifying'[2] <= Len(hypotheses[j].tools)
                   /\ checked'[j].signals < verifying'[2]
              /\ j > verifying'[1] => checked'[j].signals = 0
  <2>1. j \in Nat
    BY <1>1
  <2>2. CASE j = i
    BY <1>1, <1>5, <1>8, <1>9, <2>1, <2>2
  <2>3. CASE j # i
    <3>1. checked'[j] = checked[j]
      BY <1>7, <2>3
    <3> QED
      BY <1>1, <1>5, <1>9, <2>1, <2>3, <3>1
  <2> QED
    BY <2>2, <2>3
<1> QED
  BY <1>4, <1>7, <1>9, <1>10, <1>11 DEF RulesInv

LEMMA RuleNextKeeps == RulesInv /\ [RuleNext]_ruleVars => RulesInv'
<1> SUFFICES ASSUME RulesInv, [RuleNext]_ruleVars PROVE RulesInv'
  OBVIOUS
<1>1. CASE RunNamedTool
  BY <1>1, RunNamedToolKeeps
<1>2. ASSUME UNCHANGED <<clue, hypotheses, checked>>
      PROVE  VerificationResults' = VerificationResults
  BY <1>2 DEF VerificationResults, Score
<1>3. CASE Rank
  <2>1. PICK results : results = VerificationResults /\ ranked' = Ranking(results)
    BY <1>3 DEF Rank
  <2>2. VerificationResults' = results
    BY <1>2, <1>3, <2>1 DEF Rank
  <2> QED
    BY <1>3, <2>1, <2>2 DEF Rank, RulesInv
<1>4. CASE UNCHANGED ruleVars
  <2>1. VerificationResults' = VerificationResults
    BY <1>2, <1>4 DEF ruleVars
  <2> QED
    BY <1>4, <2>1 DEF ruleVars, RulesInv
<1> QED
  BY <1>1, <1>3, <1>4 DEF RuleNext

-----------------------------------------------------------------------------
LEMMA StrengthOfThree ==
  ASSUME NEW c, c.signals \in Nat, c.texts \in Nat
  PROVE  EvidenceStrength(c) \in 0..1000 /\ (c.signals >= 3 => EvidenceStrength(c) = 1000)
<1> DEFINE sixths == AtMost(AtLeast(c.texts, 2 * c.signals), 6)
<1>1. sixths \in 0..6 /\ (c.signals >= 3 => sixths = 6)
  BY DEF AtMost, AtLeast
<1>2. EvidenceStrength(c) = <<0, 167, 333, 500, 667, 833, 1000>>[sixths + 1]
  BY DEF EvidenceStrength
<1> HIDE DEF sixths
<1>3. sixths + 1 \in {1, 2, 3, 4, 5, 6, 7} /\ (c.signals >= 3 => sixths + 1 = 7)
  BY <1>1
<1>4. \A n \in {1, 2, 3, 4, 5, 6, 7} :
        /\ <<0, 167, 333, 500, 667, 833, 1000>>[n] \in 0..1000
        /\ n = 7 => <<0, 167, 333, 500, 667, 833, 1000>>[n] = 1000
  OBVIOUS
<1> QED
  BY <1>2, <1>3, <1>4

LEMMA SureOfThree ==
  ASSUME NEW h \in RuleHypotheses, NEW c, c.signals \in Nat
  PROVE  /\ Confidence(h, c) \in 550..950
         /\ c.signals >= 3 => Confidence(h, c) >= h.prior + 240 \/ Confidence(h, c) = 950
         /\ c.signals = 0 => Confidence(h, c) = h.prior
<1>1. h.prior \in 550..860
  BY DEF RuleHypotheses
<1> QED
  BY <1>1 DEF Confidence, AtMost

\* What the results hold, and that their scores are numbers.
\* r is the result of hypothesis h, the i-th, of which c was checked.
ResultOf(r, h, c, i) ==
  /\ h \in RuleHypotheses /\ c.signals \in Nat /\ c.texts \in Nat
  /\ c.signals <= Len(h.tools)
  /\ r.at = i /\ r.id = h.id /\ r.signals = c.signals
  /\ r.score = 5 * r.strength + 3 * r.confidence + 2 * clue.history[h.id]
  /\ r.strength = EvidenceStrength(c) /\ r.strength \in 0..1000
  /\ r.confidence = Confidence(h, c) /\ r.confidence \in 550..950
  /\ clue.history[h.id] \in 0..1000 /\ r.score \in Nat

LEMMA ResultsOfChecks ==
  ASSUME RulesInv, NEW i \in DOMAIN hypotheses
  PROVE  ResultOf(VerificationResults[i], hypotheses[i], checked[i], i)
<1> DEFINE r == VerificationResults[i]
           h == hypotheses[i]
           c == checked[i]
<1>1. h \in RuleHypotheses
  <2>1. hypotheses \in Seq(RuleHypotheses)
    BY DEF RulesInv
  <2> QED
    BY <2>1
<1>2. c.signals \in Nat /\ c.texts \in Nat /\ c.signals <= Len(h.tools)
  BY DEF RulesInv
<1>3. h.id \in HypothesisIds
  BY <1>1 DEF RuleHypotheses
<1>4. clue.history[h.id] \in 0..1000
  <2>1. clue.history \in [HypothesisIds -> 0..1000]
    BY DEF RulesInv, Clue
  <2> QED
    BY <1>3, <2>1
<1>5. r = [id |-> h.id, signals |-> c.signals, says |-> c.says, action |-> DeriveAction(h, c),
           score |-> Score(h, c), confidence |-> Confidence(h, c),
           strength |-> EvidenceStrength(c), at |-> i]
  BY DEF VerificationResults
<1> HIDE DEF h, c
<1>6. EvidenceStrength(c) \in 0..1000 /\ Confidence(h, c) \in 550..950
  <2>1. EvidenceStrength(c) \in 0..1000
    BY <1>2, StrengthOfThree, ZenonT(30)
  <2>2. Confidence(h, c) \in 550..950
    BY <1>1, <1>2, SureOfThree, ZenonT(30)
  <2> QED
    BY <2>1, <2>2
<1>7. /\ r.at = i /\ r.id = h.id /\ r.signals = c.signals /\ r.strength = EvidenceStrength(c)
      /\ r.confidence = Confidence(h, c) /\ r.score = Score(h, c)
  BY <1>5
<1>8. r.score = 5 * r.strength + 3 * r.confidence + 2 * clue.history[h.id]
  BY <1>7 DEF Score
<1> HIDE DEF r
<1>9. r.score \in Nat
  <2> DEFINE s == r.strength
             q == r.confidence
             v == clue.history[h.id]
  <2>1. s \in 0..1000
    BY <1>6, <1>7
  <2>2. q \in 550..950
    BY <1>6, <1>7
  <2>3. v \in 0..1000
    BY <1>4
  <2>4. r.score = 5 * s + 3 * q + 2 * v
    BY <1>8
  <2> HIDE DEF s, q, v
  <2> QED
    BY <2>1, <2>2, <2>3, <2>4
<1> QED
  <2>1. r.strength \in 0..1000 /\ r.confidence \in 550..950
    BY <1>6, <1>7
  <2>2. ResultOf(r, h, c, i)
    BY <1>1, <1>2, <1>4, <1>7, <1>8, <1>9, <2>1 DEF ResultOf
  <2> QED
    BY <2>2 DEF r, h, c

LEMMA ResultsAreNumbers ==
  ASSUME RulesInv, NEW i \in DOMAIN hypotheses
  PROVE  /\ VerificationResults[i].score \in Nat
         /\ VerificationResults[i].confidence \in Nat
         /\ VerificationResults[i].strength \in Nat
         /\ VerificationResults[i].at = i /\ i \in Nat
<1> DEFINE results == VerificationResults
<1>1. /\ results[i].confidence \in 550..950 /\ results[i].strength \in 0..1000
      /\ results[i].score \in Nat /\ results[i].at = i
  <2>1. ResultOf(results[i], hypotheses[i], checked[i], i)
    BY ResultsOfChecks
  <2> HIDE DEF results
  <2> QED
    BY <2>1 DEF ResultOf
<1>2. i \in Nat
  BY DEF RulesInv
<1> HIDE DEF results
<1>3. 550..950 \subseteq Nat /\ 0..1000 \subseteq Nat
  OBVIOUS
<1>4. results[i].confidence \in Nat
  BY <1>1, <1>3
<1>5. results[i].strength \in Nat
  <2> DEFINE strength == results[i].strength
  <2>1. strength \in 0..1000
    BY <1>1
  <2> HIDE DEF strength
  <2>2. strength \in Nat
    BY <2>1
  <2> QED
    BY <2>2 DEF strength
<1> QED
  BY <1>1, <1>2, <1>4, <1>5 DEF results

\* The ranker's order is strict and total.
LEMMA RankingIsAnOrder ==
  ASSUME NEW r, NEW s, NEW t,
         r.score \in Nat, s.score \in Nat, t.score \in Nat,
         r.confidence \in Nat, s.confidence \in Nat, t.confidence \in Nat,
         r.strength \in Nat, s.strength \in Nat, t.strength \in Nat,
         r.at \in Nat, s.at \in Nat, t.at \in Nat
  PROVE  /\ ~Outranks(r, r)
         /\ Outranks(r, s) /\ Outranks(s, t) => Outranks(r, t)
         /\ r.at # s.at => Outranks(r, s) \/ Outranks(s, r)
BY DEF Outranks

\* The place of a result is the number of those that outrank it.
LEMMA Placed ==
  ASSUME RulesInv, ranked # <<>>
  PROVE  /\ DOMAIN ranked = DOMAIN hypotheses
         /\ \A k \in DOMAIN ranked : \E i \in DOMAIN hypotheses :
              /\ ranked[k] = VerificationResults[i]
              /\ Cardinality({j \in DOMAIN hypotheses :
                                Outranks(VerificationResults[j], VerificationResults[i])}) = k - 1
<1> DEFINE D == DOMAIN hypotheses
           results == VerificationResults
           R == {x \in D \X D : Outranks(results[x[1]], results[x[2]])}
<1>1. D = 1..Len(hypotheses) /\ Len(hypotheses) \in Nat
  BY DEF RulesInv
<1>2. IsFiniteSet(D) /\ Cardinality(D) = Len(hypotheses)
  <2>1. 1 \in Int /\ Len(hypotheses) \in Int
        /\ (IF 1 > Len(hypotheses) THEN 0 ELSE Len(hypotheses) - 1 + 1) = Len(hypotheses)
    BY <1>1
  <2> QED
    BY <1>1, <2>1, FS_Interval
<1>3. DOMAIN results = D
  BY DEF VerificationResults
<1>4. ASSUME NEW i \in D
      PROVE  /\ results[i].score \in Nat /\ results[i].confidence \in Nat
             /\ results[i].strength \in Nat /\ results[i].at = i /\ i \in Nat
  BY ResultsAreNumbers
<1> HIDE DEF results, D
<1>5. \A i, j \in D : <<i, j>> \in R <=> Outranks(results[i], results[j])
  OBVIOUS
<1>6. StrictlyOrders(R, D)
  <2>1. ASSUME NEW i \in D, NEW j \in D, NEW l \in D
        PROVE  /\ ~Outranks(results[i], results[i])
               /\ Outranks(results[i], results[j]) /\ Outranks(results[j], results[l]) =>
                    Outranks(results[i], results[l])
               /\ i # j => Outranks(results[i], results[j]) \/ Outranks(results[j], results[i])
    BY <1>4, RankingIsAnOrder
  <2> QED
    BY <1>5, <2>1 DEF StrictlyOrders
<1> HIDE DEF R
<1>a. ASSUME NEW m \in Nat, m < Cardinality(D)
      PROVE  \E i \in D : Cardinality({j \in D : <<j, i>> \in R}) = m
  BY <1>2, <1>6, <1>a, PlacesAreTaken
<1>7. ASSUME NEW k \in 1..Len(hypotheses)
      PROVE  \E i \in D : Cardinality({j \in D : Outranks(results[j], results[i])}) = k - 1
  <2>1. k - 1 \in Nat /\ k - 1 < Cardinality(D)
    BY <1>1, <1>2
  <2>2. PICK i \in D : Cardinality({j \in D : <<j, i>> \in R}) = k - 1
    BY <1>a, <2>1
  <2>3. {j \in D : <<j, i>> \in R} = {j \in D : Outranks(results[j], results[i])}
    BY <1>5
  <2> QED
    BY <2>2, <2>3
<1>8. ranked = Ranking(results)
  BY DEF RulesInv, results
<1>9. ranked = [k \in D |->
        results[CHOOSE i \in D : Cardinality({j \in D : Outranks(results[j], results[i])}) = k - 1]]
  BY <1>3, <1>8 DEF Ranking
<1>10. ASSUME NEW k \in D
       PROVE  \E i \in D :
                /\ ranked[k] = results[i]
                /\ Cardinality({j \in D : Outranks(results[j], results[i])}) = k - 1
  <2> DEFINE i == CHOOSE i \in D : Cardinality({j \in D : Outranks(results[j], results[i])}) = k - 1
  <2>1. ranked[k] = results[i]
    BY <1>9
  <2>2. k \in 1..Len(hypotheses)
    BY <1>1
  <2>3. i \in D /\ Cardinality({j \in D : Outranks(results[j], results[i])}) = k - 1
    BY <1>7, <2>2
  <2> QED
    BY <2>1, <2>3
<1>11. DOMAIN ranked = D
  BY <1>9
<1> QED
  BY <1>10, <1>11 DEF D, results

\* What outranks another is placed before it.
LEMMA OutrankingComesFirst ==
  ASSUME RulesInv, ranked # <<>>, NEW m \in DOMAIN ranked, NEW n \in DOMAIN ranked,
         Outranks(ranked[m], ranked[n])
  PROVE  m < n
<1> DEFINE D == DOMAIN hypotheses
           results == VerificationResults
           Above(i) == {j \in D : Outranks(results[j], results[i])}
<1>1. D = 1..Len(hypotheses) /\ Len(hypotheses) \in Nat /\ DOMAIN ranked = D
  BY Placed DEF RulesInv
<1>2. PICK i \in D : ranked[m] = results[i] /\ Cardinality(Above(i)) = m - 1
  BY Placed
<1>3. PICK l \in D : ranked[n] = results[l] /\ Cardinality(Above(l)) = n - 1
  BY Placed
<1>4. ASSUME NEW j \in D
      PROVE  /\ results[j].score \in Nat /\ results[j].confidence \in Nat
             /\ results[j].strength \in Nat /\ results[j].at \in Nat
  BY ResultsAreNumbers
<1> HIDE DEF results, D
<1>5. Outranks(results[i], results[l])
  BY <1>2, <1>3
<1>6. i \notin Above(i) /\ i \in Above(l) /\ Above(i) \subseteq Above(l)
  <2>1. ASSUME NEW j \in D, Outranks(results[j], results[i])
        PROVE  Outranks(results[j], results[l])
    BY <1>4, <1>5, <2>1, RankingIsAnOrder
  <2>2. ~Outranks(results[i], results[i])
    BY <1>4, RankingIsAnOrder
  <2> QED
    BY <1>5, <2>1, <2>2
<1>7. IsFiniteSet(D)
  BY <1>1, FS_Interval
<1>8. IsFiniteSet(Above(i)) /\ IsFiniteSet(Above(l))
  BY <1>7, FS_Subset
<1> HIDE DEF Above
<1>9. Cardinality(Above(i) \cup {i}) = Cardinality(Above(i)) + 1
  BY <1>6, <1>8, FS_AddElement
<1>10. Cardinality(Above(i) \cup {i}) <= Cardinality(Above(l))
  BY <1>6, <1>8, FS_Subset
<1>11. m \in Nat /\ n \in Nat
  BY <1>1
<1> QED
  BY <1>2, <1>3, <1>9, <1>10, <1>11

\* Unless similar cases weigh in, no hypothesis that nothing confirmed is placed before
\* one that three checks confirmed, but for a dead heat of two playbooks: for any
\* message, playbooks and answers of the tools.
THEOREM ConfirmationsDecide == RuleSpec => []ConfirmedOutranksUnconfirmed
<1>1. ASSUME RulesInv PROVE ConfirmedOutranksUnconfirmed
  <2> SUFFICES ASSUME \A id \in HypothesisIds : clue.history[id] = 0,
                      NEW m \in DOMAIN ranked, NEW n \in DOMAIN ranked,
                      ranked[m].signals >= 3, ranked[n].signals = 0
               PROVE  m < n \/ DeadHeat(ranked[m], ranked[n])
    BY DEF ConfirmedOutranksUnconfirmed
  <2>1. ranked # <<>>
    OBVIOUS
  <2>2. PICK i \in DOMAIN hypotheses : ranked[m] = VerificationResults[i]
    BY <1>1, <2>1, Placed
  <2>3. PICK j \in DOMAIN hypotheses : ranked[n] = VerificationResults[j]
    BY <1>1, <2>1, Placed
  <2> DEFINE r == ranked[m]
             s == ranked[n]
             h == hypotheses[i]
             g == hypotheses[j]
  <2>4. /\ h \in RuleHypotheses /\ checked[i].signals \in Nat /\ checked[i].signals >= 3
        /\ checked[i].texts \in Nat /\ checked[i].signals <= Len(h.tools)
        /\ r.at = i /\ r.id = h.id /\ r.strength = EvidenceStrength(checked[i])
        /\ r.confidence = Confidence(h, checked[i]) /\ r.confidence \in 550..950
        /\ r.score = 5 * r.strength + 3 * r.confidence + 2 * clue.history[h.id]
    <3>1. ResultOf(r, h, checked[i], i)
      BY <1>1, <2>2, ResultsOfChecks
    <3> HIDE DEF r, h
    <3>2. checked[i].signals = ranked[m].signals
      BY <3>1 DEF ResultOf, r
    <3>3. checked[i].signals >= 3
      BY <3>2
    <3> QED
      BY <3>1, <3>3, Zenon DEF ResultOf
  <2>5. /\ g \in RuleHypotheses /\ checked[j].signals = 0 /\ checked[j].texts \in Nat
        /\ s.at = j /\ s.id = g.id /\ s.strength \in 0..1000
        /\ s.confidence = Confidence(g, checked[j]) /\ s.confidence \in 550..950
        /\ s.score = 5 * s.strength + 3 * s.confidence + 2 * clue.history[g.id]
    <3>1. ResultOf(s, g, checked[j], j)
      BY <1>1, <2>3, ResultsOfChecks
    <3> HIDE DEF s, g
    <3>2. checked[j].signals = 0
      BY <3>1 DEF ResultOf, s
    <3> QED
      BY <3>1, <3>2 DEF ResultOf
  <2>6. 2 * clue.history[h.id] = 0 /\ 2 * clue.history[g.id] = 0
    BY <2>4, <2>5 DEF RuleHypotheses
  <2>7. r.strength = 1000
    BY <2>4, StrengthOfThree
  <2>8. /\ h.prior \in 550..860 /\ (h.prior < 680 => h.id = "playbook" /\ h.prior >= 620)
        /\ Len(h.tools) > 2
    <3>1. h.tools \in Seq(RuleTools) /\ h.prior \in 550..860
      BY <2>4 DEF RuleHypotheses
    <3>2. Len(h.tools) \in Nat
      BY <3>1
    <3>3. Len(h.tools) > 2
      BY <2>4, <3>2
    <3> QED
      BY <2>4, <3>1, <3>2, <3>3 DEF RuleHypotheses
  <2>9. r.confidence >= h.prior + 240 \/ r.confidence = 950
    BY <2>4, SureOfThree
  <2>10. s.confidence = g.prior /\ g.prior \in 550..860 /\ (g.prior > 840 => g.id = "playbook")
    <3>1. checked[j].signals \in Nat
      BY <2>5
    <3>2. s.confidence = g.prior
      BY <2>5, <3>1, SureOfThree
    <3> QED
      BY <2>5, <3>2 DEF RuleHypotheses
  <2> HIDE DEF r, s, h, g
  <2> DEFINE x == r.score
             y == s.score
             p == r.confidence
             q == s.confidence
             a == r.strength
             b == s.strength
             low == h.prior
  <2>11. /\ a = 1000 /\ b \in 0..1000 /\ p \in 550..950 /\ q \in 550..950
         /\ p >= low + 240 \/ p = 950
         /\ x = 5 * a + 3 * p + 0 /\ y = 5 * b + 3 * q + 0
    BY <2>4, <2>5, <2>6, <2>7, <2>9
  <2>12. q \in 550..860 /\ low \in 550..860 /\ low >= 620
    <3>1. q \in 550..860 /\ low \in 550..860 /\ (low < 680 => low >= 620)
      BY <2>8, <2>10
    <3> HIDE DEF q, low
    <3> QED
      BY <3>1
  <2> HIDE DEF x, y, p, q, a, b, low
  <2>13. p >= 860 /\ q <= 860 /\ (p = 860 => low = 620)
    BY <2>11, <2>12
  <2>14. x > y \/ (x = y /\ p = 860 /\ q = 860 /\ b = 1000)
    BY <2>11, <2>13
  <2> USE DEF x, y, p, q, a, b, low
  <2>15. CASE r.score > s.score
    BY <1>1, <2>1, <2>15, OutrankingComesFirst DEF Outranks, r, s
  <2>16. CASE r.score = s.score /\ r.confidence = 860 /\ s.confidence = 860 /\ s.strength = 1000
    <3>1. h.id = "playbook" /\ g.id = "playbook"
      BY <2>8, <2>10, <2>13, <2>16
    <3>2. CASE j < i
      BY <2>4, <2>5, <2>16, <3>1, <3>2 DEF DeadHeat, r, s
    <3>3. CASE i < j
      <4>1. Outranks(r, s)
        BY <2>4, <2>5, <2>7, <2>16, <3>3 DEF Outranks
      <4> QED
        BY <1>1, <2>1, <4>1, OutrankingComesFirst DEF r, s
    <3>4. i # j /\ i \in Nat /\ j \in Nat
      BY <1>1, <2>4, <2>5 DEF RulesInv
    <3> QED
      BY <3>2, <3>3, <3>4
  <2> QED
    BY <2>14, <2>15, <2>16
<1>2. RuleSpec => []RulesInv
  BY RulesStart, RuleNextKeeps, PTL DEF RuleSpec
<1> QED
  BY <1>1, <1>2, PTL

-----------------------------------------------------------------------------
(* The knowledge base: what a hit was ranked by and what it is shown with. *)

\* A chunk is found under one id only, and its parent is the section it was cut from.
Coherent(m) ==
  /\ \A i, j \in DOMAIN m.chunks : m.chunks[i].id = m.chunks[j].id => i = j
  /\ \A i \in DOMAIN m.chunks :
       /\ m.chunks[i].parent \in DOMAIN m.parents
       /\ ToSet(m.chunks[i].text) \subseteq ToSet(m.parents[m.chunks[i].parent])

Legible(stored) == \A d \in Docs : stored[d].content \in Seq(Seq(Paragraphs))

\* Memory is a copy of one state of the tables or of the file, and while the process
\* serves of the present one unless it is dirty.
MemoryInv ==
  /\ \A d \in Docs : kbFiles[d] \in Seq(Seq(Paragraphs))
  /\ DOMAIN kbFiles = Docs
  /\ Legible(blocks) /\ blocks = [d \in Docs |-> blocks[d]]
  /\ indexer.at # "idle" => Legible(indexer.read)
  /\ indexFile.state = "whole" => Legible(indexFile.docs)
  /\ Coherent(memory)
  /\ backend = "pgvector" /\ serving /\ ~dirty => memory.chunks = LoadChunks(blocks)

RowOfMemory(r) ==
  \E i \in DOMAIN memory.chunks : r = [id |-> memory.chunks[i].id, text |-> memory.chunks[i].text]

HitOfMemory(h) ==
  \E i \in DOMAIN memory.chunks :
    h.text = memory.chunks[i].text /\ h.parent = memory.chunks[i].parent

HitFields == {"text", "parent", "sparseOf", "denseOf", "section"}
SearchFields == {"at", "overlapped", "scored", "rows", "hits"}

\* A search that no new copy overlapped still has before it the copy it scored.
SearchInv(q) ==
  /\ DOMAIN q = SearchFields /\ q.overlapped \in BOOLEAN
  /\ q.at \in {"idle", "embedding", "dense", "mapping", "reranking", "answered", "failed", "unavailable"}
  /\ q.at \notin {"idle", "answered", "failed", "unavailable"} => serving
  /\ q.at \in {"dense", "mapping"} => backend = "pgvector"
  /\ q.at \in {"idle", "embedding"} => q.rows = {}
  /\ q.at \notin {"reranking", "answered"} => q.hits = {}
  /\ \A h \in q.hits : DOMAIN h = HitFields
  /\ ~q.overlapped \/ backend = "local" => \A h \in q.hits : ScoredAsItIs(h)
  /\ ~q.overlapped =>
       /\ q.at # "failed"
       /\ q.at \in {"dense", "mapping"} => q.scored = Texts
       /\ q.at = "mapping" => \A r \in q.rows : RowOfMemory(r)
       /\ q.at = "reranking" => \A h \in q.hits : HitOfMemory(h)
       /\ q.at = "answered" => \A h \in q.hits : ToSet(h.text) \subseteq ToSet(h.section)

HitsInv ==
  /\ SyncInv
  /\ MemoryInv
  /\ DOMAIN search = Searchers
  /\ \A s \in Searchers : SearchInv(search[s])

-----------------------------------------------------------------------------
(* What one list made of several holds.                                    *)

Places(ss) == UNION {{i} \X DOMAIN ss[i] : i \in DOMAIN ss}
Before(p, q) == p[1] < q[1] \/ (p[1] = q[1] /\ p[2] < q[2])
PlaceOf(ss, k) == CHOOSE q \in Places(ss) : Cardinality({p \in Places(ss) : Before(p, q)}) = k - 1

LEMMA PlacesAreFinite ==
  ASSUME NEW ss, IsFiniteSet(DOMAIN ss), \A i \in DOMAIN ss : IsFiniteSet(DOMAIN ss[i])
  PROVE  IsFiniteSet(Places(ss))
<1> DEFINE rows == {{i} \X DOMAIN ss[i] : i \in DOMAIN ss}
           f == [i \in DOMAIN ss |-> {i} \X DOMAIN ss[i]]
<1>1. f \in Surjection(DOMAIN ss, rows)
  <2>1. f \in [DOMAIN ss -> rows] /\ \A r \in rows : \E i \in DOMAIN ss : f[i] = r
    OBVIOUS
  <2> HIDE DEF f, rows
  <2> QED
    BY <2>1 DEF Surjection
<1>2. \A r \in rows : IsFiniteSet(r)
  <2> SUFFICES ASSUME NEW i \in DOMAIN ss PROVE IsFiniteSet({i} \X DOMAIN ss[i])
    OBVIOUS
  <2> QED
    BY FS_Singleton, FS_Product
<1> HIDE DEF f, rows
<1>3. IsFiniteSet(rows)
  BY <1>1, FS_Surjection
<1>4. IsFiniteSet(UNION rows)
  BY <1>2, <1>3, FS_UNION
<1> QED
  BY <1>4 DEF Places, rows

\* Pairs are in order by their first numbers, then by their second.
BeforeIn(S) == {pq \in S \X S : Before(pq[1], pq[2])}

LEMMA BeforeOrders ==
  ASSUME NEW S, S \subseteq Nat \X Nat
  PROVE  /\ StrictlyOrders(BeforeIn(S), S)
         /\ \A q \in S : {p \in S : <<p, q>> \in BeforeIn(S)} = {p \in S : Before(p, q)}
<1>1. \A p, q \in S : p = q \/ Before(p, q) \/ Before(q, p)
  BY DEF Before
<1>2. \A p, q, r \in S : Before(p, q) /\ Before(q, r) => Before(p, r)
  BY DEF Before
<1>3. \A p \in S : ~Before(p, p)
  BY DEF Before
<1>4. \A p, q \in S : <<p, q>> \in BeforeIn(S) <=> Before(p, q)
  BY DEF BeforeIn
<1> QED
  BY <1>1, <1>2, <1>3, <1>4 DEF StrictlyOrders

LEMMA PairsAreInOrder ==
  ASSUME NEW S, IsFiniteSet(S), S \subseteq Nat \X Nat, NEW k \in 1..Cardinality(S)
  PROVE  \E q \in S : Cardinality({p \in S : Before(p, q)}) = k - 1
<1> PICK R : R = BeforeIn(S)
  OBVIOUS
<1>1. StrictlyOrders(R, S) /\ \A q \in S : {p \in S : <<p, q>> \in R} = {p \in S : Before(p, q)}
  BY BeforeOrders
<1>2. Cardinality(S) \in Nat
  BY FS_CardinalityType
<1>3. ASSUME NEW m \in Nat, m < Cardinality(S)
      PROVE  \E q \in S : Cardinality({p \in S : <<p, q>> \in R}) = m
  BY <1>1, <1>3, PlacesAreTaken
<1>4. k - 1 \in Nat /\ k - 1 < Cardinality(S)
  BY <1>2
<1>5. PICK q \in S : Cardinality({p \in S : <<p, q>> \in R}) = k - 1
  BY <1>3, <1>4
<1> QED
  BY <1>1, <1>5

LEMMA PairsAreApart ==
  ASSUME NEW S, IsFiniteSet(S), S \subseteq Nat \X Nat, NEW p \in S, NEW q \in S,
         Cardinality({r \in S : Before(r, p)}) = Cardinality({r \in S : Before(r, q)})
  PROVE  p = q
<1> PICK R : R = BeforeIn(S)
  OBVIOUS
<1>1. StrictlyOrders(R, S) /\ \A x \in S : {r \in S : <<r, x>> \in R} = {r \in S : Before(r, x)}
  BY BeforeOrders
<1>2. ASSUME NEW x \in S, NEW y \in S, <<x, y>> \in R
      PROVE  Cardinality({r \in S : Before(r, x)}) # Cardinality({r \in S : Before(r, y)})
  <2>1. Cardinality({r \in S : <<r, x>> \in R}) < Cardinality({r \in S : <<r, y>> \in R})
    BY <1>1, <1>2, MoreComesBefore
  <2>2. \A z \in S : Cardinality({r \in S : <<r, z>> \in R}) \in Nat
    <3> SUFFICES ASSUME NEW z \in S PROVE Cardinality({r \in S : <<r, z>> \in R}) \in Nat
      OBVIOUS
    <3>1. IsFiniteSet({r \in S : <<r, z>> \in R})
      BY FS_Subset
    <3> QED
      BY <3>1, FS_CardinalityType
  <2>3. Cardinality({r \in S : <<r, x>> \in R}) # Cardinality({r \in S : <<r, y>> \in R})
    BY <2>1, <2>2
  <2> QED
    BY <1>1, <2>3
<1>3. <<p, q>> \notin R /\ <<q, p>> \notin R
  BY <1>2
<1> QED
  BY <1>1, <1>3 DEF StrictlyOrders

LEMMA FlattenedPlaces ==
  ASSUME NEW ss, NEW n \in Nat, DOMAIN ss = 1..n,
         \A i \in 1..n : \E m \in Nat : DOMAIN ss[i] = 1..m
  PROVE  /\ IsFiniteSet(Places(ss)) /\ Places(ss) \subseteq Nat \X Nat
         /\ \A p \in Places(ss) : p[1] \in 1..n /\ p[2] \in DOMAIN ss[p[1]]
<1>1. IsFiniteSet(Places(ss))
  <2>1. IsFiniteSet(1..n)
    BY FS_Interval
  <2>2. ASSUME NEW i \in 1..n PROVE IsFiniteSet(DOMAIN ss[i])
    <3>1. PICK m \in Nat : DOMAIN ss[i] = 1..m
      OBVIOUS
    <3> QED
      BY <3>1, FS_Interval
  <2> QED
    BY <2>1, <2>2, PlacesAreFinite
<1>2. \A p \in Places(ss) : p \in Nat \X Nat /\ p[1] \in 1..n /\ p[2] \in DOMAIN ss[p[1]]
  <2> SUFFICES ASSUME NEW i \in 1..n, NEW k \in DOMAIN ss[i]
               PROVE  <<i, k>> \in Nat \X Nat
    BY DEF Places
  <2>1. PICK m \in Nat : DOMAIN ss[i] = 1..m
    OBVIOUS
  <2> QED
    BY <2>1
<1> QED
  BY <1>1, <1>2

\* Every element of the flattened list is one of the lists' own, each at a place of its own.
LEMMA FlattenedElements ==
  ASSUME NEW ss, NEW n \in Nat, DOMAIN ss = 1..n,
         \A i \in 1..n : \E m \in Nat : DOMAIN ss[i] = 1..m
  PROVE  /\ \E N \in Nat : DOMAIN Flattened(ss) = 1..N
         /\ \A k \in DOMAIN Flattened(ss) :
              /\ PlaceOf(ss, k)[1] \in 1..n /\ PlaceOf(ss, k)[2] \in DOMAIN ss[PlaceOf(ss, k)[1]]
              /\ Flattened(ss)[k] = ss[PlaceOf(ss, k)[1]][PlaceOf(ss, k)[2]]
         /\ \A j, k \in DOMAIN Flattened(ss) :
              /\ PlaceOf(ss, j)[1] = PlaceOf(ss, k)[1]
              /\ PlaceOf(ss, j)[2] = PlaceOf(ss, k)[2]
              => j = k
<1> DEFINE S == Places(ss)
           N == Cardinality(S)
           at(k) == PlaceOf(ss, k)
<1>1. IsFiniteSet(S)
  BY FlattenedPlaces
<1>2. N \in Nat
  BY <1>1, FS_CardinalityType
<1>3. \A p \in S : p \in Nat \X Nat /\ p[1] \in 1..n /\ p[2] \in DOMAIN ss[p[1]]
  BY FlattenedPlaces
<1> HIDE DEF S
<1>6. ASSUME NEW k \in 1..N
      PROVE  at(k) \in S /\ Cardinality({p \in S : Before(p, at(k))}) = k - 1
  <2>1. S \subseteq Nat \X Nat
    BY <1>3
  <2>2. PICK q \in S : Cardinality({p \in S : Before(p, q)}) = k - 1
    BY <1>1, <2>1, PairsAreInOrder
  <2> QED
    BY <2>2 DEF PlaceOf, S
<1>7. Flattened(ss) = [k \in 1..N |-> ss[at(k)[1]][at(k)[2]]]
  BY DEF Flattened, PlaceOf, Places, Before, S
<1> HIDE DEF at
<1>8. ASSUME NEW j \in 1..N, NEW k \in 1..N, at(j)[1] = at(k)[1], at(j)[2] = at(k)[2]
      PROVE  j = k
  <2>1. at(j) = at(k)
    <3> PICK p, q : p = at(j) /\ q = at(k)
      OBVIOUS
    <3>1. p \in Nat \X Nat /\ q \in Nat \X Nat
      BY <1>3, <1>6
    <3>2. p = q
      BY <1>8, <3>1
    <3> QED
      BY <3>2
  <2>2. j - 1 = k - 1
    BY <1>6, <2>1
  <2> QED
    BY <1>2, <2>2
<1>9. DOMAIN Flattened(ss) = 1..N
  BY <1>7
<1>10. ASSUME NEW k \in 1..N
       PROVE  /\ at(k)[1] \in 1..n /\ at(k)[2] \in DOMAIN ss[at(k)[1]]
              /\ Flattened(ss)[k] = ss[at(k)[1]][at(k)[2]]
  BY <1>3, <1>6, <1>7
<1> HIDE DEF N
<1> QED
  BY <1>2, <1>8, <1>9, <1>10 DEF at

-----------------------------------------------------------------------------
(* Chunks.                                                                 *)

LEMMA SectionChunks ==
  ASSUME NEW section \in Seq(Paragraphs), NEW size
  PROVE  /\ \E m \in Nat : DOMAIN ChunkText(section, size) = 1..m
         /\ \A k \in DOMAIN ChunkText(section, size) :
              ToSet(ChunkText(section, size)[k]) \subseteq ToSet(section)
<1>1. CASE size = "section"
  <2>1. ChunkText(section, size) = <<section>>
    BY <1>1 DEF ChunkText
  <2>2. DOMAIN <<section>> = 1..1 /\ \A k \in 1..1 : <<section>>[k] = section
    OBVIOUS
  <2> QED
    BY <2>1, <2>2
<1>2. CASE size # "section"
  <2>1. ChunkText(section, size) = [i \in DOMAIN section |-> <<section[i]>>]
    BY <1>2 DEF ChunkText
  <2>2. Len(section) \in Nat /\ DOMAIN section = 1..Len(section)
    OBVIOUS
  <2>3. ASSUME NEW i \in DOMAIN section
        PROVE  ToSet(<<section[i]>>) \subseteq ToSet(section)
    <3>1. ToSet(<<section[i]>>) = {section[i]}
      BY DEF ToSet
    <3> QED
      BY <3>1 DEF ToSet
  <2> QED
    BY <2>1, <2>2, <2>3
<1> QED
  BY <1>1, <1>2

SectionRows(d, doc) ==
  [i \in DOMAIN doc.content |->
     LET texts == ChunkText(doc.content[i], doc.size)
     IN [k \in DOMAIN texts |-> [parent |-> <<d, i>>, text |-> texts[k]]]]

\* The chunks of a document are numbered, and each is cut from the section it names.
LEMMA DocumentChunks ==
  ASSUME NEW d, NEW doc, doc.content \in Seq(Seq(Paragraphs))
  PROVE  /\ \E m \in Nat : DOMAIN ChunksOf(d, doc) = 1..m
         /\ \A k \in DOMAIN ChunksOf(d, doc) :
              /\ doc.content # NoContent
              /\ ChunksOf(d, doc)[k].id = <<d, k>>
              /\ \E i \in DOMAIN doc.content :
                   /\ ChunksOf(d, doc)[k].parent = <<d, i>>
                   /\ ToSet(ChunksOf(d, doc)[k].text) \subseteq ToSet(doc.content[i])
<1>1. CASE doc.content = NoContent
  <2>1. ChunksOf(d, doc) = <<>>
    BY <1>1 DEF ChunksOf
  <2>2. DOMAIN <<>> = 1..0 /\ 1..0 = {}
    OBVIOUS
  <2> QED
    BY <2>1, <2>2
<1>2. CASE doc.content # NoContent
  <2> DEFINE rows == SectionRows(d, doc)
             all == Flattened(rows)
             n == Len(doc.content)
  <2>1. n \in Nat /\ DOMAIN doc.content = 1..n /\ \A i \in 1..n : doc.content[i] \in Seq(Paragraphs)
    OBVIOUS
  <2>2. DOMAIN rows = 1..n
    BY <2>1 DEF SectionRows
  <2>3. ASSUME NEW i \in 1..n
        PROVE  /\ \E m \in Nat : DOMAIN rows[i] = 1..m
               /\ \A k \in DOMAIN rows[i] :
                    /\ rows[i][k].parent = <<d, i>>
                    /\ ToSet(rows[i][k].text) \subseteq ToSet(doc.content[i])
    <3> DEFINE texts == ChunkText(doc.content[i], doc.size)
    <3>1. rows[i] = [k \in DOMAIN texts |-> [parent |-> <<d, i>>, text |-> texts[k]]]
      BY <2>1 DEF SectionRows
    <3>2. /\ \E m \in Nat : DOMAIN texts = 1..m
          /\ \A k \in DOMAIN texts : ToSet(texts[k]) \subseteq ToSet(doc.content[i])
      BY <2>1, SectionChunks
    <3> HIDE DEF texts, rows
    <3>3. DOMAIN rows[i] = DOMAIN texts
      BY <3>1
    <3>4. ASSUME NEW k \in DOMAIN texts
          PROVE  rows[i][k].parent = <<d, i>> /\ rows[i][k].text = texts[k]
      BY <3>1
    <3> QED
      BY <3>2, <3>3, <3>4
  <2>4. ChunksOf(d, doc) =
          [k \in DOMAIN all |-> [id |-> <<d, k>>, parent |-> all[k].parent, text |-> all[k].text]]
    BY <1>2 DEF ChunksOf, SectionRows
  <2> HIDE DEF rows, n
  <2>5. /\ \E N \in Nat : DOMAIN all = 1..N
        /\ \A k \in DOMAIN all :
             /\ PlaceOf(rows, k)[1] \in 1..n /\ PlaceOf(rows, k)[2] \in DOMAIN rows[PlaceOf(rows, k)[1]]
             /\ all[k] = rows[PlaceOf(rows, k)[1]][PlaceOf(rows, k)[2]]
    BY <2>1, <2>2, <2>3, FlattenedElements
  <2> HIDE DEF all
  <2>6. ASSUME NEW k \in DOMAIN all
        PROVE  \E i \in 1..n : /\ all[k].parent = <<d, i>>
                               /\ ToSet(all[k].text) \subseteq ToSet(doc.content[i])
    <3> DEFINE i == PlaceOf(rows, k)[1]
               j == PlaceOf(rows, k)[2]
    <3>1. i \in 1..n /\ j \in DOMAIN rows[i] /\ all[k] = rows[i][j]
      BY <2>5
    <3> HIDE DEF i, j
    <3> QED
      BY <2>3, <3>1
  <2>7. ASSUME NEW k \in DOMAIN all
        PROVE  /\ ChunksOf(d, doc)[k].id = <<d, k>>
               /\ ChunksOf(d, doc)[k].parent = all[k].parent
               /\ ChunksOf(d, doc)[k].text = all[k].text
    BY <2>4
  <2>8. DOMAIN ChunksOf(d, doc) = DOMAIN all
    BY <2>4
  <2> QED
    BY <1>2, <2>1, <2>5, <2>6, <2>7, <2>8
<1> QED
  BY <1>1, <1>2

LEMMA LoadIsCoherent ==
  ASSUME NEW stored, Legible(stored), NEW embedded
  PROVE  Coherent(Load(stored, embedded))
<1> DEFINE ss == [d \in Docs |-> ChunksOf(d, stored[d])]
           chunks == LoadChunks(stored)
           parents == LoadParents(stored)
<1>1. chunks = Flattened(ss)
  BY DEF LoadChunks
<1>2. NumDocs \in Nat /\ DOMAIN ss = 1..NumDocs
  BY KnowledgeAssumptions DEF Docs
<1>3. ASSUME NEW d \in 1..NumDocs
      PROVE  /\ \E m \in Nat : DOMAIN ss[d] = 1..m
             /\ \A k \in DOMAIN ss[d] :
                  /\ stored[d].content # NoContent
                  /\ ss[d][k].id = <<d, k>>
                  /\ \E i \in DOMAIN stored[d].content :
                       /\ ss[d][k].parent = <<d, i>>
                       /\ ToSet(ss[d][k].text) \subseteq ToSet(stored[d].content[i])
  <2> DEFINE doc == stored[d]
  <2>1. ss[d] = ChunksOf(d, doc) /\ doc.content \in Seq(Seq(Paragraphs))
    BY DEF Legible, Docs
  <2> HIDE DEF ss, doc
  <2>2. /\ \E m \in Nat : DOMAIN ChunksOf(d, doc) = 1..m
        /\ \A k \in DOMAIN ChunksOf(d, doc) :
             /\ doc.content # NoContent
             /\ ChunksOf(d, doc)[k].id = <<d, k>>
             /\ \E i \in DOMAIN doc.content :
                  /\ ChunksOf(d, doc)[k].parent = <<d, i>>
                  /\ ToSet(ChunksOf(d, doc)[k].text) \subseteq ToSet(doc.content[i])
    BY <2>1, DocumentChunks
  <2> QED
    BY <2>1, <2>2 DEF doc
<1> HIDE DEF ss
<1>4. /\ \A k \in DOMAIN chunks :
           /\ PlaceOf(ss, k)[1] \in 1..NumDocs /\ PlaceOf(ss, k)[2] \in DOMAIN ss[PlaceOf(ss, k)[1]]
           /\ chunks[k] = ss[PlaceOf(ss, k)[1]][PlaceOf(ss, k)[2]]
      /\ \A j, k \in DOMAIN chunks :
           /\ PlaceOf(ss, j)[1] = PlaceOf(ss, k)[1]
           /\ PlaceOf(ss, j)[2] = PlaceOf(ss, k)[2]
           => j = k
  <2>1. \A d \in 1..NumDocs : \E m \in Nat : DOMAIN ss[d] = 1..m
    BY <1>3
  <2>2. /\ \A k \in DOMAIN Flattened(ss) :
             /\ PlaceOf(ss, k)[1] \in 1..NumDocs /\ PlaceOf(ss, k)[2] \in DOMAIN ss[PlaceOf(ss, k)[1]]
             /\ Flattened(ss)[k] = ss[PlaceOf(ss, k)[1]][PlaceOf(ss, k)[2]]
        /\ \A j, k \in DOMAIN Flattened(ss) :
             /\ PlaceOf(ss, j)[1] = PlaceOf(ss, k)[1]
             /\ PlaceOf(ss, j)[2] = PlaceOf(ss, k)[2]
             => j = k
    BY <1>2, <2>1, FlattenedElements
  <2> HIDE DEF chunks
  <2> QED
    BY <1>1, <2>2
<1>5. /\ Load(stored, embedded).chunks = chunks
      /\ Load(stored, embedded).parents = parents
  BY DEF Load
<1> HIDE DEF chunks
<1>6. ASSUME NEW k \in DOMAIN chunks
      PROVE  chunks[k].id = <<PlaceOf(ss, k)[1], PlaceOf(ss, k)[2]>>
  BY <1>3, <1>4
<1>7. ASSUME NEW j \in DOMAIN chunks, NEW k \in DOMAIN chunks, chunks[j].id = chunks[k].id
      PROVE  j = k
  <2>1. <<PlaceOf(ss, j)[1], PlaceOf(ss, j)[2]>> = <<PlaceOf(ss, k)[1], PlaceOf(ss, k)[2]>>
    BY <1>6, <1>7
  <2>2. PlaceOf(ss, j)[1] = PlaceOf(ss, k)[1] /\ PlaceOf(ss, j)[2] = PlaceOf(ss, k)[2]
    BY <2>1
  <2> QED
    BY <1>4, <2>2
<1>8. ASSUME NEW d \in Docs, stored[d].content # NoContent, NEW i \in DOMAIN stored[d].content
      PROVE  <<d, i>> \in DOMAIN parents /\ parents[<<d, i>>] = stored[d].content[i]
  BY <1>8 DEF LoadParents
<1> HIDE DEF parents
<1>9. ASSUME NEW k \in DOMAIN chunks
      PROVE  /\ chunks[k].parent \in DOMAIN parents
             /\ ToSet(chunks[k].text) \subseteq ToSet(parents[chunks[k].parent])
  <2> DEFINE d == PlaceOf(ss, k)[1]
             m == PlaceOf(ss, k)[2]
  <2>1. d \in Docs /\ m \in DOMAIN ss[d] /\ chunks[k] = ss[d][m]
    BY <1>4 DEF Docs
  <2> HIDE DEF d, m
  <2>2. PICK i \in DOMAIN stored[d].content :
          ss[d][m].parent = <<d, i>> /\ ToSet(ss[d][m].text) \subseteq ToSet(stored[d].content[i])
    BY <1>3, <2>1 DEF Docs
  <2>3. stored[d].content # NoContent
    BY <1>3, <2>1 DEF Docs
  <2> QED
    BY <1>8, <2>1, <2>2, <2>3
<1> QED
  BY <1>5, <1>7, <1>9 DEF Coherent

-----------------------------------------------------------------------------
(* The steps of a search.                                                  *)

HitAt(q, i) ==
  LET chunks == memory.chunks
      sparse == SparseCandidates(q.scored)
      dense == {j \in DOMAIN chunks : \E r \in q.rows : r.id = chunks[j].id}
  IN [text |-> chunks[i].text, parent |-> chunks[i].parent,
      sparseOf |-> IF i \in sparse THEN q.scored[i] ELSE <<>>,
      denseOf |-> IF i \in dense THEN (CHOOSE r \in q.rows : r.id = chunks[i].id).text ELSE <<>>,
      section |-> <<>>]

DenseOf(q) == {j \in DOMAIN memory.chunks : \E r \in q.rows : r.id = memory.chunks[j].id}

\* Whatever the candidates are, a fusion either gives hits or fails.
LEMMA FusionEnds ==
  ASSUME NEW q, DOMAIN q = SearchFields, q.hits = {}
  PROVE  LET f == Fuse(q)
         IN  /\ DOMAIN f = SearchFields /\ f.overlapped = q.overlapped /\ f.rows = {}
             /\ \/ /\ f.at = "reranking"
                   /\ f.hits = {HitAt(q, i) : i \in SparseCandidates(q.scored) \cup DenseOf(q)}
                \/ f.at = "failed" /\ f.hits = {}
             /\ DenseOf(q) \subseteq DOMAIN q.scored /\ SparseCandidates(q.scored) \subseteq DOMAIN memory.chunks
                  => f.at = "reranking"
<1> DEFINE may == /\ DenseOf(q) \subseteq DOMAIN q.scored
                  /\ SparseCandidates(q.scored) \subseteq DOMAIN memory.chunks
           hits == {HitAt(q, i) : i \in SparseCandidates(q.scored) \cup DenseOf(q)}
<1>1. Fuse(q) = IF may THEN [q EXCEPT !.at = "reranking", !.rows = {}, !.hits = hits]
                ELSE [q EXCEPT !.at = "failed", !.rows = {}]
  BY Zenon DEF Fuse, HitAt, DenseOf
<1> HIDE DEF may, hits
<1>2. CASE may
  BY <1>1, <1>2 DEF SearchFields, hits
<1>3. CASE ~may
  BY <1>1, <1>3 DEF SearchFields, may
<1> QED
  BY <1>2, <1>3

LEMMA HitsAreRecords ==
  ASSUME NEW q, NEW i
  PROVE  /\ DOMAIN HitAt(q, i) = HitFields
         /\ HitAt(q, i).text = memory.chunks[i].text
         /\ HitAt(q, i).parent = memory.chunks[i].parent
         /\ HitAt(q, i).sparseOf = IF i \in SparseCandidates(q.scored) THEN q.scored[i] ELSE <<>>
         /\ HitAt(q, i).denseOf =
              IF i \in DenseOf(q) THEN (CHOOSE r \in q.rows : r.id = memory.chunks[i].id).text ELSE <<>>
BY DEF HitAt, HitFields, DenseOf

\* The candidates of the copy that was scored: every one is found, with its own scores.
LEMMA FusionOfOneCopy ==
  ASSUME NEW q, DOMAIN q = SearchFields, q.hits = {}, Coherent(memory),
         q.scored = Texts, \A r \in q.rows : RowOfMemory(r)
  PROVE  LET f == Fuse(q)
         IN  /\ f.at = "reranking"
             /\ \A h \in f.hits : DOMAIN h = HitFields /\ ScoredAsItIs(h) /\ HitOfMemory(h)
<1> DEFINE D == DOMAIN memory.chunks
           f == Fuse(q)
<1>1. DOMAIN q.scored = D /\ \A i \in D : q.scored[i] = memory.chunks[i].text
  BY DEF Texts
<1>2. SparseCandidates(q.scored) \subseteq D /\ DenseOf(q) \subseteq D
  BY <1>1 DEF SparseCandidates, DenseOf
<1>3. /\ f.at = "reranking"
      /\ f.hits = {HitAt(q, i) : i \in SparseCandidates(q.scored) \cup DenseOf(q)}
  BY <1>1, <1>2, FusionEnds
<1>4. ASSUME NEW i \in D
      PROVE  LET h == HitAt(q, i)
             IN  DOMAIN h = HitFields /\ ScoredAsItIs(h) /\ HitOfMemory(h)
  <2> DEFINE h == HitAt(q, i)
             r == CHOOSE row \in q.rows : row.id = memory.chunks[i].id
  <2>1. /\ DOMAIN h = HitFields /\ h.text = memory.chunks[i].text /\ h.parent = memory.chunks[i].parent
        /\ h.sparseOf = IF i \in SparseCandidates(q.scored) THEN q.scored[i] ELSE <<>>
        /\ h.denseOf = IF i \in DenseOf(q) THEN r.text ELSE <<>>
    BY HitsAreRecords
  <2>2. h.sparseOf \in {<<>>, h.text}
    BY <1>1, <2>1
  <2>3. i \in DenseOf(q) => r.text = memory.chunks[i].text
    <3> SUFFICES ASSUME i \in DenseOf(q) PROVE r.text = memory.chunks[i].text
      OBVIOUS
    <3>1. r \in q.rows /\ r.id = memory.chunks[i].id
      BY DEF DenseOf
    <3> HIDE DEF r
    <3>2. PICK j \in D : r = [id |-> memory.chunks[j].id, text |-> memory.chunks[j].text]
      BY <3>1 DEF RowOfMemory
    <3>3. j = i
      BY <3>1, <3>2 DEF Coherent
    <3> QED
      BY <3>2, <3>3
  <2> HIDE DEF h, r
  <2>4. h.denseOf \in {<<>>, h.text}
    BY <2>1, <2>3
  <2> QED
    BY <2>1, <2>2, <2>4 DEF ScoredAsItIs, HitOfMemory, h
<1>5. ASSUME NEW h \in f.hits PROVE DOMAIN h = HitFields /\ ScoredAsItIs(h) /\ HitOfMemory(h)
  <2>1. PICK i \in D : h = HitAt(q, i)
    BY <1>2, <1>3
  <2> QED
    BY <1>4, <2>1
<1> QED
  BY <1>3, <1>5

\* Nothing that a search depends on has changed, or it has ended.
LEMMA SearchKept ==
  ASSUME NEW s, SearchInv(search[s]), search'[s] = search[s], UNCHANGED backend,
         serving => serving',
         UNCHANGED memory \/ search[s].at \in {"idle", "answered", "failed", "unavailable"}
  PROVE  SearchInv(search[s])'
<1>1. CASE UNCHANGED memory
  BY <1>1 DEF SearchInv, RowOfMemory, HitOfMemory, Texts
<1>2. CASE search[s].at \in {"idle", "answered", "failed", "unavailable"}
  BY <1>2 DEF SearchInv
<1> QED
  BY <1>1, <1>2

\* A new copy in memory marks whoever is in the middle of a search.
LEMMA SearchOverlapped ==
  ASSUME NEW s \in Searchers, SearchInv(search[s]), Overlap, UNCHANGED backend, serving'
  PROVE  SearchInv(search[s])'
<1>1. CASE search[s].at \in {"idle", "answered", "failed", "unavailable"}
  <2>1. search'[s] = search[s]
    BY <1>1 DEF Overlap
  <2> QED
    BY <1>1, <2>1, SearchKept
<1>2. CASE search[s].at \notin {"idle", "answered", "failed", "unavailable"}
  <2>1. search'[s] = [search[s] EXCEPT !.overlapped = TRUE]
    BY <1>2 DEF Overlap
  <2>2. /\ DOMAIN search'[s] = SearchFields /\ search'[s].overlapped = TRUE
        /\ search'[s].at = search[s].at /\ search'[s].rows = search[s].rows
        /\ search'[s].hits = search[s].hits
    BY <2>1 DEF SearchInv, SearchFields
  <2>3. backend' = "local" => \A h \in search'[s].hits : ScoredAsItIs(h)
    BY <2>2 DEF SearchInv
  <2> QED
    BY <1>2, <2>2, <2>3 DEF SearchInv
<1> QED
  BY <1>1, <1>2

\* A fusion of what was scored a moment ago.
LEMMA FusedAtOnce ==
  ASSUME NEW s, MemoryInv, serving, UNCHANGED <<backend, serving, memory>>,
         NEW q, DOMAIN q = SearchFields, q.hits = {}, q.scored = Texts,
         q.overlapped \in BOOLEAN, \A r \in q.rows : RowOfMemory(r),
         search'[s] = Fuse(q)
  PROVE  SearchInv(search[s])'
<1>1. Coherent(memory)
  BY DEF MemoryInv
<1>2. /\ search'[s].at = "reranking"
      /\ \A h \in search'[s].hits : DOMAIN h = HitFields /\ ScoredAsItIs(h) /\ HitOfMemory(h)
  BY <1>1, FusionOfOneCopy
<1>3. DOMAIN search'[s] = SearchFields /\ search'[s].overlapped = q.overlapped
  BY FusionEnds
<1>4. \A h \in search'[s].hits : HitOfMemory(h)'
  BY <1>2 DEF HitOfMemory
<1> QED
  BY <1>2, <1>3, <1>4 DEF SearchInv

LEMMA StartSearchKeeps ==
  ASSUME HitsInv, NEW s \in Searchers, StartSearch(s)
  PROVE  SearchInv(search[s])'
<1> DEFINE empty == [NoSearch EXCEPT !.at = "embedding"]
           scored == [NoSearch EXCEPT !.scored = Texts]
<1>1. /\ serving /\ UNCHANGED <<backend, serving, memory>>
      /\ search' = [search EXCEPT ![s] = IF memory.embedded THEN empty ELSE Fuse(scored)]
      /\ DOMAIN search = Searchers /\ MemoryInv
  BY DEF StartSearch, Step, HitsInv
<1>2. /\ DOMAIN empty = SearchFields /\ empty.at = "embedding" /\ empty.overlapped = FALSE
      /\ empty.rows = {} /\ empty.hits = {}
  BY DEF NoSearch, SearchFields
<1>3. /\ DOMAIN scored = SearchFields /\ scored.scored = Texts /\ scored.overlapped = FALSE
      /\ scored.rows = {} /\ scored.hits = {}
  BY DEF NoSearch, SearchFields
<1> HIDE DEF empty, scored
<1>4. CASE memory.embedded
  <2>1. search'[s] = empty
    BY <1>1, <1>4
  <2> QED
    BY <1>1, <1>2, <2>1 DEF SearchInv
<1>5. CASE ~memory.embedded
  <2>1. search'[s] = Fuse(scored)
    BY <1>1, <1>5
  <2> QED
    BY <1>1, <1>3, <2>1, FusedAtOnce
<1> QED
  BY <1>4, <1>5

LEMMA EmbedQueryKeeps ==
  ASSUME HitsInv, NEW s \in Searchers, EmbedQuery(s)
  PROVE  SearchInv(search[s])'
<1> DEFINE scored == [search[s] EXCEPT !.scored = Texts]
           own == {[id |-> memory.chunks[i].id, text |-> Texts[i]] : i \in DOMAIN memory.chunks}
           with == [scored EXCEPT !.rows = own]
           dense == [scored EXCEPT !.at = "dense"]
<1>1. /\ search[s].at = "embedding" /\ UNCHANGED <<backend, serving, memory>>
      /\ \/ search' = [search EXCEPT ![s] = Fuse(scored)]
         \/ backend = "local" /\ search' = [search EXCEPT ![s] = Fuse(with)]
         \/ backend # "local" /\ search' = [search EXCEPT ![s] = dense]
      /\ DOMAIN search = Searchers /\ MemoryInv /\ SearchInv(search[s])
      /\ backend \in {"pgvector", "local"}
  BY DEF EmbedQuery, Step, HitsInv, SyncInv
<1>2. /\ serving /\ DOMAIN search[s] = SearchFields /\ search[s].overlapped \in BOOLEAN
      /\ search[s].rows = {} /\ search[s].hits = {}
  BY <1>1 DEF SearchInv
<1>3. /\ DOMAIN scored = SearchFields /\ scored.scored = Texts /\ scored.at = "embedding"
      /\ scored.overlapped = search[s].overlapped /\ scored.rows = {} /\ scored.hits = {}
  BY <1>1, <1>2 DEF SearchFields
<1> HIDE DEF scored
<1>4. /\ DOMAIN with = SearchFields /\ with.scored = Texts
      /\ with.overlapped = search[s].overlapped /\ with.rows = own /\ with.hits = {}
  BY <1>3 DEF SearchFields
<1>5. /\ DOMAIN dense = SearchFields /\ dense.scored = Texts /\ dense.at = "dense"
      /\ dense.overlapped = search[s].overlapped /\ dense.hits = {}
  BY <1>3 DEF SearchFields
<1>6. \A r \in own : RowOfMemory(r)
  BY DEF RowOfMemory, Texts
<1> HIDE DEF own, with, dense
<1>7. CASE search' = [search EXCEPT ![s] = Fuse(scored)]
  <2>1. search'[s] = Fuse(scored)
    BY <1>1, <1>7
  <2> QED
    BY <1>1, <1>2, <1>3, <2>1, FusedAtOnce
<1>8. CASE backend = "local" /\ search' = [search EXCEPT ![s] = Fuse(with)]
  <2>1. search'[s] = Fuse(with)
    BY <1>1, <1>8
  <2> QED
    BY <1>1, <1>2, <1>4, <1>6, <2>1, FusedAtOnce
<1>9. CASE backend # "local" /\ search' = [search EXCEPT ![s] = dense]
  <2>1. search'[s] = dense /\ backend' = "pgvector" /\ serving' /\ Texts' = Texts
    BY <1>1, <1>2, <1>9 DEF Texts
  <2> QED
    BY <1>2, <1>5, <2>1 DEF SearchInv
<1> QED
  BY <1>1, <1>7, <1>8, <1>9

\* The tables are searched: if they are what memory is a copy of, so are the rows.
LEMMA DenseSearchKeeps ==
  ASSUME HitsInv, NEW s \in Searchers, DenseSearch(s)
  PROVE  SearchInv(search[s])'
<1> DEFINE stored == LoadChunks(blocks)
           rows == {[id |-> stored[i].id, text |-> stored[i].text] : i \in DOMAIN stored}
           q == [search[s] EXCEPT !.at = "mapping", !.overlapped = @ \/ dirty, !.rows = rows]
<1>1. /\ search[s].at = "dense" /\ UNCHANGED <<backend, serving, memory>>
      /\ search' = [search EXCEPT ![s] = q]
      /\ DOMAIN search = Searchers /\ MemoryInv /\ SearchInv(search[s])
  BY DEF DenseSearch, Step, HitsInv
<1>2. /\ serving /\ backend = "pgvector" /\ DOMAIN search[s] = SearchFields
      /\ search[s].overlapped \in BOOLEAN /\ search[s].hits = {}
      /\ ~search[s].overlapped => search[s].scored = Texts
  BY <1>1 DEF SearchInv
<1>3. /\ DOMAIN q = SearchFields /\ q.at = "mapping" /\ q.scored = search[s].scored
      /\ q.overlapped = (search[s].overlapped \/ dirty) /\ q.rows = rows /\ q.hits = {}
  BY <1>2 DEF SearchFields
<1>4. ASSUME ~dirty PROVE \A r \in rows : RowOfMemory(r)
  <2>1. memory.chunks = stored
    BY <1>1, <1>2, <1>4 DEF MemoryInv
  <2> QED
    BY <2>1 DEF RowOfMemory
<1>5. search'[s] = q
  BY <1>1
<1> HIDE DEF q, rows
<1>6. q.overlapped \in BOOLEAN /\ (~q.overlapped => ~dirty /\ ~search[s].overlapped)
  BY <1>2, <1>3, Zenon
<1>7. (\A r \in rows : RowOfMemory(r)) => \A r \in rows : RowOfMemory(r)'
  BY <1>1 DEF RowOfMemory
<1>8. Texts' = Texts
  BY <1>1 DEF Texts
<1> QED
  BY <1>1, <1>2, <1>3, <1>4, <1>5, <1>6, <1>7, <1>8 DEF SearchInv

LEMMA MapRowsKeeps ==
  ASSUME HitsInv, NEW s \in Searchers, MapRows(s)
  PROVE  SearchInv(search[s])'
<1> PICK q : q = search[s]
  OBVIOUS
<1>1. /\ q.at = "mapping" /\ UNCHANGED <<backend, serving, memory>>
      /\ search' = [search EXCEPT ![s] = Fuse(q)]
      /\ DOMAIN search = Searchers /\ MemoryInv /\ SearchInv(q)
  BY DEF MapRows, Step, HitsInv
<1>2. /\ serving /\ backend = "pgvector" /\ DOMAIN q = SearchFields
      /\ q.overlapped \in BOOLEAN /\ q.hits = {}
      /\ ~q.overlapped => q.scored = Texts /\ \A r \in q.rows : RowOfMemory(r)
  BY <1>1 DEF SearchInv
<1>3. search'[s] = Fuse(q)
  BY <1>1
<1>4. CASE ~q.overlapped
  BY <1>1, <1>2, <1>3, <1>4, FusedAtOnce
<1>5. CASE q.overlapped
  <2> PICK f : f = Fuse(q)
    OBVIOUS
  <2>1. /\ DOMAIN f = SearchFields /\ f.overlapped = q.overlapped /\ f.rows = {}
        /\ \/ /\ f.at = "reranking"
              /\ f.hits = {HitAt(q, i) : i \in SparseCandidates(q.scored) \cup DenseOf(q)}
           \/ f.at = "failed" /\ f.hits = {}
    BY <1>2, FusionEnds
  <2>2. \A h \in f.hits : DOMAIN h = HitFields
    BY <2>1, HitsAreRecords
  <2>3. search'[s] = f /\ serving' /\ backend' = "pgvector" /\ f.overlapped
    BY <1>1, <1>2, <1>3, <1>5, <2>1
  <2> QED
    BY <2>1, <2>2, <2>3 DEF SearchInv
<1> QED
  BY <1>4, <1>5

\* A hit is shown with the section that its chunk is from.
LEMMA HydrateParentsKeeps ==
  ASSUME HitsInv, NEW s \in Searchers, HydrateParents(s)
  PROVE  SearchInv(search[s])'
<1> PICK q : q = search[s]
  OBVIOUS
<1> DEFINE hydrated(h) == [h EXCEPT !.section = SectionOf(h)]
           hits == {hydrated(h) : h \in q.hits}
           a == [q EXCEPT !.at = "answered", !.scored = <<>>, !.hits = {[h EXCEPT !.section = SectionOf(h)] : h \in @}]
           u == [NoSearch EXCEPT !.at = "unavailable", !.overlapped = q.overlapped]
<1>1. /\ q.at = "reranking" /\ UNCHANGED <<backend, serving, memory>>
      /\ search' = [search EXCEPT ![s] = a] \/ search' = [search EXCEPT ![s] = u]
      /\ DOMAIN search = Searchers /\ MemoryInv /\ SearchInv(q)
  BY DEF HydrateParents, Step, HitsInv
<1>2. /\ DOMAIN q = SearchFields /\ q.overlapped \in BOOLEAN
      /\ \A h \in q.hits : DOMAIN h = HitFields
      /\ ~q.overlapped \/ backend = "local" => \A h \in q.hits : ScoredAsItIs(h)
      /\ ~q.overlapped => \A h \in q.hits : HitOfMemory(h)
  BY <1>1 DEF SearchInv
<1>3. /\ DOMAIN a = SearchFields /\ a.at = "answered" /\ a.overlapped = q.overlapped
      /\ a.hits = hits
  BY <1>2 DEF SearchFields
<1>4. search'[s] = a \/ search'[s] = u
  BY <1>1
<1>8. CASE search'[s] = u
  <2>1. /\ DOMAIN u = SearchFields /\ u.at = "unavailable" /\ u.overlapped = q.overlapped
        /\ u.rows = {} /\ u.hits = {}
    BY DEF NoSearch, SearchFields
  <2> HIDE DEF u
  <2> QED
    BY <1>1, <1>2, <1>8, <2>1 DEF SearchInv
<1>5. ASSUME NEW h \in q.hits
      PROVE  /\ DOMAIN hydrated(h) = HitFields /\ hydrated(h).text = h.text
             /\ hydrated(h).sparseOf = h.sparseOf /\ hydrated(h).denseOf = h.denseOf
             /\ hydrated(h).section = SectionOf(h)
  BY <1>2 DEF HitFields
<1>6. ASSUME NEW h \in q.hits, HitOfMemory(h)
      PROVE  ToSet(h.text) \subseteq ToSet(SectionOf(h))
  <2>1. PICK i \in DOMAIN memory.chunks : h.text = memory.chunks[i].text /\ h.parent = memory.chunks[i].parent
    BY <1>6 DEF HitOfMemory
  <2>2. /\ h.parent \in DOMAIN memory.parents
        /\ ToSet(h.text) \subseteq ToSet(memory.parents[h.parent])
    BY <1>1, <2>1 DEF MemoryInv, Coherent
  <2> QED
    BY <2>2 DEF SectionOf
<1> HIDE DEF a, hydrated
<1>7. /\ \A h \in hits : DOMAIN h = HitFields
      /\ ~q.overlapped \/ backend = "local" => \A h \in hits : ScoredAsItIs(h)
      /\ ~q.overlapped => \A h \in hits : ToSet(h.text) \subseteq ToSet(h.section)
  BY <1>2, <1>5, <1>6 DEF ScoredAsItIs
<1> HIDE DEF hits
<1>9. CASE search'[s] = a
  BY <1>1, <1>2, <1>3, <1>9, <1>7 DEF SearchInv
<1> QED
  BY <1>4, <1>8, <1>9

-----------------------------------------------------------------------------
(* The steps of the index.                                                 *)

LEMMA NoContentIsLegible == NoContent \in Seq(Seq(Paragraphs))
<1>1. <<>> \in Seq(Paragraphs)
  OBVIOUS
<1>2. \A a \in Seq(Paragraphs) : <<a>> \in Seq(Seq(Paragraphs))
  OBVIOUS
<1> QED
  BY <1>1, <1>2 DEF NoContent

LEMMA KbStartsKnown == KbInit => HitsInv
<1> SUFFICES ASSUME KbInit PROVE HitsInv
  OBVIOUS
<1>1. SyncInv
  BY KbStartsUnsynced
<1>2. MemoryInv
  <2>1. DOMAIN kbFiles = Docs /\ \A d \in Docs : kbFiles[d] \in Seq(Seq(Paragraphs))
    BY KnowledgeAssumptions DEF KbInit
  <2>2. Legible(blocks) /\ blocks = [d \in Docs |-> blocks[d]]
    BY NoContentIsLegible DEF KbInit, Legible, NoDocument
  <2>3. indexer.at = "idle" /\ indexFile.state # "whole"
    BY DEF KbInit, NoIndexer, NoIndexFile
  <2>4. memory.chunks = <<>>
    BY DEF KbInit, NoMemory
  <2>5. Coherent(memory)
    BY <2>4 DEF Coherent
  <2> QED
    BY <2>1, <2>2, <2>3, <2>5 DEF MemoryInv, KbInit
<1>3. DOMAIN search = Searchers /\ \A s \in Searchers : search[s] = NoSearch
  BY DEF KbInit
<1>4. /\ DOMAIN NoSearch = SearchFields /\ NoSearch.at = "idle" /\ NoSearch.overlapped = FALSE
      /\ NoSearch.rows = {} /\ NoSearch.hits = {}
  BY DEF NoSearch, SearchFields
<1>5. \A s \in Searchers : SearchInv(search[s])
  BY <1>3, <1>4 DEF SearchInv
<1> QED
  BY <1>1, <1>2, <1>3, <1>5 DEF HitsInv

\* No search notices a step that leaves memory and the searches alone.
LEMMA SearchesKept ==
  ASSUME HitsInv, UNCHANGED <<backend, search, memory>>, serving => serving'
  PROVE  DOMAIN search' = Searchers /\ \A s \in Searchers : SearchInv(search[s])'
<1>1. ASSUME NEW s \in Searchers PROVE SearchInv(search[s])'
  <2>1. SearchInv(search[s]) /\ search'[s] = search[s]
    BY DEF HitsInv
  <2> QED
    BY <2>1, SearchKept
<1> QED
  BY <1>1 DEF HitsInv

LEMMA EditFileKeepsMemory ==
  ASSUME HitsInv, NEW d \in Docs, EditFile(d)
  PROVE  MemoryInv'
<1>1. PICK c \in Contents \cup {NoContent} : kbFiles' = [kbFiles EXCEPT ![d] = c]
  BY DEF EditFile
<1>2. c \in Seq(Seq(Paragraphs))
  BY <1>1, NoContentIsLegible, KnowledgeAssumptions
<1>3. DOMAIN kbFiles' = Docs /\ \A e \in Docs : kbFiles'[e] \in Seq(Seq(Paragraphs))
  BY <1>1, <1>2 DEF HitsInv, MemoryInv
<1>4. UNCHANGED <<backend, blocks, indexFile, serving, memory, indexer, dirty>>
  BY DEF EditFile
<1> QED
  BY <1>3, <1>4 DEF HitsInv, MemoryInv, Legible

\* What a build reads, or has not read yet, is a document.
LEMMA BuildingIsLegible ==
  ASSUME MemoryInv, NEW force, NEW boot, NEW size
  PROVE  Legible(Building(force, boot, size).read)
<1>1. Building(force, boot, size).read = IF backend = "local" THEN SourceFiles(size) ELSE [d \in Docs |-> NoDocument]
  BY DEF Building
<1>2. Legible(SourceFiles(size))
  BY DEF Legible, SourceFiles, MemoryInv
<1>3. Legible([d \in Docs |-> NoDocument])
  BY NoContentIsLegible DEF Legible, NoDocument
<1> QED
  BY <1>1, <1>2, <1>3

LEMMA BootKeepsMemory ==
  ASSUME HitsInv, NEW size, NEW auto, Boot(size, auto)
  PROVE  /\ MemoryInv'
         /\ DOMAIN search' = Searchers /\ \A s \in Searchers : SearchInv(search[s])'
<1>1. /\ ~serving /\ indexer = NoIndexer /\ UNCHANGED <<backend, kbFiles, blocks, indexFile, search>>
      /\ MemoryInv
  BY DEF Boot, HitsInv
<1>2. \/ indexer' = Building(FALSE, TRUE, size) /\ UNCHANGED serving
      \/ UNCHANGED indexer
  BY Zenon DEF Boot
<1>3. \/ UNCHANGED memory
      \/ \E embedded : memory' = Load(blocks, embedded)
      \/ /\ indexFile.state = "whole"
         /\ \E embedded : memory' = Load(indexFile.docs, embedded)
  BY Zenon DEF Boot
<1>4. backend = "pgvector" /\ serving' => \E embedded : memory' = Load(blocks, embedded)
  <2>1. \/ UNCHANGED serving
        \/ backend = "pgvector" /\ memory' = Load(blocks, LoadChunks(blocks) # <<>>)
        \/ backend = "local"
    BY Zenon DEF Boot
  <2>2. "pgvector" # "local"
    OBVIOUS
  <2> QED
    BY <1>1, <2>1, <2>2, Zenon
<1>5. indexer'.at # "idle" => Legible(indexer'.read)
  <2>1. CASE indexer' = Building(FALSE, TRUE, size)
    BY <1>1, <2>1, BuildingIsLegible
  <2>2. CASE UNCHANGED indexer
    BY <1>1, <2>2 DEF NoIndexer
  <2> QED
    BY <1>2, <2>1, <2>2
<1>6. Coherent(memory')
  <2>1. CASE UNCHANGED memory
    BY <1>1, <2>1 DEF MemoryInv
  <2>2. CASE \E embedded : memory' = Load(blocks, embedded)
    BY <1>1, <2>2, LoadIsCoherent DEF MemoryInv
  <2>3. CASE indexFile.state = "whole" /\ \E embedded : memory' = Load(indexFile.docs, embedded)
    BY <1>1, <2>3, LoadIsCoherent DEF MemoryInv
  <2> QED
    BY <1>3, <2>1, <2>2, <2>3
<1>7. backend' = "pgvector" /\ serving' => memory'.chunks = LoadChunks(blocks')
  BY <1>1, <1>4 DEF Load
<1>8. ASSUME NEW s \in Searchers PROVE SearchInv(search[s])'
  <2>1. SearchInv(search[s]) /\ search'[s] = search[s]
    BY <1>1 DEF HitsInv
  <2>2. search[s].at \in {"idle", "answered", "failed", "unavailable"}
    BY <1>1, <2>1 DEF SearchInv
  <2> QED
    BY <1>1, <2>1, <2>2, SearchKept
<1>9. MemoryInv'
  <2>1. Legible(blocks)' /\ (indexFile.state = "whole" => Legible(indexFile.docs))'
    BY <1>1 DEF MemoryInv, Legible
  <2>2. (indexer.at # "idle" => Legible(indexer.read))'
    BY <1>5 DEF Legible
  <2>3. Coherent(memory)'
    BY <1>6 DEF Coherent
  <2> QED
    BY <1>1, <1>7, <2>1, <2>2, <2>3 DEF MemoryInv
<1> QED
  BY <1>1, <1>8, <1>9 DEF HitsInv

LEMMA StartSyncKeepsMemory ==
  ASSUME HitsInv, NEW force, StartSync(force)
  PROVE  MemoryInv'
<1>1. /\ indexer' = Building(force, FALSE, chunkSize) /\ MemoryInv
      /\ UNCHANGED <<backend, kbFiles, blocks, indexFile, serving, memory, dirty>>
  BY DEF StartSync, HitsInv
<1>2. Legible(indexer.read)'
  BY <1>1, BuildingIsLegible DEF Legible
<1> QED
  BY <1>1, <1>2 DEF MemoryInv, Legible

LEMMA ReadDocumentKeepsMemory ==
  ASSUME HitsInv, ReadDocument
  PROVE  MemoryInv'
<1> PICK n : n = NextDoc
  OBVIOUS
<1> DEFINE row == [content |-> kbFiles[n], size |-> chunkSize]
<1>1. /\ indexer.at = "reading" /\ indexer.left # {}
      /\ indexer' = [indexer EXCEPT
           !.read[n] = row,
           !.at = IF UpToDate(n) THEN "reading" ELSE "embedding",
           !.left = IF UpToDate(n) THEN @ \ {n} ELSE @]
      /\ UNCHANGED <<backend, kbFiles, blocks, indexFile, serving, memory, dirty>>
  BY DEF ReadDocument
<1>2. DOMAIN indexer = IndexerFields /\ MemoryInv /\ indexer.left \subseteq Docs
  BY <1>1 DEF HitsInv, SyncInv, DocumentsInv
<1>3. n \in Docs
  BY <1>1, <1>2, NextDocIsLeft
<1>4. row.content = kbFiles[n] /\ kbFiles[n] \in Seq(Seq(Paragraphs))
  BY <1>2, <1>3 DEF MemoryInv
<1> HIDE DEF row
<1>5. indexer'.read = [indexer.read EXCEPT ![n] = row]
  BY <1>1, <1>2 DEF IndexerFields
<1>6. Legible(indexer.read)
  BY <1>1, <1>2 DEF MemoryInv
<1>7. Legible(indexer.read)'
  <2>1. DOMAIN indexer.read = Docs
    BY <1>1 DEF HitsInv, SyncInv, DocumentsInv
  <2> SUFFICES ASSUME NEW d \in Docs PROVE indexer'.read[d].content \in Seq(Seq(Paragraphs))
    BY DEF Legible
  <2>2. indexer'.read[d] = row \/ indexer'.read[d] = indexer.read[d]
    BY <1>5, <2>1
  <2> QED
    BY <1>4, <1>6, <2>2 DEF Legible
<1> QED
  BY <1>1, <1>2, <1>7 DEF MemoryInv, Legible

LEMMA UpsertDocumentKeepsMemory ==
  ASSUME HitsInv, UpsertDocument
  PROVE  MemoryInv'
<1> PICK n : n = NextDoc
  OBVIOUS
<1>1. /\ backend = "pgvector" /\ indexer.at = "embedding"
      /\ blocks' = [blocks EXCEPT ![n] = indexer.read[n]]
      /\ indexer' = [indexer EXCEPT !.at = "reading", !.left = @ \ {n}]
      /\ dirty' = TRUE
      /\ UNCHANGED <<backend, kbFiles, indexFile, serving, memory>>
  BY DEF UpsertDocument
<1>2. /\ DOMAIN indexer = IndexerFields /\ MemoryInv /\ DOMAIN blocks = Docs /\ n \in Docs
  BY <1>1 DEF HitsInv, SyncInv, DocumentsInv
<1>3. indexer'.read = indexer.read /\ Legible(indexer.read) /\ Legible(blocks)
  BY <1>1, <1>2 DEF MemoryInv, IndexerFields
<1>4. Legible(blocks)'
  <2> SUFFICES ASSUME NEW d \in Docs PROVE blocks'[d].content \in Seq(Seq(Paragraphs))
    BY DEF Legible
  <2>1. blocks'[d] = indexer.read[d] \/ blocks'[d] = blocks[d]
    BY <1>1, <1>2
  <2> QED
    BY <1>3, <2>1 DEF Legible
<1> QED
  BY <1>1, <1>2, <1>3, <1>4 DEF MemoryInv, Legible

LEMMA DeleteDocumentsKeepsMemory ==
  ASSUME HitsInv, DeleteDocuments
  PROVE  MemoryInv'
<1> DEFINE gone == {d \in Docs : indexer.existing[d] # NoDocument /\ indexer.read[d] = NoDocument}
<1>1. /\ indexer.at = "reading"
      /\ blocks' = [d \in Docs |-> IF d \in gone THEN NoDocument ELSE blocks[d]]
      /\ dirty' = (dirty \/ gone # {})
      /\ indexer' = [indexer EXCEPT !.at = "loading"]
      /\ UNCHANGED <<backend, kbFiles, indexFile, serving, memory>>
  BY DEF DeleteDocuments
<1>2. /\ DOMAIN indexer = IndexerFields /\ MemoryInv
      /\ blocks = [d \in Docs |-> blocks[d]]
  BY <1>1 DEF HitsInv, SyncInv, DocumentsInv, MemoryInv
<1>3. indexer'.read = indexer.read /\ Legible(indexer.read) /\ Legible(blocks)
  BY <1>1, <1>2 DEF MemoryInv, IndexerFields
<1> HIDE DEF gone
<1>4. Legible(blocks)'
  <2> SUFFICES ASSUME NEW d \in Docs PROVE blocks'[d].content \in Seq(Seq(Paragraphs))
    BY DEF Legible
  <2>1. blocks'[d] = NoDocument \/ blocks'[d] = blocks[d]
    BY <1>1
  <2> QED
    BY <1>3, <2>1, NoContentIsLegible DEF Legible, NoDocument
<1>5. CASE gone = {}
  <2>1. blocks' = blocks
    BY <1>1, <1>2, <1>5
  <2>2. ~dirty' => ~dirty
    BY <1>1, Zenon
  <2> QED
    BY <1>1, <1>2, <1>3, <1>4, <2>1, <2>2 DEF MemoryInv, Legible
<1>6. CASE gone # {}
  <2>1. dirty'
    BY <1>1, <1>6, Zenon
  <2> QED
    BY <1>1, <1>2, <1>3, <1>4, <2>1 DEF MemoryInv, Legible
<1> QED
  BY <1>5, <1>6

\* A sync that ends leaves a copy of what it read, and the searches on the way marked.
LEMMA SyncEndsKnown ==
  ASSUME HitsInv, LoadTables \/ WriteIndex
  PROVE  /\ MemoryInv'
         /\ DOMAIN search' = Searchers /\ \A s \in Searchers : SearchInv(search[s])'
<1>1. /\ Overlap /\ indexer' = NoIndexer /\ serving' = TRUE /\ dirty' = FALSE
      /\ UNCHANGED <<backend, kbFiles, blocks>> /\ MemoryInv
  BY DEF LoadTables, WriteIndex, EndSync, HitsInv
<1>2. \A s \in Searchers : SearchInv(search[s])'
  BY <1>1, SearchOverlapped DEF HitsInv
<1>3. DOMAIN search' = Searchers
  BY <1>1 DEF Overlap
<1>4. indexer'.at = "idle"
  BY <1>1 DEF NoIndexer
<1>5. /\ \E stored, embedded : Legible(stored) /\ memory' = Load(stored, embedded)
      /\ backend = "pgvector" => memory'.chunks = LoadChunks(blocks)
      /\ indexFile'.state = "whole" => Legible(indexFile'.docs)
  <2>1. CASE LoadTables
    <3>1. memory' = Load(blocks, LoadChunks(blocks) # <<>>) /\ UNCHANGED indexFile
      BY <2>1 DEF LoadTables
    <3>2. memory'.chunks = LoadChunks(blocks)
      BY <3>1 DEF Load
    <3> QED
      BY <1>1, <3>1, <3>2 DEF MemoryInv
  <2>2. CASE WriteIndex
    <3>1. PICK embedded \in BOOLEAN :
            /\ backend = "local" /\ indexer.at = "embedding"
            /\ memory' = Load(indexer.read, embedded)
            /\ indexFile' = [state |-> "whole", docs |-> indexer.read, embedded |-> embedded]
      BY <2>2 DEF WriteIndex
    <3>2. Legible(indexer.read)
      BY <1>1, <3>1 DEF MemoryInv
    <3> QED
      BY <3>1, <3>2
  <2> QED
    BY <2>1, <2>2
<1>6. Coherent(memory)'
  <2>1. Coherent(memory')
    BY <1>5, LoadIsCoherent
  <2> QED
    BY <2>1 DEF Coherent
<1>7. (indexFile.state = "whole" => Legible(indexFile.docs))' /\ Legible(blocks)'
  BY <1>1, <1>5 DEF MemoryInv, Legible
<1>8. MemoryInv'
  BY <1>1, <1>4, <1>5, <1>6, <1>7 DEF MemoryInv
<1> QED
  BY <1>2, <1>3, <1>8

LEMMA SyncFailsKeepsMemory ==
  ASSUME HitsInv, SyncFails
  PROVE  MemoryInv'
<1>1. /\ indexer' = NoIndexer /\ MemoryInv
      /\ UNCHANGED <<backend, kbFiles, blocks, indexFile, serving, memory, dirty>>
  BY DEF SyncFails, HitsInv
<1>2. indexer'.at = "idle"
  BY <1>1 DEF NoIndexer
<1> QED
  BY <1>1, <1>2 DEF MemoryInv, Legible

\* The searches of a process that dies are broken off, and their callers told.
LEMMA RagDiesKeeps ==
  ASSUME HitsInv, RagDies
  PROVE  /\ MemoryInv'
         /\ DOMAIN search' = Searchers /\ \A s \in Searchers : SearchInv(search[s])'
<1> DEFINE broken == [NoSearch EXCEPT !.at = "failed", !.overlapped = TRUE]
<1>1. /\ serving' = FALSE /\ memory' = NoMemory /\ indexer' = NoIndexer
      /\ search' = [s \in Searchers |->
           IF search[s].at \in {"answered", "unavailable"} THEN search[s] ELSE broken]
      /\ UNCHANGED indexFile \/ indexFile' = [NoIndexFile EXCEPT !.state = "torn"]
      /\ UNCHANGED <<backend, kbFiles, blocks>> /\ MemoryInv
  BY DEF RagDies, HitsInv
<1>2. /\ DOMAIN broken = SearchFields /\ broken.at = "failed" /\ broken.overlapped = TRUE
      /\ broken.hits = {}
  BY DEF NoSearch, SearchFields
<1> HIDE DEF broken
<1>3. ASSUME NEW s \in Searchers PROVE SearchInv(search[s])'
  <2>1. CASE search[s].at \in {"answered", "unavailable"}
    <3>1. search'[s] = search[s] /\ SearchInv(search[s])
      BY <1>1, <2>1 DEF HitsInv
    <3> QED
      BY <1>1, <2>1, <3>1 DEF SearchInv
  <2>2. CASE search[s].at \notin {"answered", "unavailable"}
    <3>1. search'[s] = broken
      BY <1>1, <2>2
    <3> QED
      BY <1>2, <3>1 DEF SearchInv
  <2> QED
    BY <2>1, <2>2
<1>4. memory'.chunks = <<>> /\ indexer'.at = "idle"
  BY <1>1 DEF NoMemory, NoIndexer
<1>5. Coherent(memory)'
  BY <1>4 DEF Coherent
<1>6. indexFile'.state = "whole" => UNCHANGED indexFile
  BY <1>1 DEF NoIndexFile
<1>7. (indexFile.state = "whole" => Legible(indexFile.docs))' /\ Legible(blocks)'
  BY <1>1, <1>6 DEF MemoryInv, Legible
<1>8. MemoryInv'
  BY <1>1, <1>4, <1>5, <1>7 DEF MemoryInv
<1> QED
  BY <1>1, <1>3, <1>8

LEMMA SearchStepKeeps ==
  ASSUME HitsInv, NEW s \in Searchers,
         StartSearch(s) \/ EmbedQuery(s) \/ DenseSearch(s) \/ MapRows(s) \/ HydrateParents(s)
  PROVE  /\ MemoryInv'
         /\ DOMAIN search' = Searchers /\ \A t \in Searchers : SearchInv(search[t])'
<1>1. \E next : Step(s, next)
  BY Zenon DEF StartSearch, EmbedQuery, DenseSearch, MapRows, HydrateParents
<1>2. PICK next : /\ search' = [search EXCEPT ![s] = next]
                  /\ UNCHANGED <<backend, kbFiles, blocks, indexFile, serving, memory, indexer, dirty>>
  BY <1>1 DEF Step
<1>3. MemoryInv'
  BY <1>2 DEF HitsInv, MemoryInv, Legible
<1>4. SearchInv(search[s])'
  BY StartSearchKeeps, EmbedQueryKeeps, DenseSearchKeeps, MapRowsKeeps, HydrateParentsKeeps
<1>5. ASSUME NEW t \in Searchers, t # s PROVE SearchInv(search[t])'
  <2>1. search'[t] = search[t] /\ SearchInv(search[t])
    BY <1>2, <1>5 DEF HitsInv
  <2> QED
    BY <1>2, <2>1, SearchKept
<1> QED
  BY <1>2, <1>3, <1>4, <1>5 DEF HitsInv

LEMMA KbNextKeepsHits ==
  ASSUME HitsInv, [KbNext]_kbVars
  PROVE  HitsInv'
<1> DEFINE Goal == /\ MemoryInv'
                   /\ DOMAIN search' = Searchers /\ \A s \in Searchers : SearchInv(search[s])'
<1>1. SyncInv'
  BY KbNextKeeps DEF HitsInv
<1> SUFFICES Goal
  BY <1>1 DEF HitsInv
<1>2. ASSUME NEW d \in Docs, EditFile(d) PROVE Goal
  <2>1. UNCHANGED <<backend, search, memory, serving>>
    BY <1>2 DEF EditFile
  <2> QED
    BY <1>2, <2>1, EditFileKeepsMemory, SearchesKept
<1>3. ASSUME NEW size \in ChunkSizes, NEW auto \in BOOLEAN, Boot(size, auto) PROVE Goal
  BY <1>3, BootKeepsMemory
<1>4. ASSUME NEW force \in BOOLEAN, StartSync(force) PROVE Goal
  <2>1. UNCHANGED <<backend, search, memory, serving>>
    BY <1>4 DEF StartSync
  <2> QED
    BY <1>4, <2>1, StartSyncKeepsMemory, SearchesKept
<1>5. CASE ReadDocument
  <2>1. UNCHANGED <<backend, search, memory, serving>>
    BY <1>5 DEF ReadDocument
  <2> QED
    BY <1>5, <2>1, ReadDocumentKeepsMemory, SearchesKept
<1>6. CASE UpsertDocument
  <2>1. UNCHANGED <<backend, search, memory, serving>>
    BY <1>6 DEF UpsertDocument
  <2> QED
    BY <1>6, <2>1, UpsertDocumentKeepsMemory, SearchesKept
<1>7. CASE DeleteDocuments
  <2>1. UNCHANGED <<backend, search, memory, serving>>
    BY <1>7 DEF DeleteDocuments
  <2> QED
    BY <1>7, <2>1, DeleteDocumentsKeepsMemory, SearchesKept
<1>8. CASE LoadTables \/ WriteIndex
  BY <1>8, SyncEndsKnown
<1>9. CASE SyncFails
  <2>1. UNCHANGED <<backend, search, memory, serving>>
    BY <1>9 DEF SyncFails
  <2> QED
    BY <1>9, <2>1, SyncFailsKeepsMemory, SearchesKept
<1>10. CASE RagDies
  BY <1>10, RagDiesKeeps
<1>11. ASSUME NEW s \in Searchers,
              StartSearch(s) \/ EmbedQuery(s) \/ DenseSearch(s) \/ MapRows(s) \/ HydrateParents(s)
       PROVE  Goal
  BY <1>11, SearchStepKeeps
<1>12. CASE UNCHANGED kbVars
  <2>1. UNCHANGED <<backend, search, memory, serving>>
    BY <1>12 DEF kbVars
  <2>2. MemoryInv'
    BY <1>12 DEF kbVars, HitsInv, MemoryInv, Legible
  <2> QED
    BY <2>1, <2>2, SearchesKept
<1> HIDE DEF Goal
<1> QED
  BY <1>2, <1>3, <1>4, <1>5, <1>6, <1>7, <1>8, <1>9, <1>10, <1>11, <1>12 DEF KbNext

\* Whatever syncs, edits, failures and restarts come between the steps of a search: a hit
\* was ranked by scores of its own text and is shown with the section it stands in, unless
\* a new copy of the index came into memory meanwhile or the tables searched were ahead of
\* it (search, _prefuse_candidates, _hydrate_parent_contexts).
THEOREM HitsMatchTheirScores == KbSpec => []HitsAreWhatWasScored
<1>1. KbInit => HitsInv
  BY KbStartsKnown
<1>2. HitsInv /\ [KbNext]_kbVars => HitsInv'
  BY KbNextKeepsHits
<1>3. HitsInv => HitsAreWhatWasScored
  BY DEF HitsInv, SearchInv, HitsAreWhatWasScored
<1> QED
  BY <1>1, <1>2, <1>3, PTL DEF KbSpec


-----------------------------------------------------------------------------
(* The diagnosis loop: what an answer rests on.                            *)

LEMMA FlattenedIsSeq ==
  ASSUME NEW S, NEW ss, NEW n \in Nat, DOMAIN ss = 1..n, \A i \in 1..n : ss[i] \in Seq(S)
  PROVE  Flattened(ss) \in Seq(S)
<1>1. \A i \in 1..n : \E m \in Nat : DOMAIN ss[i] = 1..m
  <2> SUFFICES ASSUME NEW i \in 1..n PROVE \E m \in Nat : DOMAIN ss[i] = 1..m
    OBVIOUS
  <2>1. Len(ss[i]) \in Nat /\ DOMAIN ss[i] = 1..Len(ss[i])
    OBVIOUS
  <2> QED
    BY <2>1
<1>2. /\ \E N \in Nat : DOMAIN Flattened(ss) = 1..N
      /\ \A k \in DOMAIN Flattened(ss) :
           /\ PlaceOf(ss, k)[1] \in 1..n /\ PlaceOf(ss, k)[2] \in DOMAIN ss[PlaceOf(ss, k)[1]]
           /\ Flattened(ss)[k] = ss[PlaceOf(ss, k)[1]][PlaceOf(ss, k)[2]]
  BY <1>1, FlattenedElements
<1>3. ASSUME NEW k \in DOMAIN Flattened(ss) PROVE Flattened(ss)[k] \in S
  <2> DEFINE i == PlaceOf(ss, k)[1]
             j == PlaceOf(ss, k)[2]
  <2>1. i \in 1..n /\ j \in DOMAIN ss[i] /\ Flattened(ss)[k] = ss[i][j]
    BY <1>2
  <2> HIDE DEF i, j
  <2>2. ss[i] \in Seq(S)
    BY <2>1
  <2>3. ss[i][j] \in S
    BY <2>1, <2>2
  <2> QED
    BY <2>1, <2>3
<1>4. PICK N \in Nat : DOMAIN Flattened(ss) = 1..N
  BY <1>2
<1>5. Flattened(ss) = [k \in DOMAIN Flattened(ss) |-> Flattened(ss)[k]]
  BY DEF Flattened
<1> QED
  BY <1>3, <1>4, <1>5

\* Nothing is left out of a flattened list.
LEMMA FlattenedHolds ==
  ASSUME NEW ss, NEW n \in Nat, DOMAIN ss = 1..n,
         \A i \in 1..n : \E m \in Nat : DOMAIN ss[i] = 1..m,
         NEW i \in 1..n, NEW j \in DOMAIN ss[i]
  PROVE  \E k \in DOMAIN Flattened(ss) : Flattened(ss)[k] = ss[i][j]
<1> DEFINE S == Places(ss)
           q == <<i, j>>
           B(p) == {r \in S : Before(r, p)}
           k == Cardinality(B(q)) + 1
<1>1. IsFiniteSet(S) /\ S \subseteq Nat \X Nat
  BY FlattenedPlaces
<1>2. q \in S
  BY DEF Places
<1> HIDE DEF S
<1>a. ASSUME NEW x \in S, NEW y \in S,
             Cardinality({r \in S : Before(r, x)}) = Cardinality({r \in S : Before(r, y)})
      PROVE  x = y
  BY <1>1, <1>a, PairsAreApart
<1>3. Cardinality(S) \in Nat /\ Cardinality(B(q)) \in Nat /\ Cardinality(B(q)) < Cardinality(S)
  <2>1. B(q) \subseteq S \ {q}
    BY <1>1, <1>2 DEF Before
  <2>2. IsFiniteSet(S \ {q}) /\ Cardinality(S \ {q}) = Cardinality(S) - 1 /\ Cardinality(S) \in Nat
    BY <1>1, <1>2, FS_RemoveElement, FS_CardinalityType
  <2> HIDE DEF B, q
  <2>3. IsFiniteSet(B(q)) /\ Cardinality(B(q)) <= Cardinality(S \ {q})
    BY <2>1, <2>2, FS_Subset
  <2>4. Cardinality(B(q)) \in Nat
    BY <2>3, FS_CardinalityType
  <2> QED
    BY <2>2, <2>3, <2>4
<1>4. k \in 1..Cardinality(S) /\ Cardinality(B(q)) = k - 1
  <2> HIDE DEF B, q
  <2> QED
    BY <1>3
<1>5. PlaceOf(ss, k) \in S /\ Cardinality(B(PlaceOf(ss, k))) = k - 1
  <2> HIDE DEF k
  <2>1. \E p \in S : Cardinality({r \in S : Before(r, p)}) = k - 1
    BY <1>2, <1>4
  <2> QED
    BY <2>1 DEF PlaceOf, S
<1>6. PlaceOf(ss, k) = q
  <2> PICK p : p = PlaceOf(ss, k)
    OBVIOUS
  <2>1. p \in S /\ Cardinality(B(p)) = Cardinality(B(q))
    BY <1>4, <1>5
  <2>2. p = q
    <3> HIDE DEF k, q
    <3> QED
      BY <1>2, <1>a, <2>1
  <2> QED
    BY <2>2
<1>7. DOMAIN Flattened(ss) = 1..Cardinality(S)
  BY DEF Flattened, Places, S
<1>8. Flattened(ss)[k] = ss[PlaceOf(ss, k)[1]][PlaceOf(ss, k)[2]]
  <2> HIDE DEF k
  <2> QED
    BY <1>4 DEF Flattened, PlaceOf, Places, Before, S
<1>9. PlaceOf(ss, k)[1] = i /\ PlaceOf(ss, k)[2] = j
  BY <1>6
<1> HIDE DEF k
<1> QED
  BY <1>4, <1>7, <1>8, <1>9


\* first is where a list that is searched for the first other element than the searches
\* has it; the positions in I are kept: those from from + 1 to to whatever they hold.
FirstOther(all, n, I, first, from, to) ==
  /\ {n, from, to} \subseteq Nat /\ to <= from + 2
  /\ I \in SUBSET (1..n) /\ first \in I
  /\ \A j \in 1..(first - 1) : all[j] \in Searches
  /\ \A j \in I : j < first => \/ j \in (from + 1)..to
                                \/ \A l \in 1..(j - 1) : all[l] # all[j]

\* Of a list in which only two kinds of elements come before the first other one, and in
\* which they are kept once each and at most twice more, the first other one is among
\* the first five.
LEMMA FirstOtherIsEarly ==
  ASSUME NEW all, NEW n, NEW from, NEW to, NEW I, NEW first,
         FirstOther(all, n, I, first, from, to)
  PROVE  Cardinality({j \in I : j <= first}) <= 5
<1> USE DEF FirstOther
<1> DEFINE G == (from + 1)..to
           F == {j \in 1..(first - 1) : \A l \in 1..(j - 1) : all[l] # all[j]}
           f == [j \in F |-> all[j]]
<1>1. IsFiniteSet(G) /\ Cardinality(G) \in Nat /\ Cardinality(G) <= 2
  <2>1. /\ IsFiniteSet((from + 1)..to)
        /\ Cardinality((from + 1)..to) = IF from + 1 > to THEN 0 ELSE to - (from + 1) + 1
    <3>1. from + 1 \in Int /\ to \in Int
      OBVIOUS
    <3> QED
      BY <3>1, FS_Interval
  <2>2. (IF from + 1 > to THEN 0 ELSE to - (from + 1) + 1) <= 2
    OBVIOUS
  <2>3. Cardinality(G) \in Nat
    BY <2>1, FS_CardinalityType
  <2> QED
    BY <2>1, <2>2, <2>3
<1>2. IsFiniteSet(Searches) /\ Cardinality(Searches) <= 2 /\ Cardinality(Searches) \in Nat
  <2>1. Searches = {KnowledgeSearch} \cup {CaseSearch}
    BY DEF Searches
  <2>2. IsFiniteSet({KnowledgeSearch}) /\ Cardinality({KnowledgeSearch}) = 1
    BY FS_Singleton
  <2>3. CASE CaseSearch \in {KnowledgeSearch}
    <3>1. Searches = {KnowledgeSearch}
      BY <2>1, <2>3
    <3> QED
      BY <2>2, <3>1
  <2>4. CASE CaseSearch \notin {KnowledgeSearch}
    <3>1. /\ IsFiniteSet({KnowledgeSearch} \cup {CaseSearch})
          /\ Cardinality({KnowledgeSearch} \cup {CaseSearch}) = Cardinality({KnowledgeSearch}) + 1
      BY <2>2, <2>4, FS_AddElement
    <3> QED
      BY <2>1, <2>2, <3>1
  <2> QED
    BY <2>3, <2>4
<1>3. f \in Injection(F, Searches)
  <2>1. f \in [F -> Searches]
    OBVIOUS
  <2>2. \A i, j \in F : i < j => f[i] # f[j]
    OBVIOUS
  <2>3. \A i, j \in F : i = j \/ i < j \/ j < i
    OBVIOUS
  <2> HIDE DEF f, F
  <2>4. \A i, j \in F : f[i] = f[j] => i = j
    BY <2>2, <2>3
  <2> QED
    BY <2>1, <2>4 DEF Injection, IsInjective
<1> HIDE DEF f
<1>4. IsFiniteSet(F) /\ Cardinality(F) <= 2
  BY <1>2, <1>3, FS_Injection, FS_CardinalityType
<1>5. {j \in I : j <= first} \subseteq G \cup F \cup {first}
  <2> SUFFICES ASSUME NEW j \in I, j <= first, j # first PROVE j \in G \/ j \in F
    OBVIOUS
  <2>1. j < first /\ j \in 1..(first - 1)
    OBVIOUS
  <2> QED
    BY <2>1
<1> HIDE DEF G, F
<1>6. IsFiniteSet(G \cup F) /\ Cardinality(G \cup F) <= 4 /\ Cardinality(G \cup F) \in Nat
  <2>1. Cardinality(F) \in Nat
    BY <1>4, FS_CardinalityType
  <2>2. IsFiniteSet(G \cup F) /\ Cardinality(G \cup F) = Cardinality(G) + Cardinality(F) - Cardinality(G \cap F)
    BY <1>1, <1>4, FS_Union
  <2>3. Cardinality(G \cap F) \in Nat
    <3>1. IsFiniteSet(G \cap F)
      BY <1>1, FS_Subset
    <3> QED
      BY <3>1, FS_CardinalityType
  <2>4. Cardinality(G \cup F) \in Nat
    BY <2>2, FS_CardinalityType
  <2> QED
    BY <1>1, <1>4, <2>1, <2>2, <2>3, <2>4
<1>7. IsFiniteSet(G \cup F \cup {first}) /\ Cardinality(G \cup F \cup {first}) <= 5
  <2> PICK H : H = G \cup F
    OBVIOUS
  <2>1. IsFiniteSet(H) /\ Cardinality(H) <= 4 /\ Cardinality(H) \in Nat
    BY <1>6
  <2>2. IsFiniteSet(H \cup {first}) /\ Cardinality(H \cup {first}) <= 5
    <3>1. CASE first \in H
      <4>1. H \cup {first} = H
        BY <3>1
      <4> QED
        BY <2>1, <4>1
    <3>2. CASE first \notin H
      <4>1. /\ IsFiniteSet(H \cup {first})
            /\ Cardinality(H \cup {first}) = Cardinality(H) + 1
        BY <2>1, <3>2, FS_AddElement
      <4> QED
        BY <2>1, <4>1
    <3> QED
      BY <3>1, <3>2
  <2> QED
    BY <2>2
<1>8. Cardinality({j \in I : j <= first}) <= Cardinality(G \cup F \cup {first})
  <2> PICK K : K = {j \in I : j <= first}
    OBVIOUS
  <2>1. Cardinality(K) <= Cardinality(G \cup F \cup {first})
    BY <1>5, <1>7, FS_Subset
  <2> QED
    BY <2>1
<1>9. Cardinality({j \in I : j <= first}) \in Nat /\ Cardinality(G \cup F \cup {first}) \in Nat
  <2> PICK K : K = {j \in I : j <= first}
    OBVIOUS
  <2>1. IsFiniteSet(K)
    BY <1>5, <1>7, FS_Subset
  <2> QED
    BY <1>7, <2>1, FS_CardinalityType
<1> QED
  BY <1>7, <1>8, <1>9

\* So it is kept by a cut to five or more.
LEMMA FirstOtherIsKept ==
  ASSUME NEW all, NEW n, NEW from, NEW to, NEW I, NEW first, all[first] \notin Searches,
         FirstOther(all, n, I, first, from, to),
         NEW m \in Nat, m >= 5
  PROVE  \E k \in DOMAIN FirstOf(Selected(all, I), m) : FirstOf(Selected(all, I), m)[k] \notin Searches
<1>1. Cardinality({j \in I : j <= first}) <= 5
  BY FirstOtherIsEarly
<1> USE DEF FirstOther
<1> DEFINE k == Cardinality({j \in I : j <= first})
           s == Selected(all, I)
           J == {i \in DOMAIN s : i <= m}
<1>2. k \in DOMAIN s /\ s[k] = all[first]
  BY SelectedPlace, ZenonT(30)
<1>3. DOMAIN s = 1..Cardinality(I) /\ Cardinality(I) \in 0..n
  BY SelectedElements
<1> HIDE DEF k, s
<1>4. k \in J /\ J \in SUBSET (1..n)
  <2>1. k <= m /\ k \in Nat
    <3>1. Cardinality(I) \in Nat /\ k \in 1..Cardinality(I)
      BY <1>2, <1>3
    <3>2. k <= 5
      BY <1>1 DEF k
    <3> QED
      BY <3>1, <3>2
  <2>2. DOMAIN s \subseteq 1..n
    BY <1>3
  <2> QED
    BY <1>2, <2>1, <2>2
<1>5. Cardinality({j \in J : j <= k}) \in DOMAIN Selected(s, J)
      /\ Selected(s, J)[Cardinality({j \in J : j <= k})] = s[k]
  <2> HIDE DEF J
  <2> QED
    BY <1>4, SelectedPlace, ZenonT(30)
<1>6. FirstOf(s, m) = Selected(s, J)
  BY DEF FirstOf
<1> HIDE DEF J
<1> QED
  BY <1>2, <1>5, <1>6 DEF s


LEMMA PartsAreSeqs ==
  ASSUME NEW S, NEW s \in Seq(S)
  PROVE  /\ \A n : FirstOf(s, n) \in Seq(S)
         /\ Distinct(s) \in Seq(S)
         /\ \A X : Only(s, X) \in Seq(S) /\ Without(s, X) \in Seq(S)
<1>1. \A n : {i \in DOMAIN s : i <= n} \in SUBSET DOMAIN s
  OBVIOUS
<1>2. {i \in DOMAIN s : \A j \in 1..(i - 1) : s[j] # s[i]} \in SUBSET DOMAIN s
  OBVIOUS
<1>3. \A X : {i \in DOMAIN s : s[i] \in X} \in SUBSET DOMAIN s /\ {i \in DOMAIN s : s[i] \notin X} \in SUBSET DOMAIN s
  OBVIOUS
<1>4. ASSUME NEW n PROVE FirstOf(s, n) \in Seq(S)
  BY <1>1, SelectedIsSeq DEF FirstOf
<1>5. Distinct(s) \in Seq(S)
  BY <1>2, SelectedIsSeq DEF Distinct
<1>6. ASSUME NEW X PROVE Only(s, X) \in Seq(S)
  BY <1>3, SelectedIsSeq DEF Only
<1>7. ASSUME NEW X PROVE Without(s, X) \in Seq(S)
  BY <1>3, SelectedIsSeq DEF Without
<1> QED
  BY <1>4, <1>5, <1>6, <1>7

\* A message that names a domain is looked at in that domain first.
LEMMA DomainsOfATicket ==
  ASSUME NEW t \in Ticket, NEW led
  PROVE  PrimaryDomains(t) \in Seq(Domains) /\ ExpandedDomains(t, led) \in Seq(Domains)
<1>1. t.explicit \in Seq(Domains) /\ t.matched \in Seq(Domains)
  BY DEF Ticket
<1>2. PrimaryDomains(t) \in Seq(Domains)
  <2> DEFINE s == IF t.explicit # <<>> THEN t.explicit ELSE t.matched
  <2>1. s \in Seq(Domains)
    BY <1>1
  <2>2. PrimaryDomains(t) = FirstOf(Distinct(s), 2)
    BY DEF PrimaryDomains
  <2> HIDE DEF s
  <2> QED
    BY <2>1, <2>2, PartsAreSeqs
<1>3. ASSUME NEW X PROVE Without(t.matched, X) \in Seq(Domains)
  BY <1>1, PartsAreSeqs
<1> DEFINE primary == PrimaryDomains(t)
           near == Flattened([i \in DOMAIN primary |-> Adjacency[primary[i]]])
<1>4. near \in Seq(Domains)
  <2> DEFINE ss == [i \in DOMAIN primary |-> Adjacency[primary[i]]]
  <2>1. Len(primary) \in Nat /\ DOMAIN primary = 1..Len(primary) /\ \A i \in DOMAIN primary : primary[i] \in Domains
    BY <1>2
  <2>2. DOMAIN ss = 1..Len(primary) /\ \A i \in 1..Len(primary) : ss[i] \in Seq(Domains)
    BY <2>1, ToolTables
  <2> HIDE DEF ss
  <2>3. Flattened(ss) \in Seq(Domains)
    BY <2>1, <2>2, FlattenedIsSeq
  <2> QED
    BY <2>3 DEF ss
<1> HIDE DEF near
<1>5. ASSUME NEW X, NEW Y
      PROVE  FirstOf(Distinct(Without(near, X) \o Without(t.matched, Y)), 2) \in Seq(Domains)
  <2>1. Without(near, X) \in Seq(Domains) /\ Without(t.matched, Y) \in Seq(Domains)
    BY <1>3, <1>4, PartsAreSeqs
  <2>2. Without(near, X) \o Without(t.matched, Y) \in Seq(Domains)
    BY <2>1
  <2> PICK s : s = Without(near, X) \o Without(t.matched, Y)
    OBVIOUS
  <2>3. FirstOf(Distinct(s), 2) \in Seq(Domains)
    BY <2>2, PartsAreSeqs
  <2> QED
    BY <2>3
<1>6. <<>> \in Seq(Domains)
  OBVIOUS
<1>7. ExpandedDomains(t, led) \in Seq(Domains)
  BY <1>5, <1>6 DEF ExpandedDomains, near
<1> QED
  BY <1>2, <1>7

\* Four lists, one after the other.
LEMMA FourLists ==
  ASSUME NEW S, NEW a \in Seq(S), NEW b \in Seq(S), NEW c \in Seq(S), NEW d \in Seq(S)
  PROVE  /\ a \o b \o c \o d \in Seq(S)
         /\ \A j \in 1..Len(c) : Len(a) + Len(b) + j \in 1..Len(a \o b \o c \o d)
                                 /\ (a \o b \o c \o d)[Len(a) + Len(b) + j] = c[j]
<1>1. Len(a) \in Nat /\ Len(b) \in Nat /\ Len(c) \in Nat /\ Len(d) \in Nat
  OBVIOUS
<1>2. a \o b \in Seq(S) /\ Len(a \o b) = Len(a) + Len(b)
  OBVIOUS
<1> PICK e : e = a \o b
  OBVIOUS
<1>3. e \o c \in Seq(S) /\ Len(e \o c) = Len(e) + Len(c) /\ \A j \in 1..Len(c) : (e \o c)[Len(e) + j] = c[j]
  BY <1>2
<1> PICK f : f = e \o c
  OBVIOUS
<1>4. f \o d \in Seq(S) /\ Len(f \o d) = Len(f) + Len(d) /\ \A j \in 1..Len(f) : (f \o d)[j] = f[j]
  BY <1>3
<1>5. ASSUME NEW j \in 1..Len(c)
      PROVE  Len(e) + j \in 1..Len(f) /\ Len(e) + j \in 1..Len(f \o d)
  BY <1>1, <1>2, <1>3, <1>4
<1>6. a \o b \o c \o d = f \o d
  OBVIOUS
<1> QED
  BY <1>2, <1>3, <1>4, <1>5, <1>6


\* The tools of a primary domain, less the helpers, are looked at whatever was seen.
LEMMA ADomainHasATool ==
  ASSUME NEW primary \in Seq(Domains), primary # <<>>,
         NEW helpers, \A i \in DOMAIN primary : helpers[i] \in Seq(Tools)
  PROVE  LET tools == Flattened([i \in DOMAIN primary |->
                                   Without(ToolGroup[primary[i]], Helpers) \o helpers[i]])
         IN tools \in Seq(Tools) /\ \E k \in DOMAIN tools : tools[k] \notin Searches
<1> DEFINE own(i) == Without(ToolGroup[primary[i]], Helpers)
           ss == [i \in DOMAIN primary |-> own(i) \o helpers[i]]
<1>1. Len(primary) \in Nat /\ DOMAIN primary = 1..Len(primary) /\ \A i \in DOMAIN primary : primary[i] \in Domains
  OBVIOUS
<1>2. \A i \in 1..Len(primary) : ToolGroup[primary[i]] \in Seq(Tools)
  BY <1>1, ToolTables
<1>3. \A i \in 1..Len(primary) : own(i) \in Seq(Tools)
  BY <1>2, PartsAreSeqs
<1>4. DOMAIN ss = 1..Len(primary) /\ \A i \in 1..Len(primary) : ss[i] \in Seq(Tools)
  <2> HIDE DEF own
  <2> QED
    BY <1>1, <1>3
<1>5. 1 \in 1..Len(primary)
  BY <1>1
<1>6. PICK j \in DOMAIN own(1) : own(1)[j] \notin Searches
  <2> DEFINE s == ToolGroup[primary[1]]
  <2>1. s \in Seq(Tools)
    BY <1>2, <1>5
  <2>2. PICK i \in DOMAIN s : s[i] \notin Helpers \cup Searches
    BY <1>1, <1>5, ToolTables
  <2> HIDE DEF s
  <2>3. i \in {l \in DOMAIN s : s[l] \notin Helpers}
    BY <2>2
  <2> PICK I \in SUBSET DOMAIN s : I = {l \in DOMAIN s : s[l] \notin Helpers}
    OBVIOUS
  <2>4. \E k \in DOMAIN Selected(s, I) : Selected(s, I)[k] = s[i]
    BY <2>1, <2>3, SelectedHas
  <2>5. own(1) = Selected(s, I)
    BY DEF Without, s
  <2> QED
    BY <2>2, <2>4, <2>5
<1>7. j \in DOMAIN ss[1] /\ ss[1][j] = own(1)[j]
  <2>1. own(1) \in Seq(Tools) /\ helpers[1] \in Seq(Tools) /\ ss[1] = own(1) \o helpers[1]
    BY <1>1, <1>3, <1>5
  <2> HIDE DEF ss, own
  <2> PICK a \in Seq(Tools), b \in Seq(Tools) : a = own(1) /\ b = helpers[1]
    BY <2>1
  <2>2. j \in DOMAIN a
    BY <1>6
  <2>3. j \in DOMAIN (a \o b) /\ (a \o b)[j] = a[j]
    BY <2>2
  <2> QED
    BY <2>1, <2>3
<1> HIDE DEF own
<1>8. Flattened(ss) \in Seq(Tools)
  <2> HIDE DEF ss
  <2> QED
    BY <1>1, <1>4, FlattenedIsSeq
<1>9. \E k \in DOMAIN Flattened(ss) : Flattened(ss)[k] = ss[1][j]
  <2> HIDE DEF ss
  <2>1. \A i \in 1..Len(primary) : \E m \in Nat : DOMAIN ss[i] = 1..m
    <3> SUFFICES ASSUME NEW i \in 1..Len(primary) PROVE \E m \in Nat : DOMAIN ss[i] = 1..m
      OBVIOUS
    <3>1. Len(ss[i]) \in Nat /\ DOMAIN ss[i] = 1..Len(ss[i])
      BY <1>4
    <3> QED
      BY <3>1
  <2> QED
    BY <1>1, <1>4, <1>5, <1>7, <2>1, FlattenedHolds
<1>10. \E k \in DOMAIN Flattened(ss) : Flattened(ss)[k] \notin Searches
  <2> HIDE DEF ss
  <2> QED
    BY <1>6, <1>7, <1>9
<1> QED
  BY <1>8, <1>10 DEF own

\* Whatever was seen and found, there is a candidate to look at other than the searches.
LEMMA CandidatesHoldATool ==
  ASSUME NEW t \in Ticket, NEW S, NEW led \in Seq(S), NEW have
  PROVE  /\ \E U : CandidateTools(t, led, have) \in Seq(U)
         /\ \E k \in DOMAIN CandidateTools(t, led, have) : CandidateTools(t, led, have)[k] \notin Searches
<1> DEFINE primary == PrimaryDomains(t)
           expanded == ExpandedDomains(t, led)
           helpers(d) == IF led = <<>> \/ expanded # <<>> THEN <<>> ELSE Only(ToolGroup[d], Helpers)
           ofPrimary == Flattened([i \in DOMAIN primary |->
                          Without(ToolGroup[primary[i]], Helpers) \o helpers(primary[i])])
           ofExpanded == Flattened([i \in DOMAIN expanded |-> ExpansionPriority[expanded[i]]])
           proposed == PlaybookTools(t, led)
           searches == (IF IncludeKnowledge(t, led, have) THEN <<KnowledgeSearch>> ELSE <<>>)
                       \o (IF IncludeCases(t, led, have) THEN <<CaseSearch>> ELSE <<>>)
           ofDomains == IF primary # <<>> THEN ofPrimary \o ofExpanded ELSE Defaults
           anyway == (Len(proposed) + 1)..(Len(proposed) + Len(searches) + IF primary = <<>> THEN Len(Defaults) ELSE 0)
           seen == [i \in DOMAIN led |-> led[i].tool]
           all == proposed \o searches \o ofDomains \o seen
           U == Tools \cup {led[i].tool : i \in DOMAIN led}
           I == {i \in DOMAIN all : i \in anyway \/ \A j \in 1..(i - 1) : all[j] # all[i]}
<1>1. primary \in Seq(Domains) /\ expanded \in Seq(Domains)
  BY DomainsOfATicket
<1>2. CandidateTools(t, led, have) = FirstOf(Selected(all, I), MaxCandidates)
  BY DEF CandidateTools
<1>3. proposed \in Seq(U)
  <2>1. t.playbook \in Seq(Tools)
    BY DEF Ticket
  <2>2. t.playbook \in Seq(U)
    BY <2>1
  <2> HIDE DEF U
  <2> QED
    BY <2>2, PartsAreSeqs DEF PlaybookTools
<1>4. searches \in Seq(Searches) /\ Len(searches) <= 2 /\ Len(searches) \in Nat
  <2>1. <<KnowledgeSearch>> \in Seq(Searches) /\ <<CaseSearch>> \in Seq(Searches) /\ <<>> \in Seq(Searches)
    BY DEF Searches
  <2> QED
    BY <2>1
<1>5. ofDomains \in Seq(Tools) /\ \E k \in DOMAIN ofDomains : ofDomains[k] \notin Searches
  <2>1. CASE primary # <<>>
    <3>1. \A d \in Domains : helpers(d) \in Seq(Tools)
      <4>1. \A d \in Domains : ToolGroup[d] \in Seq(Tools)
        BY ToolTables
      <4>2. \A d \in Domains : Only(ToolGroup[d], Helpers) \in Seq(Tools)
        BY <4>1, PartsAreSeqs
      <4>3. <<>> \in Seq(Tools)
        OBVIOUS
      <4> QED
        BY <4>2, <4>3
    <3> DEFINE h == [i \in DOMAIN primary |-> helpers(primary[i])]
    <3>2. \A i \in DOMAIN primary : h[i] \in Seq(Tools) /\ h[i] = helpers(primary[i])
      <4>1. \A i \in DOMAIN primary : primary[i] \in Domains
        BY <1>1
      <4> HIDE DEF helpers
      <4> QED
        BY <3>1, <4>1
    <3> HIDE DEF h, helpers, primary
    <3> DEFINE tools == Flattened([i \in DOMAIN primary |->
                                     Without(ToolGroup[primary[i]], Helpers) \o h[i]])
    <3>3. tools \in Seq(Tools) /\ \E k \in DOMAIN tools : tools[k] \notin Searches
      BY <1>1, <2>1, <3>2, ADomainHasATool
    <3>4. tools = ofPrimary
      <4>1. [i \in DOMAIN primary |-> Without(ToolGroup[primary[i]], Helpers) \o h[i]]
            = [i \in DOMAIN primary |-> Without(ToolGroup[primary[i]], Helpers) \o helpers(primary[i])]
        BY <3>2
      <4> QED
        BY <4>1
    <3>5. ofExpanded \in Seq(Tools)
      <4> DEFINE ss == [i \in DOMAIN expanded |-> ExpansionPriority[expanded[i]]]
      <4> HIDE DEF expanded
      <4>1. Len(expanded) \in Nat /\ DOMAIN expanded = 1..Len(expanded) /\ \A i \in DOMAIN expanded : expanded[i] \in Domains
        BY <1>1
      <4>2. DOMAIN ss = 1..Len(expanded) /\ \A i \in 1..Len(expanded) : ss[i] \in Seq(Tools)
        BY <4>1, ToolTables
      <4> HIDE DEF ss
      <4>3. Flattened(ss) \in Seq(Tools)
        BY <4>1, <4>2, FlattenedIsSeq
      <4> QED
        BY <4>3 DEF ss
    <3> HIDE DEF tools, ofPrimary, ofExpanded
    <3>6. PICK k \in DOMAIN ofPrimary : ofPrimary[k] \notin Searches
      BY <3>3, <3>4
    <3>7. /\ ofPrimary \o ofExpanded \in Seq(Tools)
          /\ k \in DOMAIN (ofPrimary \o ofExpanded) /\ (ofPrimary \o ofExpanded)[k] = ofPrimary[k]
      BY <3>3, <3>4, <3>5
    <3>8. ofDomains = ofPrimary \o ofExpanded
      BY <2>1
    <3> HIDE DEF ofDomains
    <3> QED
      BY <3>6, <3>7, <3>8
  <2>2. CASE primary = <<>>
    <3>1. Defaults \in Seq(Tools) /\ 1 \in DOMAIN Defaults /\ Defaults[1] \notin Searches
      BY ToolTables
    <3> HIDE DEF primary
    <3> QED
      BY <2>2, <3>1
  <2> QED
    BY <2>1, <2>2
<1>6. primary = <<>> => ofDomains = Defaults /\ \A j \in DOMAIN ofDomains : ofDomains[j] \notin Searches
  <2>1. \A j \in DOMAIN Defaults : Defaults[j] \notin Searches
    BY ToolTables
  <2> HIDE DEF primary
  <2> QED
    BY <2>1
<1>7. searches \in Seq(U) /\ ofDomains \in Seq(U)
  <2> HIDE DEF searches, ofDomains
  <2>1. Searches \subseteq U /\ Tools \subseteq U
    BY ReactAssumptions
  <2> QED
    BY <1>4, <1>5, <2>1
<1>8. seen \in Seq(U)
  <2>1. Len(led) \in Nat /\ DOMAIN led = 1..Len(led)
    OBVIOUS
  <2>2. \A i \in DOMAIN led : seen[i] \in U
    OBVIOUS
  <2>3. seen = [i \in 1..Len(led) |-> seen[i]]
    BY <2>1
  <2> HIDE DEF seen, U
  <2> QED
    BY <2>1, <2>2, <2>3
<1> HIDE DEF primary, expanded, proposed, searches, ofDomains, seen, U
<1>9. /\ all \in Seq(U)
      /\ \A j \in 1..Len(ofDomains) : /\ Len(proposed) + Len(searches) + j \in 1..Len(all)
                                      /\ all[Len(proposed) + Len(searches) + j] = ofDomains[j]
  BY <1>3, <1>7, <1>8, FourLists
<1>10. Len(all) \in Nat /\ DOMAIN all = 1..Len(all) /\ Len(proposed) \in Nat
  BY <1>3, <1>9
<1> HIDE DEF all
<1> DEFINE L == Len(proposed) + Len(searches)
           X == {i \in 1..Len(all) : all[i] \notin Searches}
<1>11. L \in Nat /\ L <= Len(proposed) + 2 /\ Len(ofDomains) \in Nat /\ DOMAIN ofDomains = 1..Len(ofDomains)
  BY <1>4, <1>5, <1>10
<1>12. X # {} /\ X \in SUBSET Nat
  BY <1>5, <1>9, <1>11
<1>13. PICK first \in X : \A i \in X : first <= i
  BY <1>12, LeastNumber
<1>14. \A j \in 1..(first - 1) : all[j] \in Searches
  <2> SUFFICES ASSUME NEW j \in 1..(first - 1), all[j] \notin Searches PROVE FALSE
    OBVIOUS
  <2>1. first \in 1..Len(all)
    BY <1>13
  <2>2. j \in 1..Len(all) /\ j < first
    BY <1>10, <2>1
  <2>3. j \in X
    BY <2>2
  <2>4. first <= j
    BY <1>13, <2>3
  <2> QED
    BY <2>1, <2>2, <2>4
<1>15. first \in I
  BY <1>10, <1>13, <1>14
<1>16. ASSUME NEW j \in I, j < first
       PROVE  j \in (Len(proposed) + 1)..L \/ \A l \in 1..(j - 1) : all[l] # all[j]
  <2> SUFFICES ASSUME j \in anyway PROVE j \in (Len(proposed) + 1)..L
    OBVIOUS
  <2>1. j \in 1..Len(all) /\ first \in 1..Len(all)
    BY <1>10, <1>13
  <2>2. j \in 1..(first - 1)
    BY <1>10, <1>16, <2>1
  <2>3. all[j] \in Searches
    BY <1>14, <2>2
  <2>4. CASE primary # <<>>
    <3>1. j \in (Len(proposed) + 1)..(L + 0)
      BY <2>4
    <3> QED
      BY <1>11, <3>1
  <2>5. CASE primary = <<>>
    <3>1. j \in (Len(proposed) + 1)..(L + Len(ofDomains))
      BY <1>6, <2>5
    <3>2. ASSUME j > L PROVE FALSE
      <4> HIDE DEF L
      <4>1. j - L \in 1..Len(ofDomains) /\ L + (j - L) = j
        BY <1>10, <1>11, <2>1, <3>1, <3>2
      <4>2. all[L + (j - L)] = ofDomains[j - L]
        BY <1>9, <4>1 DEF L
      <4> QED
        BY <1>6, <1>11, <2>3, <2>5, <4>1, <4>2
    <3> HIDE DEF L
    <3> QED
      BY <1>10, <1>11, <2>1, <3>1, <3>2
  <2> QED
    BY <2>4, <2>5
<1>17. FirstOther(all, Len(all), I, first, Len(proposed), L)
  <2>1. I \in SUBSET (1..Len(all))
    BY <1>10
  <2>2. {Len(all), Len(proposed), L} \subseteq Nat
    BY <1>10, <1>11
  <2> HIDE DEF I, L
  <2> QED
    BY <1>11, <1>14, <1>15, <1>16, <2>1, <2>2 DEF FirstOther
<1>18. MaxCandidates \in Nat /\ MaxCandidates >= 5 /\ all[first] \notin Searches
  BY <1>13, ReactAssumptions
<1>19. CandidateTools(t, led, have) \in Seq(U)
  <2>1. I \in SUBSET DOMAIN all
    OBVIOUS
  <2> HIDE DEF I
  <2>2. Selected(all, I) \in Seq(U)
    BY <1>9, <2>1, SelectedIsSeq
  <2>3. FirstOf(Selected(all, I), MaxCandidates) \in Seq(U)
    BY <2>2, PartsAreSeqs
  <2> QED
    BY <1>2, <2>3
<1> HIDE DEF I, L
<1> QED
  BY <1>2, <1>17, <1>18, <1>19, FirstOtherIsKept


\* A look is there when nothing more is probed for: the probe is of the candidates other
\* than the searches, and there is one.
LEMMA NoProbeNeedsALook ==
  ASSUME NEW led, NEW U, NEW candidates \in Seq(U),
         \E k \in DOMAIN candidates : candidates[k] \notin Searches,
         InitialProbe(led, candidates) = <<>>
  PROVE  \E i \in DOMAIN led : led[i].tool # KnowledgeSearch
<1> DEFINE limit == IF MaxParallelBranches < 3 THEN MaxParallelBranches ELSE 3
           w == Without(candidates, Searches)
           d == Distinct(w)
<1>1. 1 <= limit
  BY ReactAssumptions
<1> HIDE DEF limit
<1>2. w \in Seq(U) /\ d \in Seq(U)
  BY PartsAreSeqs
<1>3. \E k \in DOMAIN w : TRUE
  <2> PICK i \in DOMAIN candidates : candidates[i] \notin Searches
    OBVIOUS
  <2> PICK I \in SUBSET DOMAIN candidates : I = {l \in DOMAIN candidates : candidates[l] \notin Searches}
    OBVIOUS
  <2>1. \E k \in DOMAIN Selected(candidates, I) : Selected(candidates, I)[k] = candidates[i]
    BY SelectedHas
  <2> QED
    BY <2>1 DEF Without
<1> HIDE DEF w
<1>4. \E k \in DOMAIN d : TRUE
  <2>1. 1 \in DOMAIN w
    BY <1>2, <1>3
  <2> PICK I \in SUBSET DOMAIN w : I = {i \in DOMAIN w : \A j \in 1..(i - 1) : w[j] # w[i]}
    OBVIOUS
  <2>2. 1 \in I
    BY <2>1
  <2>3. \E k \in DOMAIN Selected(w, I) : Selected(w, I)[k] = w[1]
    BY <1>2, <2>2, SelectedHas
  <2> QED
    BY <2>3 DEF Distinct
<1> HIDE DEF d
<1>5. FirstOf(d, limit) # <<>>
  <2>1. 1 \in DOMAIN d
    BY <1>2, <1>4
  <2> PICK I \in SUBSET DOMAIN d : I = {i \in DOMAIN d : i <= limit}
    OBVIOUS
  <2>2. 1 \in I
    BY <1>1, <2>1
  <2>3. \E k \in DOMAIN Selected(d, I) : Selected(d, I)[k] = d[1]
    BY <1>2, <2>2, SelectedHas
  <2>4. Selected(d, I) # <<>>
    BY <2>3
  <2> QED
    BY <2>4 DEF FirstOf
<1>6. LiveObservationCount(led) > 0
  BY <1>5 DEF InitialProbe, limit, d, w
<1>7. {i \in DOMAIN led : led[i].tool # KnowledgeSearch} # {}
  <2> SUFFICES ASSUME {i \in DOMAIN led : led[i].tool # KnowledgeSearch} = {} PROVE FALSE
    OBVIOUS
  <2>1. LiveObservationCount(led) = 0
    BY FS_EmptySet DEF LiveObservationCount
  <2> QED
    BY <1>6, <2>1
<1> QED
  BY <1>7

\* A tool that finds something wrong is no search.
AnomalousIsALook(o) == o.result.kind = "anomalous" => o.tool # KnowledgeSearch

LookInv ==
  /\ ticket \in Ticket
  /\ \A t \in DOMAIN toolCache : toolCache[t].kind = "anomalous" => t # KnowledgeSearch
  /\ \A i \in DOMAIN batch : AnomalousIsALook(batch[i])
  /\ \A i \in DOMAIN ledger : AnomalousIsALook(ledger[i])
  /\ AnswersRestOnALook

LEMMA LoopStartsUnanswered == ReactInit => LookInv
<1> SUFFICES ASSUME ReactInit PROVE LookInv
  OBVIOUS
<1>1. ticket \in Ticket /\ toolCache = <<>> /\ batch = <<>> /\ ledger = <<>> /\ stopReason = ""
  BY ReactAssumptions DEF ReactInit
<1>2. ~Answered
  BY <1>1 DEF Answered
<1>3. /\ \A t \in DOMAIN toolCache : toolCache[t].kind = "anomalous" => t # KnowledgeSearch
      /\ \A i \in DOMAIN batch : AnomalousIsALook(batch[i])
      /\ \A i \in DOMAIN ledger : AnomalousIsALook(ledger[i])
  <2>1. \A i \in DOMAIN <<>> : FALSE
    OBVIOUS
  <2> QED
    BY <1>1, <2>1
<1> QED
  BY <1>1, <1>2, <1>3 DEF LookInv, AnswersRestOnALook

LEMMA AnomaliesAreNoSearch ==
  ASSUME NEW t, NEW r \in ResultsOf(t), r.kind = "anomalous"
  PROVE  t # KnowledgeSearch
<1> SUFFICES ASSUME t = KnowledgeSearch PROVE FALSE
  OBVIOUS
<1>1. r = [kind |-> "failed", texts |-> EmptyTexts[t], found |-> 0]
      \/ \E n \in 0..2 : r = [kind |-> "normal", texts |-> n, found |-> n]
  BY DEF ResultsOf
<1> QED
  BY <1>1

\* The model answers only when no probe is left to run.
LEMMA DecidingKeepsLook ==
  ASSUME BudgetInv, LookInv,
         ProbeExpandedDomains \/ ModelAnswers \/ \E asked \in Requests : ModelAsks(asked)
  PROVE  LookInv'
<1>1. Deciding /\ UNCHANGED <<ticket, toolCache, ledger>>
  BY DEF ProbeExpandedDomains, ModelAnswers, ModelAsks
<1>2. \/ \E tools, who : Gather(tools, who)
      \/ InitialProbe(ledger, CandidatesNow) = <<>> /\ UNCHANGED batch
  BY Zenon DEF ProbeExpandedDomains, ModelAnswers, ModelAsks, Answer
<1>3. CASE \E tools, who : Gather(tools, who)
  <2>1. stopReason' = "" /\ \A i \in DOMAIN batch' : AnomalousIsALook(batch'[i])
    <3> PICK tools, who : Gather(tools, who)
      BY <1>3
    <3>1. stopReason' = ""
      BY <1>1 DEF Gather, Deciding
    <3>2. batch' = [i \in DOMAIN tools |-> [tool |-> tools[i], state |-> "queued", result |-> NoResult]]
      BY DEF Gather
    <3>3. \A i \in DOMAIN batch' : batch'[i].result = NoResult
      BY <3>2
    <3>4. NoResult.kind # "anomalous"
      BY DEF NoResult
    <3> QED
      BY <3>1, <3>3, <3>4 DEF AnomalousIsALook
  <2>2. ~Answered'
    BY <2>1 DEF Answered
  <2> QED
    BY <1>1, <2>1, <2>2 DEF LookInv, AnswersRestOnALook
<1>4. CASE InitialProbe(ledger, CandidatesNow) = <<>> /\ UNCHANGED batch
  <2>1. \E i \in DOMAIN ledger : ledger[i].tool # KnowledgeSearch
    <3> PICK S : ledger \in Seq(S)
      BY DEF BudgetInv
    <3>1. /\ \E U : CandidatesNow \in Seq(U)
          /\ \E k \in DOMAIN CandidatesNow : CandidatesNow[k] \notin Searches
      BY CandidatesHoldATool DEF CandidatesNow, LookInv
    <3> QED
      BY <1>4, <3>1, NoProbeNeedsALook
  <2> QED
    BY <1>1, <1>4, <2>1 DEF LookInv, AnswersRestOnALook
<1> QED
  BY <1>2, <1>3, <1>4

LEMMA CallsKeepLook ==
  ASSUME CacheInv, LookInv, NEW i \in DOMAIN batch, StartCall(i) \/ FinishCall(i)
  PROVE  LookInv'
<1> PICK t : t = batch[i].tool
  OBVIOUS
<1>1. UNCHANGED <<ticket, ledger, stopReason>>
  BY DEF StartCall, FinishCall
<1>2. \/ \E r : /\ batch' = [batch EXCEPT ![i].state = "done", ![i].result = r]
                /\ r.kind = "anomalous" => t # KnowledgeSearch
                /\ Cache(t, r) \/ UNCHANGED toolCache
      \/ batch' = [batch EXCEPT ![i].state = "running"] /\ UNCHANGED toolCache
  <2>1. CASE StartCall(i)
    <3>1. CASE t \in DOMAIN toolCache
      <4>1. batch' = [batch EXCEPT ![i].state = "done", ![i].result = toolCache[t]] /\ UNCHANGED toolCache
        BY <2>1, <3>1 DEF StartCall
      <4> QED
        BY <3>1, <4>1 DEF LookInv
    <3>2. CASE t \notin DOMAIN toolCache
      <4>1. \/ \E r \in ResultsOf(t) : batch' = [batch EXCEPT ![i].state = "done", ![i].result = r] /\ Cache(t, r)
            \/ batch' = [batch EXCEPT ![i].state = "running"] /\ UNCHANGED toolCache
        BY <2>1, <3>2 DEF StartCall
      <4> QED
        BY <4>1, AnomaliesAreNoSearch
    <3> QED
      BY <3>1, <3>2
  <2>2. CASE FinishCall(i)
    <3>1. \E r \in ResultsOf(t) : batch' = [batch EXCEPT ![i].state = "done", ![i].result = r] /\ Cache(t, r)
      BY <2>2 DEF FinishCall
    <3> QED
      BY <3>1, AnomaliesAreNoSearch
  <2> QED
    BY <2>1, <2>2
<1>3. /\ DOMAIN batch' = DOMAIN batch
      /\ \A j \in DOMAIN batch' : DOMAIN batch'[j] = CallFields /\ batch'[j].tool = batch[j].tool
      /\ \A j \in DOMAIN batch \ {i} : batch'[j] = batch[j]
  BY <1>2, CallWritten
<1>4. \A u \in DOMAIN toolCache' : toolCache'[u].kind = "anomalous" => u # KnowledgeSearch
  <2>1. CASE UNCHANGED toolCache
    BY <2>1 DEF LookInv
  <2>2. CASE \E r : (r.kind = "anomalous" => t # KnowledgeSearch) /\ Cache(t, r)
    <3> PICK r : (r.kind = "anomalous" => t # KnowledgeSearch) /\ Cache(t, r)
      BY <2>2
    <3>1. toolCache' = [u \in DOMAIN toolCache \cup {t} |-> IF u = t THEN r ELSE toolCache[u]]
      BY DEF Cache
    <3>2. \A u \in DOMAIN toolCache' : IF u = t THEN toolCache'[u] = r
                                       ELSE u \in DOMAIN toolCache /\ toolCache'[u] = toolCache[u]
      BY <3>1
    <3> QED
      BY <3>2 DEF LookInv
  <2> QED
    BY <1>2, <2>1, <2>2
<1>5. batch'[i].result.kind = "anomalous" => batch'[i].tool # KnowledgeSearch
  <2>1. DOMAIN batch[i] = CallFields /\ (batch[i].result.kind = "anomalous" => t # KnowledgeSearch)
    BY DEF CacheInv, LookInv, AnomalousIsALook
  <2>2. CASE \E r : /\ batch' = [batch EXCEPT ![i].state = "done", ![i].result = r]
                    /\ r.kind = "anomalous" => t # KnowledgeSearch
    <3> PICK r : /\ batch' = [batch EXCEPT ![i].state = "done", ![i].result = r]
                 /\ r.kind = "anomalous" => t # KnowledgeSearch
      BY <2>2
    <3>1. batch'[i] = [batch[i] EXCEPT !.state = "done", !.result = r]
      OBVIOUS
    <3>2. batch'[i].result = r
      BY <2>1, <3>1 DEF CallFields
    <3> QED
      BY <1>3, <3>2
  <2>3. CASE batch' = [batch EXCEPT ![i].state = "running"]
    <3>1. batch'[i] = [batch[i] EXCEPT !.state = "running"]
      BY <2>3
    <3>2. batch'[i].result = batch[i].result
      BY <2>1, <3>1 DEF CallFields
    <3> QED
      BY <1>3, <2>1, <3>2
  <2> QED
    BY <1>2, <2>2, <2>3
<1>6. \A j \in DOMAIN batch' : AnomalousIsALook(batch'[j])
  BY <1>3, <1>5 DEF LookInv, AnomalousIsALook
<1>7. AnswersRestOnALook'
  BY <1>1 DEF LookInv, AnswersRestOnALook, Answered
<1> QED
  BY <1>1, <1>4, <1>6, <1>7 DEF LookInv

\* A run that ends on what was seen has seen two anomalies, and keeps them.
LEMMA ApplyBatchKeepsLook ==
  ASSUME BudgetInv, LookInv, ApplyBatch
  PROVE  LookInv'
<1> DEFINE seen == [i \in DOMAIN batch |-> [tool |-> batch[i].tool, result |-> batch[i].result]]
           led == ledger \o seen
           used == callsUsed + Len(batch)
           kept == IF Len(led) <= 20 THEN led ELSE SubSeq(led, Len(led) - 19, Len(led))
           T == {ledger[i] : i \in DOMAIN ledger} \cup {seen[i] : i \in DOMAIN batch}
<1>1. /\ batch # <<>> /\ batch' = <<>> /\ UNCHANGED <<ticket, toolCache>>
      /\ ledger' = kept /\ NextStep(kept, used)
  BY DEF ApplyBatch
<1>2. DOMAIN batch = 1..Len(batch) /\ Len(batch) \in Nat
  BY DEF BudgetInv, IsSequence
<1>3. \A o \in T : AnomalousIsALook(o)
  BY DEF LookInv, AnomalousIsALook
<1>4. ledger \in Seq(T)
  <2> PICK S : ledger \in Seq(S)
    BY DEF BudgetInv
  <2>1. ledger \in Seq({ledger[i] : i \in DOMAIN ledger})
    OBVIOUS
  <2> HIDE DEF seen
  <2> QED
    BY <2>1
<1>5. seen \in Seq(T)
  <2>1. seen = [i \in 1..Len(batch) |-> seen[i]] /\ \A i \in 1..Len(batch) : seen[i] \in T
    BY <1>2
  <2> HIDE DEF seen, T
  <2> QED
    BY <1>2, <2>1
<1> HIDE DEF seen, T, used
<1>6. led \in Seq(T) /\ Len(led) \in Nat
  BY <1>4, <1>5
<1> HIDE DEF led
<1>7. kept \in Seq(T)
  <2>1. CASE Len(led) <= 20
    BY <1>6, <2>1
  <2>2. CASE ~(Len(led) <= 20)
    <3>1. Len(led) - 19 \in 1..Len(led)
      BY <1>6, <2>2
    <3>2. kept = SubSeq(led, Len(led) - 19, Len(led))
      BY <2>2
    <3> QED
      BY <1>6, <2>2, <3>1, <3>2
  <2> QED
    BY <2>1, <2>2
<1> HIDE DEF kept
<1>8. \A i \in DOMAIN ledger' : AnomalousIsALook(ledger'[i])
  <2>1. \A i \in DOMAIN kept : kept[i] \in T
    BY <1>7
  <2> QED
    BY <1>1, <1>3, <2>1
<1>9. Answered' => ShouldStop(kept, CandidatesNow)
  <2>1. stopReason = ""
    BY <1>1 DEF BudgetInv
  <2>2. stopReason' \in {"", "tool_budget_reached", "iteration_guardrail_reached"}
        \/ ShouldStop(kept, CandidatesNow)
    BY <1>1, <2>1 DEF NextStep
  <2> QED
    BY <2>2 DEF Answered
<1>10. ASSUME ShouldStop(kept, CandidatesNow)
       PROVE  \E i \in DOMAIN kept : kept[i].tool # KnowledgeSearch
  <2>1. Cardinality(Anomalies(kept)) >= 2
    BY <1>10 DEF ShouldStop
  <2>2. Anomalies(kept) # {}
    BY <2>1, FS_EmptySet
  <2>3. PICK i \in DOMAIN kept : kept[i].result.kind = "anomalous"
    BY <2>2 DEF Anomalies
  <2> QED
    BY <1>1, <1>8, <2>3 DEF AnomalousIsALook
<1>11. AnswersRestOnALook'
  BY <1>1, <1>9, <1>10 DEF AnswersRestOnALook
<1>12. \A i \in DOMAIN batch' : AnomalousIsALook(batch'[i])
  BY <1>1
<1> QED
  BY <1>1, <1>8, <1>11, <1>12 DEF LookInv

\* However the model behaves, a run that answers has seen a tool other than the
\* knowledge search: the last candidates are cut at ten, and at most four searches can
\* stand before the first other one (_run_initial_evidence_probe_if_needed).
THEOREM AnswersAreFounded == ReactSpec => []AnswersRestOnALook
<1> DEFINE Inv == BudgetInv /\ CacheInv /\ LookInv
<1>1. ReactInit => Inv
  BY LoopStartsInBudget, LoopStartsWithNothing, LoopStartsUnanswered
<1>2. Inv /\ [ReactNext]_reactVars => Inv'
  <2> SUFFICES ASSUME Inv, [ReactNext]_reactVars PROVE Inv'
    OBVIOUS
  <2>1. BudgetInv' /\ CacheInv'
    BY NextKeepsBudget, NextKeepsCache
  <2>2. CASE UNCHANGED reactVars
    <3>1. LookInv'
      BY <2>2 DEF reactVars, LookInv, AnswersRestOnALook, Answered
    <3> QED
      BY <2>1, <3>1
  <2>3. CASE ReactNext
    <3>1. LookInv'
      BY <2>3, DecidingKeepsLook, CallsKeepLook, ApplyBatchKeepsLook DEF ReactNext
    <3> QED
      BY <2>1, <3>1
  <2> QED
    BY <2>2, <2>3
<1>3. Inv => AnswersRestOnALook
  BY DEF LookInv
<1> QED
  BY <1>1, <1>2, <1>3, PTL DEF ReactSpec


-----------------------------------------------------------------------------
(* The case search.                                                        *)

\* PlacesAreTaken, for a part of an ordered set.
LEMMA PlacesInAPart ==
  ASSUME NEW S, IsFiniteSet(S), NEW R, StrictlyOrders(R, S), NEW G \in SUBSET S,
         NEW k \in Nat, k < Cardinality(G)
  PROVE  \E x \in G : Cardinality({z \in G : <<z, x>> \in R}) = k
<1>1. IsFiniteSet(G)
  BY FS_Subset
<1>2. StrictlyOrders(R, G)
  BY DEF StrictlyOrders
<1> QED
  BY <1>1, <1>2, PlacesAreTaken

\* The n elements of I that come first.
FirstOnes(R, I, n) == {x \in I : Cardinality({z \in I : <<z, x>> \in R}) < n}

\* Whatever is not in F comes after all that is.
NothingElseIsFirst(F, R, I) == \A x \in I \ F, y \in F : <<x, y>> \notin R

\* As many elements as one likes are kept of those that come before one that is not: of
\* a list cut to n, either all that nothing else comes before are kept, or n of them.
LEMMA FirstOnesAreKept ==
  ASSUME NEW I, IsFiniteSet(I), NEW R, StrictlyOrders(R, I), NEW n \in Nat,
         NEW F \in SUBSET I, NothingElseIsFirst(F, R, I)
  PROVE  F \subseteq FirstOnes(R, I, n) \/ Cardinality(FirstOnes(R, I, n) \cap F) >= n
<1>a. ASSUME NEW G \in SUBSET I, NEW m \in Nat, m < Cardinality(G)
      PROVE  \E x \in G : Cardinality({z \in G : <<z, x>> \in R}) = m
  BY <1>a, PlacesInAPart
<1> DEFINE B(x) == {z \in I : <<z, x>> \in R}
           K == {x \in I : Cardinality(B(x)) < n}
<1> SUFFICES ASSUME NEW f \in F, f \notin K PROVE Cardinality(K \cap F) >= n
  BY DEF FirstOnes
<1>1. \A x \in I : IsFiniteSet(B(x)) /\ Cardinality(B(x)) \in Nat
  BY FS_Subset, FS_CardinalityType
<1> PICK G \in SUBSET I : G = B(f)
  OBVIOUS
<1>2. IsFiniteSet(G) /\ Cardinality(G) \in Nat /\ n <= Cardinality(G)
  BY <1>1
<1>3. G \subseteq F
  BY DEF NothingElseIsFirst
<1>4. StrictlyOrders(R, G)
  BY DEF StrictlyOrders
<1>5. ASSUME NEW k \in 0..(n - 1)
      PROVE  \E x \in I : x \in K \cap F /\ Cardinality(B(x)) = k
  <2>1. k \in Nat /\ k < Cardinality(G) /\ k < n
    BY <1>2
  <2>2. PICK x \in G : Cardinality({z \in G : <<z, x>> \in R}) = k
    BY <1>a, <2>1
  <2>3. B(x) = {z \in G : <<z, x>> \in R}
    <3>1. \A z \in I : <<z, x>> \in R => <<z, f>> \in R
      BY <2>2 DEF StrictlyOrders
    <3> QED
      BY <3>1
  <2>4. Cardinality(B(x)) = k /\ x \in F /\ x \in I
    BY <1>3, <2>2, <2>3
  <2> QED
    BY <2>1, <2>4
<1> HIDE DEF K, B
<1> DEFINE g == [k \in 0..(n - 1) |-> CHOOSE x \in K \cap F : Cardinality(B(x)) = k]
<1>6. \A k \in 0..(n - 1) : g[k] \in K \cap F /\ Cardinality(B(g[k])) = k
  BY <1>5
<1>7. g \in Injection(0..(n - 1), K \cap F)
  <2>1. g \in [0..(n - 1) -> K \cap F]
    BY <1>6
  <2>2. \A k, l \in 0..(n - 1) : g[k] = g[l] => k = l
    BY <1>6
  <2> HIDE DEF g
  <2> QED
    BY <2>1, <2>2 DEF Injection, IsInjective
<1>8. IsFiniteSet(K \cap F) /\ Cardinality(K \cap F) \in Nat
  <2>1. K \cap F \subseteq I
    OBVIOUS
  <2> QED
    BY <2>1, FS_Subset, FS_CardinalityType
<1>9. Cardinality(0..(n - 1)) <= Cardinality(K \cap F)
  BY <1>7, <1>8, FS_Injection
<1>10. Cardinality(0..(n - 1)) = n
  <2>1. 0 \in Int /\ n - 1 \in Int /\ (IF 0 > n - 1 THEN 0 ELSE (n - 1) - 0 + 1) = n
    OBVIOUS
  <2> QED
    BY <2>1, FS_Interval
<1> QED
  BY <1>9, <1>10 DEF K

\* The rows an index can hold, and those of them a query can meet.
IndexedRows ==
  [case : Nat, service : BOOLEAN, mode : BOOLEAN, taxonomy : BOOLEAN,
   words : 0..1000, place : {0, 30, 40, 70}]

PossibleRows == {r \in IndexedRows : named \/ ~r.service}

\* The pattern recall gives a full match the highest score there is, and no other row.
LEMMA FullMatchScoresBest ==
  ASSUME NEW r \in PossibleRows, NEW q \in PossibleRows, FullMatch(r), ~FullMatch(q), named \in BOOLEAN
  PROVE  PatternScore(r) > PatternScore(q)
<1>1. \A x \in {r, q} : x.mode \in BOOLEAN /\ x.taxonomy \in BOOLEAN /\ x.service \in BOOLEAN
  BY DEF PossibleRows, IndexedRows
<1>2. r.mode /\ r.taxonomy /\ (r.service <=> named)
  BY <1>1 DEF FullMatch, PossibleRows
<1>3. PatternScore(r) = IF named THEN 880 ELSE 850
  BY <1>2 DEF PatternScore, If, Smaller
<1>4. PatternScore(q) <= (IF named THEN 850 ELSE 600) /\ PatternScore(q) \in Nat
  BY <1>1 DEF PatternScore, If, Smaller, FullMatch, PossibleRows
<1> QED
  BY <1>3, <1>4

LEMMA ScoresAreNumbers == ASSUME NEW r \in PossibleRows PROVE PatternScore(r) \in Nat
<1>1. r.mode \in BOOLEAN /\ r.taxonomy \in BOOLEAN /\ r.service \in BOOLEAN
  BY DEF PossibleRows, IndexedRows
<1> QED
  BY <1>1 DEF PatternScore, If, Smaller

\* So does the final ranking, wherever a hit comes from.
LEMMA FullMatchRanksBest ==
  ASSUME NEW h, NEW g, h.row \in PossibleRows, g.row \in PossibleRows,
         FullMatch(h.row), ~FullMatch(g.row), named \in BOOLEAN
  PROVE  ~(RankKey(g) >= RankKey(h))
<1> PICK r \in PossibleRows, q \in PossibleRows : r = h.row /\ q = g.row
  OBVIOUS
<1>1. \A x \in {r, q} : x.mode \in BOOLEAN /\ x.taxonomy \in BOOLEAN /\ x.service \in BOOLEAN
  BY DEF PossibleRows, IndexedRows
<1>2. r.mode /\ r.taxonomy /\ (r.service <=> named)
  BY <1>1 DEF FullMatch, PossibleRows
<1>3. RankKey(h) \in Nat /\ RankKey(h) >= IF named THEN 30 ELSE 12
  BY <1>2 DEF RankKey, If
<1>4. RankKey(g) \in Nat /\ RankKey(g) <= IF named THEN 27 ELSE 9
  BY <1>1 DEF RankKey, If, FullMatch, PossibleRows
<1> QED
  BY <1>3, <1>4

\* What the pattern recall keeps of the rows at the places in I.
PatternKept(rows, I, n) ==
  {j \in I : Cardinality({k \in I :
     \/ PatternScore(rows[k]) > PatternScore(rows[j])
     \/ PatternScore(rows[k]) = PatternScore(rows[j]) /\ k < j}) < n}

LEMMA PatternKeepsFullMatches ==
  ASSUME NEW m \in Nat, NEW rows, NEW I \in SUBSET (1..m), \A i \in I : rows[i] \in PossibleRows,
         named \in BOOLEAN, NEW n \in Nat
  PROVE  LET F == {i \in I : FullMatch(rows[i])}
         IN \/ F \subseteq PatternKept(rows, I, n)
            \/ Cardinality(PatternKept(rows, I, n) \cap F) >= n
<1> DEFINE above(i, j) == \/ PatternScore(rows[i]) > PatternScore(rows[j])
                          \/ PatternScore(rows[i]) = PatternScore(rows[j]) /\ i < j
           R == {p \in I \X I : above(p[1], p[2])}
           F == {i \in I : FullMatch(rows[i])}
           K == FirstOnes(R, I, n)
<1>1. IsFiniteSet(I)
  <2>1. IsFiniteSet(1..m)
    BY FS_Interval
  <2> QED
    BY <2>1, FS_Subset
<1>2. \A i \in I : PatternScore(rows[i]) \in Nat /\ i \in Nat
  BY ScoresAreNumbers
<1>3. StrictlyOrders(R, I)
  <2>1. \A x, y \in I : <<x, y>> \in R <=> above(x, y)
    OBVIOUS
  <2>2. \A x \in I : ~above(x, x)
    BY <1>2
  <2>3. \A x, y, z \in I : above(x, y) /\ above(y, z) => above(x, z)
    BY <1>2
  <2>4. \A x, y \in I : x # y => above(x, y) \/ above(y, x)
    BY <1>2
  <2> HIDE DEF R, above
  <2> QED
    BY <2>1, <2>2, <2>3, <2>4 DEF StrictlyOrders
<1>4. NothingElseIsFirst(F, R, I)
  <2> SUFFICES ASSUME NEW x \in I \ F, NEW y \in F PROVE ~above(x, y)
    BY DEF NothingElseIsFirst
  <2>1. PatternScore(rows[y]) > PatternScore(rows[x])
    BY FullMatchScoresBest
  <2> QED
    BY <1>2, <2>1
<1>5. F \subseteq K \/ Cardinality(K \cap F) >= n
  <2> HIDE DEF R
  <2>1. F \in SUBSET I
    OBVIOUS
  <2> HIDE DEF F
  <2> QED
    BY <1>1, <1>3, <1>4, <2>1, FirstOnesAreKept
<1>6. K = PatternKept(rows, I, n)
  <2>1. ASSUME NEW x \in I PROVE {z \in I : <<z, x>> \in R} = {z \in I : above(z, x)}
    OBVIOUS
  <2> QED
    BY <2>1 DEF PatternKept, FirstOnes
<1> HIDE DEF K, F
<1> QED
  BY <1>5, <1>6 DEF F

OneRowPerCase(rows) == \A i, j \in DOMAIN rows : rows[i].case = rows[j].case => i = j

\* What is said of the index: its rows, one per case, the ones a query can meet.
TableInv ==
  /\ named \in BOOLEAN
  /\ caseTable \in Seq(PossibleRows) /\ OneRowPerCase(caseTable)
  /\ steady \in SUBSET (1..NumIndexed)

BestCases ==
  {c \in steady : \E i \in DOMAIN caseTable : caseTable[i].case = c /\ FullMatch(caseTable[i])}

FullHits == {h \in recall.hits : FullMatch(h.row)}

\* What is said of the hits: until the pattern recall, a hit of a case that was not
\* replaced is the case's row; after it, there are enough full matches among them.
RecallInv ==
  /\ TableInv
  /\ IsFiniteSet(recall.hits)
  /\ \A h \in recall.hits : h.row \in PossibleRows /\ h = [row |-> h.row, by |-> h.by]
  /\ recall.at = "pattern" => \A h \in recall.hits :
       /\ h.by = "exact"
       /\ h.row.case \in steady => \E i \in DOMAIN caseTable : caseTable[i] = h.row
  /\ recall.at \in {"semantic", "ranking", "answered"} /\ patternRead =>
       Cardinality(FullHits) >= Smaller(Cardinality(BestCases), Smaller(2, TopK))

PutsFirst(x, t, u) ==
  /\ DOMAIN u = 1..(Len(t) + 1)
  /\ u[1] = x /\ \A k \in 1..Len(t) : u[k + 1] = t[k]

LEMMA PutFirst ==
  ASSUME NEW S, NEW x \in S, NEW t \in Seq(S)
  PROVE  <<x>> \o t \in Seq(S) /\ PutsFirst(x, t, <<x>> \o t)
<1> DEFINE u == <<x>> \o t
           n == Len(t)
<1>1. n \in Nat /\ <<x>> \in Seq(S) /\ Len(<<x>>) = 1
  OBVIOUS
<1>2. u \in Seq(S) /\ Len(u) = n + 1 /\ DOMAIN u = 1..(n + 1)
  BY <1>1
<1>3. u[1] = x /\ \A k \in 1..n : u[k + 1] = t[k]
  BY <1>1, <1>2
<1> QED
  BY <1>1, <1>2, <1>3 DEF PutsFirst

\* A read returns rows of the index.
LEMMA RowsRead ==
  ASSUME TableInv, NEW rows \in Reads
  PROVE  /\ Len(rows) \in Nat /\ DOMAIN rows = 1..Len(rows)
         /\ \A i \in DOMAIN rows : /\ rows[i] \in PossibleRows
                                   /\ \E j \in DOMAIN caseTable : caseTable[j] = rows[i]
<1>1. CASE rows = caseTable
  BY <1>1 DEF TableInv
<1>2. CASE rows = <<>>
  <2>1. Len(rows) = 0 /\ DOMAIN rows = {} /\ 1..0 = {}
    BY <1>2
  <2> QED
    BY <2>1
<1> QED
  BY <1>1, <1>2 DEF Reads

RowsAt(rows, m) == {rows[i] : i \in 1..m}

HitsOf(T, by) == {[row |-> r, by |-> by] : r \in T}

\* A merge keeps the hits there are and adds finitely many.
LEMMA MergedHits ==
  ASSUME NEW hits, IsFiniteSet(hits), NEW m \in Nat, NEW rows, NEW by,
         NEW T \in SUBSET RowsAt(rows, m)
  PROVE  /\ IsFiniteSet(MergeCases(hits, T, by))
         /\ hits \subseteq MergeCases(hits, T, by)
         /\ MergeCases(hits, T, by) \subseteq hits \cup HitsOf(T, by)
<1> DEFINE f == [i \in 1..m |-> [row |-> rows[i], by |-> by]]
           P == {f[i] : i \in 1..m}
           M == MergeCases(hits, T, by)
<1>1. IsFiniteSet(P)
  <2>1. IsFiniteSet(1..m)
    BY FS_Interval
  <2>2. f \in Surjection(1..m, P)
    <3>1. \A i \in 1..m : f[i] \in P
      OBVIOUS
    <3>2. \A x \in P : \E i \in 1..m : f[i] = x
      OBVIOUS
    <3>3. f \in [1..m -> P]
      BY <3>1
    <3> HIDE DEF f, P
    <3> QED
      BY <3>2, <3>3 DEF Surjection
  <2> HIDE DEF f, P
  <2> QED
    BY <2>1, <2>2, FS_Surjection
<1>2. M \subseteq hits \cup HitsOf(T, by)
  BY DEF MergeCases, HitsOf
<1>3. \A r \in T : [row |-> r, by |-> by] \in P
  BY DEF RowsAt
<1>4. M \subseteq hits \cup P
  <2> HIDE DEF M, P
  <2> QED
    BY <1>2, <1>3 DEF HitsOf
<1>5. IsFiniteSet(hits \cup P)
  BY <1>1, FS_Union
<1>6. IsFiniteSet(M)
  <2> HIDE DEF M, P
  <2> QED
    BY <1>4, <1>5, FS_Subset
<1> QED
  BY <1>2, <1>6 DEF MergeCases

\* A set of cases that all have a hit is no larger than the set of hits.
LEMMA AHitForEachCase ==
  ASSUME NEW H, IsFiniteSet(H), NEW C, \A c \in C : \E h \in H : h.row.case = c
  PROVE  IsFiniteSet(C) /\ Cardinality(C) \in Nat /\ Cardinality(C) <= Cardinality(H)
<1> DEFINE G == {h \in H : h.row.case \in C}
           f == [h \in G |-> h.row.case]
<1>1. IsFiniteSet(G) /\ Cardinality(G) <= Cardinality(H) /\ Cardinality(G) \in Nat /\ Cardinality(H) \in Nat
  BY FS_Subset, FS_CardinalityType
<1>2. f \in Surjection(G, C)
  <2>1. f \in [G -> C]
    OBVIOUS
  <2>2. \A c \in C : \E h \in G : f[h] = c
    OBVIOUS
  <2> HIDE DEF f, G
  <2> QED
    BY <2>1, <2>2 DEF Surjection
<1> HIDE DEF f, G
<1>3. IsFiniteSet(C) /\ Cardinality(C) <= Cardinality(G)
  BY <1>1, <1>2, FS_Surjection
<1>4. Cardinality(C) \in Nat
  BY <1>3, FS_CardinalityType
<1> QED
  BY <1>1, <1>3, <1>4

\* Places whose rows are of different cases are as many as the cases.
LEMMA AsManyCases ==
  ASSUME NEW m \in Nat, NEW rows, NEW J \in SUBSET (1..m),
         \A i, j \in J : rows[i].case = rows[j].case => i = j
  PROVE  LET C == {rows[i].case : i \in J}
         IN Cardinality(J) \in Nat /\ (IsFiniteSet(C) => Cardinality(J) <= Cardinality(C))
<1> DEFINE C == {rows[i].case : i \in J}
           f == [i \in J |-> rows[i].case]
<1>1. IsFiniteSet(J) /\ Cardinality(J) \in Nat
  <2>1. IsFiniteSet(1..m)
    BY FS_Interval
  <2>2. IsFiniteSet(J)
    BY <2>1, FS_Subset
  <2> QED
    BY <2>2, FS_CardinalityType
<1>2. f \in Injection(J, C)
  <2>1. f \in [J -> C]
    OBVIOUS
  <2>2. \A i, j \in J : f[i] = f[j] => i = j
    OBVIOUS
  <2> HIDE DEF f, C
  <2> QED
    BY <2>1, <2>2 DEF Injection, IsInjective
<1> HIDE DEF f, C
<1>3. IsFiniteSet(C) => Cardinality(J) <= Cardinality(C)
  BY <1>1, <1>2, FS_Injection
<1> QED
  BY <1>1, <1>3 DEF C

LEMMA CaseRecallStarts == CaseRecallInit => RecallInv
<1> SUFFICES ASSUME CaseRecallInit PROVE RecallInv
  OBVIOUS
<1>a. PICK n \in 0..NumIndexed : \E rows \in [1..n -> {r \in CaseRows : Possible(r)}] :
        caseTable = [i \in 1..n |-> OfCase(rows[i], i)]
  BY DEF CaseRecallInit
<1>1. PICK rows \in [1..n -> {r \in CaseRows : Possible(r)}] :
        caseTable = [i \in 1..n |-> OfCase(rows[i], i)]
  BY <1>a
<1>2. n \in Nat
  BY CaseRecallAssumptions
<1>3. ASSUME NEW i \in 1..n PROVE OfCase(rows[i], i) \in PossibleRows /\ OfCase(rows[i], i).case = i
  <2>1. rows[i] \in CaseRows /\ Possible(rows[i]) /\ i \in Nat
    BY <1>2
  <2>a. rows[i] \in [service : BOOLEAN, mode : BOOLEAN, taxonomy : BOOLEAN,
                     words : 0..1000, place : {0, 30, 40, 70}]
    BY <2>1, CaseRecallAssumptions
  <2>b. /\ rows[i].service \in BOOLEAN /\ rows[i].mode \in BOOLEAN /\ rows[i].taxonomy \in BOOLEAN
        /\ rows[i].words \in 0..1000 /\ rows[i].place \in {0, 30, 40, 70}
    BY <2>a
  <2>2. OfCase(rows[i], i) \in IndexedRows
    BY <2>1, <2>b DEF OfCase, IndexedRows
  <2> QED
    BY <2>1, <2>2 DEF OfCase, PossibleRows, Possible
<1>4. caseTable \in Seq(PossibleRows)
  BY <1>1, <1>2, <1>3
<1>5. OneRowPerCase(caseTable)
  BY <1>1, <1>3 DEF OneRowPerCase
<1>6. recall.hits = {} /\ recall.at = "exact"
  BY DEF CaseRecallInit
<1>7. IsFiniteSet(recall.hits)
  BY <1>6, FS_EmptySet
<1> QED
  BY <1>4, <1>5, <1>6, <1>7 DEF CaseRecallInit, RecallInv, TableInv

LEMMA RecallExactKeeps == RecallInv /\ RecallExact => RecallInv'
<1> SUFFICES ASSUME RecallInv, RecallExact PROVE RecallInv'
  OBVIOUS
<1>1. PICK rows \in Reads : \E score :
        /\ DOMAIN score \subseteq DOMAIN rows
        /\ recall' = [at |-> "pattern",
                      hits |-> MergeCases({}, Highest(rows, score, Smaller(2, TopK)), "exact")]
  BY DEF RecallExact
<1>a. PICK score :
        /\ DOMAIN score \subseteq DOMAIN rows
        /\ recall' = [at |-> "pattern",
                      hits |-> MergeCases({}, Highest(rows, score, Smaller(2, TopK)), "exact")]
  BY <1>1
<1> PICK T : T = Highest(rows, score, Smaller(2, TopK))
  OBVIOUS
<1>2. \A r \in T : \E i \in DOMAIN rows : r = rows[i]
  BY <1>a DEF Highest
<1>3. TableInv /\ TableInv'
  BY DEF RecallInv, TableInv, RecallExact, PossibleRows
<1>4. Len(rows) \in Nat /\ DOMAIN rows = 1..Len(rows)
  BY <1>3, RowsRead
<1>5. \A r \in T : r \in PossibleRows /\ \E j \in DOMAIN caseTable : caseTable[j] = r
  BY <1>2, <1>3, RowsRead
<1>6. recall'.at = "pattern" /\ recall'.hits = MergeCases({}, T, "exact")
  BY <1>a
<1>7. IsFiniteSet(recall'.hits) /\ \A h \in recall'.hits : \E r \in T : h = [row |-> r, by |-> "exact"]
  <2>1. IsFiniteSet({}) /\ T \in SUBSET RowsAt(rows, Len(rows))
    BY <1>2, <1>4, FS_EmptySet DEF RowsAt
  <2>2. /\ IsFiniteSet(MergeCases({}, T, "exact"))
        /\ MergeCases({}, T, "exact") \subseteq {} \cup HitsOf(T, "exact")
    BY <1>4, <2>1, MergedHits
  <2> QED
    BY <1>6, <2>2 DEF HitsOf
<1>8. UNCHANGED <<named, caseTable, steady>>
  BY DEF RecallExact
<1>9. PossibleRows' = PossibleRows
  BY <1>8 DEF PossibleRows
<1> QED
  BY <1>3, <1>5, <1>6, <1>7, <1>8, <1>9 DEF RecallInv

\* The least of two numbers is a number, and no greater than either.
LEMMA SmallerOf ==
  ASSUME NEW m \in Nat, NEW n \in Nat
  PROVE  Smaller(m, n) \in Nat /\ Smaller(m, n) <= m /\ Smaller(m, n) <= n
BY DEF Smaller

LEMMA BestCasesAreFew ==
  ASSUME TableInv PROVE IsFiniteSet(BestCases) /\ Cardinality(BestCases) \in Nat
<1>1. IsFiniteSet(1..NumIndexed)
  BY CaseRecallAssumptions, FS_Interval
<1>2. BestCases \subseteq 1..NumIndexed
  BY DEF TableInv, BestCases
<1> QED
  BY <1>1, <1>2, FS_Subset, FS_CardinalityType

\* The pattern recall leaves a hit of every full match, or as many as are shown of them.
LEMMA PatternFindsThem ==
  ASSUME RecallInv, recall.at = "pattern", NEW H, IsFiniteSet(H), recall.hits \subseteq H,
         NEW n \in Nat,
         \A i \in PatternKept(caseTable, NotExact(caseTable), n) :
            [row |-> caseTable[i], by |-> "pattern"] \in H
  PROVE  Cardinality({h \in H : FullMatch(h.row)}) >= Smaller(Cardinality(BestCases), n)
<1> DEFINE A == NotExact(caseTable)
           F == {i \in A : FullMatch(caseTable[i])}
           K == PatternKept(caseTable, A, n)
           G == {h \in H : FullMatch(h.row)}
<1>1. /\ Len(caseTable) \in Nat /\ DOMAIN caseTable = 1..Len(caseTable)
      /\ \A i \in DOMAIN caseTable : caseTable[i] \in PossibleRows
      /\ OneRowPerCase(caseTable) /\ named \in BOOLEAN
  BY DEF RecallInv, TableInv
<1>2. IsFiniteSet(G) /\ Cardinality(G) \in Nat
  BY FS_Subset, FS_CardinalityType
<1>3. Cardinality(BestCases) \in Nat
  BY BestCasesAreFew DEF RecallInv
<1>4. A \in SUBSET (1..Len(caseTable)) /\ K \subseteq A
  BY <1>1 DEF NotExact, PatternKept
<1>5. ASSUME NEW i \in K, FullMatch(caseTable[i])
      PROVE  \E h \in G : h.row.case = caseTable[i].case
  <2> DEFINE h == [row |-> caseTable[i], by |-> "pattern"]
  <2>2. h \in H
    OBVIOUS
  <2>3. h.row = caseTable[i]
    OBVIOUS
  <2> HIDE DEF h
  <2>1. h \in G /\ h.row = caseTable[i]
    BY <1>5, <2>2, <2>3
  <2> HIDE DEF G
  <2> QED
    BY <2>1
<1>6. CASE F \subseteq K
  <2>1. ASSUME NEW c \in BestCases PROVE \E h \in G : h.row.case = c
    <3>1. PICK i \in DOMAIN caseTable : caseTable[i].case = c /\ FullMatch(caseTable[i])
      BY DEF BestCases
    <3>2. CASE i \in A
      <4>1. i \in K
        BY <1>6, <3>1, <3>2
      <4> HIDE DEF K, A, G
      <4> QED
        BY <1>5, <3>1, <4>1
    <3>3. CASE i \notin A
      <4>1. PICK h \in recall.hits : h.row.case = caseTable[i].case
        BY <3>3 DEF NotExact
      <4>2. c \in steady
        BY DEF BestCases
      <4>3. PICK j \in DOMAIN caseTable : caseTable[j] = h.row
        BY <3>1, <4>1, <4>2 DEF RecallInv
      <4>4. j = i
        BY <1>1, <4>1, <4>3 DEF OneRowPerCase
      <4>5. h \in G /\ h.row.case = c
        BY <3>1, <4>1, <4>3, <4>4
      <4> HIDE DEF G
      <4> QED
        BY <4>5
    <3> QED
      BY <3>2, <3>3
  <2> HIDE DEF G
  <2>2. Cardinality(BestCases) <= Cardinality(G)
    BY <1>2, <2>1, AHitForEachCase
  <2>3. Smaller(Cardinality(BestCases), n) \in Nat /\ Smaller(Cardinality(BestCases), n) <= Cardinality(BestCases)
    BY <1>3, SmallerOf
  <2> QED
    BY <1>2, <1>3, <2>2, <2>3 DEF G
<1>7. CASE Cardinality(K \cap F) >= n
  <2> DEFINE J == K \cap F
             C == {caseTable[i].case : i \in J}
  <2>1. J \in SUBSET (1..Len(caseTable)) /\ \A i, j \in J : caseTable[i].case = caseTable[j].case => i = j
    BY <1>1, <1>4 DEF OneRowPerCase
  <2>2. \A c \in C : \E h \in G : h.row.case = c
    <3> HIDE DEF K, G
    <3> QED
      BY <1>5
  <2>3. Cardinality(J) \in Nat /\ (IsFiniteSet(C) => Cardinality(J) <= Cardinality(C))
    <3> HIDE DEF J
    <3> QED
      BY <1>1, <2>1, AsManyCases
  <2> HIDE DEF G, C
  <2>4. IsFiniteSet(C) /\ Cardinality(C) \in Nat /\ Cardinality(C) <= Cardinality(G)
    BY <1>2, <2>2, AHitForEachCase
  <2>5. Smaller(Cardinality(BestCases), n) \in Nat /\ Smaller(Cardinality(BestCases), n) <= n
    BY <1>3, SmallerOf
  <2>6. Cardinality(J) >= n
    BY <1>7
  <2> HIDE DEF J
  <2>7. Cardinality(G) >= Smaller(Cardinality(BestCases), n)
    BY <1>2, <2>3, <2>4, <2>5, <2>6
  <2> QED
    BY <2>7 DEF G
<1>8. F \subseteq K \/ Cardinality(K \cap F) >= n
  <2>1. \A i \in A : caseTable[i] \in PossibleRows
    BY <1>1, <1>4
  <2> HIDE DEF A
  <2> QED
    BY <1>1, <1>4, <2>1, PatternKeepsFullMatches
<1> QED
  BY <1>6, <1>7, <1>8

LEMMA RecallPatternKeeps == RecallInv /\ RecallPattern => RecallInv'
<1> SUFFICES ASSUME RecallInv, RecallPattern PROVE RecallInv'
  OBVIOUS
<1> DEFINE n == Smaller(2, TopK)
<1>1. PICK rows \in Reads :
        LET score == [i \in NotExact(rows) |-> PatternScore(rows[i])] IN
        /\ recall' = [at |-> "semantic",
                      hits |-> MergeCases(recall.hits, Highest(rows, score, n), "pattern")]
        /\ patternRead' = (rows = caseTable)
  BY DEF RecallPattern
<1> PICK K : K = PatternKept(rows, NotExact(rows), n)
  OBVIOUS
<1> PICK T : T = {rows[i] : i \in K}
  OBVIOUS
<1>2. Highest(rows, [i \in NotExact(rows) |-> PatternScore(rows[i])], n) = T
  BY DEF Highest, PatternKept
<1>3. TableInv /\ TableInv'
  BY DEF RecallInv, TableInv, RecallPattern, PossibleRows
<1>4. Len(rows) \in Nat /\ DOMAIN rows = 1..Len(rows)
  BY <1>3, RowsRead
<1>5. K \subseteq NotExact(rows) /\ NotExact(rows) \subseteq DOMAIN rows
  BY DEF NotExact, PatternKept
<1>6. recall'.at = "semantic" /\ recall'.hits = MergeCases(recall.hits, T, "pattern")
  BY <1>1, <1>2
<1>7. UNCHANGED <<named, caseTable, steady>> /\ recall.at = "pattern"
  BY DEF RecallPattern
<1>8. T \in SUBSET RowsAt(rows, Len(rows)) /\ IsFiniteSet(recall.hits)
  BY <1>4, <1>5 DEF RowsAt, RecallInv
<1>9. /\ IsFiniteSet(recall'.hits) /\ recall.hits \subseteq recall'.hits
      /\ \A h \in recall'.hits : h \in recall.hits \/ \E r \in T : h = [row |-> r, by |-> "pattern"]
  <2>1. LET M == MergeCases(recall.hits, T, "pattern")
        IN IsFiniteSet(M) /\ recall.hits \subseteq M /\ M \subseteq recall.hits \cup HitsOf(T, "pattern")
    BY <1>4, <1>8, MergedHits
  <2> QED
    BY <1>6, <2>1 DEF HitsOf
<1>10. \A r \in T : r \in PossibleRows
  BY <1>3, <1>5, RowsRead
<1>11. \A h \in recall'.hits : h.row \in PossibleRows /\ h = [row |-> h.row, by |-> h.by]
  BY <1>9, <1>10 DEF RecallInv
<1>12. ASSUME patternRead' PROVE Cardinality({h \in recall'.hits : FullMatch(h.row)}) >= Smaller(Cardinality(BestCases), n)
  <2>1. rows = caseTable
    BY <1>1, <1>12
  <2>2. ASSUME NEW i \in K PROVE [row |-> rows[i], by |-> "pattern"] \in recall'.hits
    <3>1. \A h \in recall.hits : h.row.case # rows[i].case
      BY <1>5, <1>7 DEF NotExact, RecallInv
    <3>2. rows[i] \in T
      OBVIOUS
    <3> QED
      BY <1>6, <3>1, <3>2 DEF MergeCases
  <2>3. n \in Nat
    BY CaseRecallAssumptions, SmallerOf
  <2> HIDE DEF n
  <2> QED
    BY <1>7, <1>9, <2>1, <2>2, <2>3, PatternFindsThem
<1>13. PossibleRows' = PossibleRows
  BY <1>7 DEF PossibleRows
<1>14. BestCases' = BestCases /\ \A r : FullMatch(r)' <=> FullMatch(r)
  BY <1>7 DEF BestCases, FullMatch
<1>15. FullHits' = {h \in recall'.hits : FullMatch(h.row)}
  BY <1>7 DEF FullHits, FullMatch
<1> QED
  BY <1>3, <1>6, <1>9, <1>11, <1>12, <1>13, <1>14, <1>15 DEF RecallInv

LEMMA RecallSemanticKeeps == RecallInv /\ RecallSemantic => RecallInv'
<1> SUFFICES ASSUME RecallInv, RecallSemantic PROVE RecallInv'
  OBVIOUS
<1>1. UNCHANGED <<named, caseTable, steady, patternRead>> /\ recall.at = "semantic"
  BY DEF RecallSemantic
<1>2. TableInv /\ TableInv' /\ PossibleRows' = PossibleRows
  BY <1>1 DEF RecallInv, TableInv, PossibleRows
<1>3. BestCases' = BestCases /\ FullHits' = {h \in recall'.hits : FullMatch(h.row)}
  BY <1>1 DEF BestCases, FullHits, FullMatch
<1>4. CASE recall' = [at |-> "failed", hits |-> {}]
  <2>1. recall'.at = "failed" /\ recall'.hits = {} /\ IsFiniteSet(recall'.hits)
    BY <1>4, FS_EmptySet
  <2> QED
    BY <1>2, <2>1 DEF RecallInv
<1>5. ASSUME NEW rows \in Reads, NEW rowsFound \in SUBSET {rows[i] : i \in NotExact(rows)},
             recall' = [at |-> "ranking", hits |-> MergeCases(recall.hits, rowsFound, "semantic")]
      PROVE  RecallInv'
  <2>1. Len(rows) \in Nat /\ DOMAIN rows = 1..Len(rows) /\ NotExact(rows) \subseteq DOMAIN rows
    BY <1>2, RowsRead DEF NotExact
  <2>2. rowsFound \in SUBSET RowsAt(rows, Len(rows)) /\ IsFiniteSet(recall.hits)
    BY <2>1 DEF RowsAt, RecallInv
  <2>3. recall'.at = "ranking" /\ recall'.hits = MergeCases(recall.hits, rowsFound, "semantic")
    BY <1>5
  <2>4. /\ IsFiniteSet(recall'.hits) /\ recall.hits \subseteq recall'.hits
        /\ \A h \in recall'.hits : h \in recall.hits \/ \E r \in rowsFound : h = [row |-> r, by |-> "semantic"]
    <3>1. LET M == MergeCases(recall.hits, rowsFound, "semantic")
          IN IsFiniteSet(M) /\ recall.hits \subseteq M /\ M \subseteq recall.hits \cup HitsOf(rowsFound, "semantic")
      BY <2>1, <2>2, MergedHits
    <3> QED
      BY <2>3, <3>1 DEF HitsOf
  <2>5. \A r \in rowsFound : r \in PossibleRows
    BY <1>2, <2>1, RowsRead
  <2>6. \A h \in recall'.hits : h.row \in PossibleRows /\ h = [row |-> h.row, by |-> h.by]
    BY <2>4, <2>5 DEF RecallInv
  <2>7. patternRead' => Cardinality(FullHits') >= Smaller(Cardinality(BestCases), Smaller(2, TopK))
    <3>1. FullHits \subseteq FullHits' /\ IsFiniteSet(FullHits')
      BY <1>3, <2>4, FS_Subset DEF FullHits
    <3>2. /\ Cardinality(FullHits) <= Cardinality(FullHits')
          /\ Cardinality(FullHits) \in Nat /\ Cardinality(FullHits') \in Nat
      BY <3>1, FS_Subset, FS_CardinalityType
    <3>3. patternRead' => Cardinality(FullHits) >= Smaller(Cardinality(BestCases), Smaller(2, TopK))
      BY <1>1 DEF RecallInv
    <3>4. Smaller(Cardinality(BestCases), Smaller(2, TopK)) \in Nat
      BY <1>2, BestCasesAreFew, CaseRecallAssumptions, SmallerOf
    <3> QED
      BY <3>2, <3>3, <3>4
  <2> QED
    BY <1>2, <1>3, <2>3, <2>4, <2>6, <2>7 DEF RecallInv
<1> QED
  BY <1>4, <1>5 DEF RecallSemantic

LEMMA RankHitsKeeps == RecallInv /\ RankHits => RecallInv'
<1> SUFFICES ASSUME RecallInv, RankHits PROVE RecallInv'
  OBVIOUS
<1>1. PICK shown \in SUBSET recall.hits :
        /\ Cardinality(shown) = Smaller(TopK, Cardinality(recall.hits))
        /\ \A h \in shown, g \in recall.hits \ shown : RankKey(h) >= RankKey(g)
        /\ recall' = [at |-> "answered", hits |-> shown]
  BY DEF RankHits
<1>2. UNCHANGED <<named, caseTable, steady, patternRead>> /\ recall.at = "ranking"
  BY DEF RankHits
<1>3. TableInv /\ TableInv' /\ PossibleRows' = PossibleRows /\ named \in BOOLEAN
  BY <1>2 DEF RecallInv, TableInv, PossibleRows
<1>4. recall'.at = "answered" /\ recall'.hits = shown
  BY <1>1
<1>5. BestCases' = BestCases /\ FullHits' = {h \in shown : FullMatch(h.row)}
  BY <1>2, <1>4 DEF BestCases, FullHits, FullMatch
<1>6. /\ IsFiniteSet(recall.hits) /\ IsFiniteSet(shown)
      /\ Cardinality(recall.hits) \in Nat /\ Cardinality(shown) \in Nat
  BY FS_Subset, FS_CardinalityType DEF RecallInv
<1>7. \A h \in shown : h.row \in PossibleRows /\ h = [row |-> h.row, by |-> h.by]
  BY DEF RecallInv
<1>8. patternRead' => Cardinality(FullHits') >= Smaller(Cardinality(BestCases), Smaller(2, TopK))
  <2> DEFINE b == Cardinality(BestCases)
             t == Smaller(2, TopK)
             f == Cardinality(FullHits)
             s == Smaller(b, t)
  <2>1. b \in Nat /\ t \in Nat /\ t <= TopK /\ TopK \in Nat /\ 2 \in Nat
    BY <1>3, BestCasesAreFew, CaseRecallAssumptions, SmallerOf
  <2>2. s \in Nat /\ s <= b /\ s <= t
    <3> HIDE DEF b, t
    <3> QED
      BY <2>1, SmallerOf
  <2>3. patternRead' => f >= s
    BY <1>2 DEF RecallInv
  <2>4. CASE FullHits \subseteq shown
    <3>1. FullHits' = FullHits
      BY <1>1, <1>5, <2>4 DEF FullHits
    <3> QED
      BY <2>3, <3>1
  <2>5. ASSUME NEW g \in FullHits, g \notin shown PROVE Cardinality(FullHits') >= s
    <3>1. g \in recall.hits /\ FullMatch(g.row) /\ g.row \in PossibleRows
      BY DEF FullHits, RecallInv
    <3>2. ASSUME NEW h \in shown PROVE FullMatch(h.row)
      <4>1. RankKey(h) >= RankKey(g) /\ h.row \in PossibleRows
        BY <1>1, <1>7, <2>5, <3>1
      <4> QED
        BY <1>3, <3>1, <4>1, FullMatchRanksBest
    <3>3. FullHits' = shown
      BY <1>5, <3>2
    <3>4. Cardinality(shown) < Cardinality(recall.hits)
      <4>1. shown # recall.hits
        BY <2>5, <3>1
      <4>2. Cardinality(shown) <= Cardinality(recall.hits)
            /\ (Cardinality(recall.hits) = Cardinality(shown) => recall.hits = shown)
        BY <1>6, FS_Subset
      <4> QED
        BY <1>6, <4>1, <4>2
    <3>5. Cardinality(shown) = TopK
      BY <1>1, <1>6, <3>4, <2>1 DEF Smaller
    <3> HIDE DEF s, t, b
    <3> QED
      BY <2>1, <2>2, <3>3, <3>5
  <2> QED
    BY <2>4, <2>5
<1> QED
  BY <1>3, <1>4, <1>5, <1>6, <1>7, <1>8 DEF RecallInv

\* An index call leaves the rows of the other cases as they are.
LEMMA RowsReplaced ==
  ASSUME TableInv, NEW c \in 1..NumIndexed, NEW x \in PossibleRows, x.case = c,
         caseTable' = <<x>> \o Selected(caseTable, {i \in DOMAIN caseTable : caseTable[i].case # c})
  PROVE  /\ caseTable' \in Seq(PossibleRows) /\ OneRowPerCase(caseTable')
         /\ \A k \in DOMAIN caseTable' : caseTable'[k].case # c =>
              \E i \in DOMAIN caseTable : caseTable'[k] = caseTable[i]
         /\ \A i \in DOMAIN caseTable : caseTable[i].case # c =>
              \E k \in DOMAIN caseTable' : caseTable'[k] = caseTable[i]
<1> DEFINE I == {i \in DOMAIN caseTable : caseTable[i].case # c}
           m == Len(caseTable)
           others == Selected(caseTable, I)
<1>1. m \in Nat /\ DOMAIN caseTable = 1..m /\ I \in SUBSET (1..m) /\ I \in SUBSET DOMAIN caseTable
  BY DEF TableInv
<1>2. others \in Seq(PossibleRows) /\ caseTable \in Seq(PossibleRows)
  <2>1. caseTable \in Seq(PossibleRows)
    BY DEF TableInv
  <2> HIDE DEF I
  <2> QED
    BY <1>1, <2>1, SelectedIsSeq
<1>3. DOMAIN others = 1..Cardinality(I) /\ Len(others) = Cardinality(I) /\ Cardinality(I) \in 0..m
  <2> HIDE DEF I
  <2> QED
    BY <1>1, SelectedElements
<1>4. \A k \in 1..Cardinality(I) : \E i \in I : others[k] = caseTable[i] /\ Counted(I, i) = k
  <2> HIDE DEF I
  <2> QED
    BY <1>1, SelectedCounts
<1>5. ASSUME NEW i \in I PROVE \E k \in 1..Cardinality(I) : others[k] = caseTable[i]
  <2> DEFINE k == Cardinality({j \in I : j <= i})
  <2>1. k \in DOMAIN others /\ others[k] = caseTable[i]
    <3> HIDE DEF I
    <3> QED
      BY <1>1, SelectedPlace
  <2> HIDE DEF k, others
  <2> QED
    BY <1>3, <2>1
<1>6. ASSUME NEW k \in 1..Cardinality(I), NEW l \in 1..Cardinality(I), others[k].case = others[l].case
      PROVE  k = l
  <2>1. PICK i \in I : others[k] = caseTable[i] /\ Counted(I, i) = k
    BY <1>4
  <2>2. PICK h \in I : others[l] = caseTable[h] /\ Counted(I, h) = l
    BY <1>4
  <2>3. i = h
    BY <1>6, <2>1, <2>2 DEF TableInv, OneRowPerCase
  <2> QED
    BY <2>1, <2>2, <2>3
<1>7. \A k \in 1..Cardinality(I) : others[k].case # c
  BY <1>4
<1> DEFINE N == Cardinality(I)
<1>8. N \in Nat /\ Len(others) = N
  BY <1>3
<1> HIDE DEF others, N, I
<1>9. caseTable' = <<x>> \o others
  BY DEF others, I
<1>10. /\ caseTable' \in Seq(PossibleRows) /\ DOMAIN caseTable' = 1..(N + 1)
       /\ caseTable'[1] = x /\ \A k \in 1..N : caseTable'[k + 1] = others[k]
  <2>1. <<x>> \o others \in Seq(PossibleRows) /\ PutsFirst(x, others, <<x>> \o others)
    BY <1>2, PutFirst
  <2> QED
    BY <1>8, <1>9, <2>1 DEF PutsFirst
<1>11. \A k \in 1..(N + 1) : k = 1 \/ \E l \in 1..N : k = l + 1
  <2> SUFFICES ASSUME NEW k \in 1..(N + 1), k # 1 PROVE k - 1 \in 1..N /\ k = (k - 1) + 1
    OBVIOUS
  <2> QED
    BY <1>8
<1>12. \A k \in 1..N : k + 1 \in 1..(N + 1)
  BY <1>8
<1>13. OneRowPerCase(caseTable')
  <2>1. \A k, l \in 1..N : others[k].case = others[l].case => k = l
    BY <1>6 DEF N
  <2>2. \A k \in 1..N : others[k].case # c
    BY <1>7 DEF N
  <2>3. ASSUME NEW k \in 1..(N + 1), NEW l \in 1..(N + 1), caseTable'[k].case = caseTable'[l].case
        PROVE  k = l
    <3>1. CASE k = 1 \/ l = 1
      BY <1>10, <1>11, <2>2, <2>3, <3>1
    <3>2. ASSUME NEW a \in 1..N, NEW b \in 1..N, k = a + 1, l = b + 1 PROVE a = b
      BY <1>10, <2>1, <2>3, <3>2
    <3> QED
      BY <1>11, <3>1, <3>2
  <2> QED
    BY <1>10, <2>3 DEF OneRowPerCase
<1>14. \A k \in DOMAIN caseTable' : caseTable'[k].case # c =>
         \E i \in DOMAIN caseTable : caseTable'[k] = caseTable[i]
  <2>1. \A k \in 1..N : \E i \in DOMAIN caseTable : others[k] = caseTable[i]
    BY <1>1, <1>4 DEF N
  <2> SUFFICES ASSUME NEW k \in 1..(N + 1), caseTable'[k].case # c
               PROVE  \E i \in DOMAIN caseTable : caseTable'[k] = caseTable[i]
    BY <1>10
  <2>2. PICK l \in 1..N : k = l + 1
    BY <1>10, <1>11
  <2> QED
    BY <1>10, <2>1, <2>2
<1>15. \A i \in DOMAIN caseTable : caseTable[i].case # c =>
         \E k \in DOMAIN caseTable' : caseTable'[k] = caseTable[i]
  <2>1. \A i \in DOMAIN caseTable : caseTable[i].case # c => \E k \in 1..N : others[k] = caseTable[i]
    BY <1>5 DEF N, I
  <2> QED
    BY <1>10, <1>12, <2>1, ZenonT(30)
<1> QED
  BY <1>10, <1>13, <1>14, <1>15

LEMMA ReplaceRowKeeps ==
  ASSUME RecallInv, NEW c \in 1..NumIndexed, ReplaceRow(c)
  PROVE  RecallInv'
<1>1. PICK row \in CaseRows :
        /\ Possible(row)
        /\ caseTable' = <<OfCase(row, c)>> \o Selected(caseTable, {i \in DOMAIN caseTable : caseTable[i].case # c})
  BY DEF ReplaceRow
<1> PICK x : x = OfCase(row, c)
  OBVIOUS
<1>2. UNCHANGED <<named, recall, patternRead>> /\ steady' = steady \ {c} /\ recall.at \in {"pattern", "semantic"}
  BY DEF ReplaceRow
<1>3. TableInv
  BY DEF RecallInv
<1>4. x \in PossibleRows /\ x.case = c
  <2>1. row \in [service : BOOLEAN, mode : BOOLEAN, taxonomy : BOOLEAN,
                 words : 0..1000, place : {0, 30, 40, 70}]
    BY CaseRecallAssumptions
  <2>2. /\ row.service \in BOOLEAN /\ row.mode \in BOOLEAN /\ row.taxonomy \in BOOLEAN
        /\ row.words \in 0..1000 /\ row.place \in {0, 30, 40, 70} /\ c \in Nat
    BY <2>1, CaseRecallAssumptions
  <2>3. x \in IndexedRows
    BY <2>2 DEF OfCase, IndexedRows
  <2> QED
    BY <1>1, <2>3 DEF OfCase, PossibleRows, Possible
<1>5. caseTable' = <<x>> \o Selected(caseTable, {i \in DOMAIN caseTable : caseTable[i].case # c})
  BY <1>1
<1>6. /\ caseTable' \in Seq(PossibleRows) /\ OneRowPerCase(caseTable')
      /\ \A k \in DOMAIN caseTable' : caseTable'[k].case # c =>
           \E i \in DOMAIN caseTable : caseTable'[k] = caseTable[i]
      /\ \A i \in DOMAIN caseTable : caseTable[i].case # c =>
           \E k \in DOMAIN caseTable' : caseTable'[k] = caseTable[i]
  BY <1>3, <1>4, <1>5, RowsReplaced
<1>7. PossibleRows' = PossibleRows
  BY <1>2 DEF PossibleRows
<1>8. TableInv'
  BY <1>2, <1>3, <1>6, <1>7 DEF TableInv, OneRowPerCase
<1>9. BestCases' \subseteq BestCases
  BY <1>2, <1>6 DEF BestCases, FullMatch
<1>10. FullHits' = FullHits
  BY <1>2 DEF FullHits, FullMatch
<1>11. recall.at = "pattern" => \A h \in recall.hits :
         h.row.case \in steady' => \E k \in DOMAIN caseTable' : caseTable'[k] = h.row
  <2> SUFFICES ASSUME recall.at = "pattern", NEW h \in recall.hits, h.row.case \in steady'
               PROVE  \E k \in DOMAIN caseTable' : caseTable'[k] = h.row
    OBVIOUS
  <2>1. h.row.case \in steady /\ h.row.case # c
    BY <1>2
  <2>2. PICK i \in DOMAIN caseTable : caseTable[i] = h.row
    BY <2>1 DEF RecallInv
  <2> QED
    BY <1>6, <2>1, <2>2
<1>12. recall.at = "semantic" /\ patternRead =>
         Cardinality(FullHits') >= Smaller(Cardinality(BestCases'), Smaller(2, TopK))
  <2>1. /\ Cardinality(BestCases') <= Cardinality(BestCases)
        /\ Cardinality(BestCases') \in Nat /\ Cardinality(BestCases) \in Nat
    BY <1>3, <1>9, BestCasesAreFew, FS_Subset, FS_CardinalityType
  <2>2. Smaller(2, TopK) \in Nat
    BY CaseRecallAssumptions, SmallerOf
  <2>3. Cardinality(FullHits) \in Nat
    BY FS_Subset, FS_CardinalityType DEF RecallInv, FullHits
  <2>4. recall.at = "semantic" /\ patternRead =>
          Cardinality(FullHits) >= Smaller(Cardinality(BestCases), Smaller(2, TopK))
    BY DEF RecallInv
  <2> QED
    BY <1>10, <2>1, <2>2, <2>3, <2>4 DEF Smaller
<1> QED
  BY <1>2, <1>7, <1>8, <1>11, <1>12 DEF RecallInv

LEMMA CaseRecallNextKeeps == RecallInv /\ [CaseRecallNext]_caseRecallVars => RecallInv'
<1> SUFFICES ASSUME RecallInv, [CaseRecallNext]_caseRecallVars PROVE RecallInv'
  OBVIOUS
<1>1. CASE RecallExact
  BY <1>1, RecallExactKeeps
<1>2. CASE RecallPattern
  BY <1>2, RecallPatternKeeps
<1>3. CASE RecallSemantic
  BY <1>3, RecallSemanticKeeps
<1>4. CASE RankHits
  BY <1>4, RankHitsKeeps
<1>5. ASSUME NEW c \in 1..NumIndexed, ReplaceRow(c) PROVE RecallInv'
  BY <1>5, ReplaceRowKeeps
<1>6. CASE UNCHANGED caseRecallVars
  BY <1>6 DEF caseRecallVars, RecallInv, TableInv, PossibleRows, BestCases, FullHits, FullMatch, OneRowPerCase
<1> QED
  BY <1>1, <1>2, <1>3, <1>4, <1>5, <1>6 DEF CaseRecallNext

\* BestMatchesShown: a search that read the index for its pattern recall answers with
\* every full match whose row stayed as it was, or with two of them (_exact_recall,
\* _pattern_recall, _merge_cases and the ranking in case_memory.py), whatever the rows,
\* the writes between the reads and the reads of the other recalls that fail.
THEOREM BestCasesAreShown == CaseRecallSpec => []BestMatchesShown
<1>1. RecallInv => BestMatchesShown
  BY DEF RecallInv, BestMatchesShown, BestCases, FullHits
<1> QED
  BY <1>1, CaseRecallStarts, CaseRecallNextKeeps, PTL DEF CaseRecallSpec

=============================================================================
