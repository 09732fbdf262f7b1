---------------------------- MODULE RuleDiagnosis ----------------------------
(***************************************************************************)
(* The diagnosis without a language model: hypotheses from the words of    *)
(* the message, the matched domains and the recalled playbooks; each one's *)
(* tools run in turn; the results ranked; the action of the first          *)
(* proposed.  Scores are integers, thousandths of the code's, times ten    *)
(* once they are weighted.                                                 *)
(***************************************************************************)
EXTENDS Naturals, Sequences, FiniteSets, Subsequences

CONSTANTS Clues   \* what a run starts from: see Clue

Words == {"low risk", "deploy", "rollback", "database", "network", "pod", "oom"}
RuleTools ==
  {"health", "alerts", "deployments", "rollout", "pipeline", "changes", "rollbacks", "ingress",
   "vpc", "upstream", "instance", "pool", "queries", "pods", "logs", "events"}

HypothesisIds == {"playbook", "observe", "deploy", "network", "database", "pod", "generic"}

\* A recalled playbook: how sure the recall was of it, and the tools of its steps.
Playbooks == [prior : 620..860, tools : Seq(RuleTools)]

\* words: what the message says (an OOM is a pod signal too); domains: the matched ones;
\* playbooks: the recalled ones; history: the words that the cause of a
\* similar case and of a hypothesis share, of all the words of both, in thousandths.
Clue ==
  [words : SUBSET Words, domains : SUBSET {"cicd", "network", "db", "k8s"},
   playbooks : Seq(Playbooks), history : [HypothesisIds -> 0..1000]]

ASSUME RuleAssumptions ==
  /\ Clues \subseteq Clue
  /\ \A c \in Clues : "oom" \in c.words => "pod" \in c.words

VARIABLES
  clue,
  hypotheses,  \* what is to be verified, in order
  verifying,   \* the hypothesis and the step that are next
  checked,     \* by hypothesis, what its tools have shown
  ruleCache,   \* results that a later step asks for again
  ranked,      \* verification results, the first in rank first
  proposal

ruleVars == <<clue, hypotheses, verifying, checked, ruleCache, ranked, proposal>>

-----------------------------------------------------------------------------
(* Hypotheses.                                                             *)

NoAction == "none"

Hypothesis(id, prior, tools, action) == [id |-> id, prior |-> prior, tools |-> tools, action |-> action]

\* At most two playbooks of at most five steps; one without tools is left out.
PlaybookHypotheses(c) ==
  LET guided == Selected(c.playbooks, {i \in DOMAIN c.playbooks : i <= 2 /\ c.playbooks[i].tools # <<>>})
  IN [i \in DOMAIN guided |->
        Hypothesis("playbook", guided[i].prior,
                   SubSeq(guided[i].tools, 1, IF Len(guided[i].tools) < 5 THEN Len(guided[i].tools) ELSE 5),
                   NoAction)]

\* Words of the message, or else a matched domain that no word speaks against.
DeployHypothesis(c) ==
  IF "deploy" \in c.words \/ ("cicd" \in c.domains /\ c.words \cap {"pod", "network", "database"} = {})
  THEN <<Hypothesis("deploy", IF "rollback" \in c.words THEN 840 ELSE 760,
                    <<"health", "deployments", "rollout", "pipeline", "changes", "rollbacks">>,
                    IF "rollback" \in c.words THEN "rollback_release" ELSE NoAction)>>
  ELSE <<>>

NetworkHypothesis(c) ==
  IF "network" \in c.words \/ ("network" \in c.domains /\ c.words \cap {"deploy", "database"} = {})
  THEN <<Hypothesis("network", 700, <<"ingress", "vpc", "upstream">>, NoAction)>> ELSE <<>>

DatabaseHypothesis(c) ==
  IF "database" \in c.words \/ ("db" \in c.domains /\ c.words \cap {"deploy", "pod", "network"} = {})
  THEN <<Hypothesis("database", 680, <<"instance", "pool", "queries">>, NoAction)>> ELSE <<>>

PodHypothesis(c) ==
  IF "pod" \in c.words \/ ("k8s" \in c.domains /\ c.words \cap {"deploy", "network", "database"} = {})
  THEN <<Hypothesis("pod", 720, <<"pods", "logs", "events">>,
                    IF "oom" \in c.words THEN "restart_pods" ELSE NoAction)>> ELSE <<>>

BuildHypotheses(c) ==
  LET named == DeployHypothesis(c) \o NetworkHypothesis(c) \o DatabaseHypothesis(c) \o PodHypothesis(c)
      guided == PlaybookHypotheses(c)
      generic == <<Hypothesis("generic", 550, <<"health", "alerts">>, NoAction)>>
      all == IF guided \o named = <<>> THEN generic ELSE guided \o named
  IN IF "low risk" \in c.words
     THEN guided \o <<Hypothesis("observe", 700, <<"health", "alerts">>, "observe_service")>>
     ELSE SubSeq(all, 1, IF Len(all) < 3 THEN Len(all) ELSE 3)

-----------------------------------------------------------------------------
(* Tools.                                                                  *)

\* What a result says: whether it matches an expected signal, how many evidence texts are
\* derived from it, and what the choice of an action looks at.  A failed tool says
\* nothing; for three a text is derived from an empty payload too.
ToolOutcomes(t) ==
  {[signal |-> FALSE, texts |-> 1, says |-> {}], [signal |-> FALSE, texts |-> 2, says |-> {}],
   [signal |-> TRUE, texts |-> 1, says |-> IF t \in {"logs", "events"} THEN {"oom"} ELSE {}]}
  \cup (IF t \in {"rollout", "pipeline", "events"} THEN {} ELSE {[signal |-> FALSE, texts |-> 0, says |-> {}]})
  \cup (IF t = "deployments" THEN {[signal |-> FALSE, texts |-> 2, says |-> {"deploy"}]} ELSE {})
  \cup (IF t = "changes" THEN {[signal |-> FALSE, texts |-> 2, says |-> {"deploy", "change"}]} ELSE {})
  \cup (IF t \in {"rollout", "health"}
        THEN {[signal |-> s, texts |-> 2, says |-> {"degraded"}] : s \in BOOLEAN} ELSE {})

Unchecked == [signals |-> 0, texts |-> 0, says |-> {}]

RuleInit ==
  /\ clue \in Clues
  /\ hypotheses = BuildHypotheses(clue)
  /\ verifying = <<1, 1>>
  /\ checked = [i \in DOMAIN hypotheses |-> Unchecked]
  /\ ruleCache = <<>>
  /\ ranked = <<>> /\ proposal = NoAction

\* The steps after this one.
AskedAgain(i, k, t) ==
  \/ \E l \in (k + 1)..Len(hypotheses[i].tools) : hypotheses[i].tools[l] = t
  \/ \E j \in (i + 1)..Len(hypotheses) : \E l \in DOMAIN hypotheses[j].tools : hypotheses[j].tools[l] = t

\* One tool call; equal texts of a hypothesis count once, so those of a cached result.
RunNamedTool ==
  /\ verifying[1] <= Len(hypotheses)
  /\ LET i == verifying[1]
         k == verifying[2]
         t == hypotheses[i].tools[k]
         again == \E l \in 1..(k - 1) : hypotheses[i].tools[l] = t
     IN \E o \in IF t \in DOMAIN ruleCache THEN {ruleCache[t]} ELSE ToolOutcomes(t) :
          /\ checked' = [checked EXCEPT ![i] =
               [signals |-> @.signals + IF o.signal THEN 1 ELSE 0,
                texts |-> @.texts + IF again THEN 0 ELSE o.texts,
                says |-> @.says \cup o.says]]
          /\ ruleCache' = [u \in {u \in DOMAIN ruleCache \cup {t} : AskedAgain(i, k, u)} |->
                             IF u = t THEN o ELSE ruleCache[u]]
          /\ verifying' = IF k < Len(hypotheses[i].tools) THEN <<i, k + 1>> ELSE <<i + 1, 1>>
  /\ UNCHANGED <<clue, hypotheses, ranked, proposal>>

-----------------------------------------------------------------------------
(* Verification and ranking.                                               *)

AtMost(n, m) == IF n < m THEN n ELSE m
AtLeast(n, m) == IF n > m THEN n ELSE m

EvidenceStrength_TextsOnly(c) == <<0, 167, 333, 500, 667, 833, 1000>>[AtMost(c.texts, 6) + 1]

\* In sixths, to three digits.
EvidenceStrength(c) ==
  <<0, 167, 333, 500, 667, 833, 1000>>[AtMost(AtLeast(c.texts, 2 * c.signals), 6) + 1]

Confidence(h, c) == AtMost(950, h.prior + 80 * c.signals)

DeployRegression(says) == {"deploy", "change"} \subseteq says \/ {"deploy", "degraded"} \subseteq says

\* An action that words of the message named is kept whatever the tools say.
DeriveAction(h, c) ==
  IF h.action # NoAction THEN h.action
  ELSE IF h.id = "deploy" /\ DeployRegression(c.says) THEN "rollback_release"
  ELSE IF h.id = "pod" /\ "oom" \in c.says THEN "restart_pods"
  ELSE NoAction

Score(h, c) == 5 * EvidenceStrength(c) + 3 * Confidence(h, c) + 2 * clue.history[h.id]

VerificationResults ==
  [i \in DOMAIN hypotheses |->
     LET h == hypotheses[i]
         c == checked[i]
     IN [id |-> h.id, signals |-> c.signals, says |-> c.says, action |-> DeriveAction(h, c),
         score |-> Score(h, c), confidence |-> Confidence(h, c), strength |-> EvidenceStrength(c), at |-> i]]

\* Ranker.rank: by score, then confidence, then strength; equals keep their order.
Outranks(r, s) ==
  \/ r.score > s.score
  \/ r.score = s.score /\ r.confidence > s.confidence
  \/ r.score = s.score /\ r.confidence = s.confidence /\ r.strength > s.strength
  \/ r.score = s.score /\ r.confidence = s.confidence /\ r.strength = s.strength /\ r.at < s.at

\* As many results come before one as outrank it.
Ranking(results) ==
  [k \in DOMAIN results |->
     results[CHOOSE i \in DOMAIN results :
               Cardinality({j \in DOMAIN results : Outranks(results[j], results[i])}) = k - 1]]

Rank ==
  /\ verifying[1] > Len(hypotheses) /\ ranked = <<>>
  /\ ranked' = Ranking(VerificationResults)
  /\ proposal' = ranked'[1].action
  /\ UNCHANGED <<clue, hypotheses, verifying, checked, ruleCache>>

RuleNext == RunNamedTool \/ Rank

RuleSpec == RuleInit /\ [][RuleNext]_ruleVars

-----------------------------------------------------------------------------
(* Properties.                                                             *)

\* The one way three confirmations do not pay off: the second playbook was recalled
\* with the least prior and the first with the largest, so both end with one score.
DeadHeat(r, s) == r.score = s.score /\ r.id = "playbook" /\ s.id = "playbook" /\ s.at < r.at

\* Where no similar case weighs in, a hypothesis that three of its checks confirmed is
\* never placed behind one that none confirmed, however sure of itself that one began
\* and however many texts its tools gave, but for a dead heat of two playbooks; so no
\* action that the tools do not bear out is proposed in place of one they do.
ConfirmedOutranksUnconfirmed ==
  (\A id \in HypothesisIds : clue.history[id] = 0) =>
    \A m \in DOMAIN ranked, n \in DOMAIN ranked :
      ranked[m].signals >= 3 /\ ranked[n].signals = 0 =>
        m < n \/ DeadHeat(ranked[m], ranked[n])

=============================================================================
