------------------------- MODULE MCAgentComponents --------------------------
\* Instances of the components that AgentComponents brings together.
EXTENDS AgentComponents

\* CaseMemory: two sessions of one service type.
OneServiceType == [s \in Sessions |-> "order"]

\* ReactLoop: two domains, a helper they share, the two searches; in one run a recalled
\* playbook names a search and a default tool.
CONSTANTS health, pods, logs, upstream, kb, hist
Groups == [k8s |-> <<pods, logs, health>>, network |-> <<upstream, health>>]
Priorities == [k8s |-> <<pods, logs>>, network |-> <<upstream>>]
Neighbours == [k8s |-> <<"network">>, network |-> <<"k8s">>]
TextsOfNothing == [t \in Tools |-> IF t = pods THEN 1 ELSE 0]
DefaultTools == <<health, pods, upstream>>
SomeTickets ==
  {[explicit |-> e, matched |-> m, playbook |-> <<>>, hits |-> 0, cases |-> 0, queries |-> {},
    service |-> e # m] :
     e \in {<<>>, <<"k8s">>}, m \in {<<>>, <<"network">>}}
  \cup {[explicit |-> <<>>, matched |-> <<>>, playbook |-> <<kb, health>>, hits |-> 0, cases |-> 0,
         queries |-> {"cases"}, service |-> TRUE]}

\* ApprovalGate: one or two proposals of every kind, each with an id of its own.
ProposalsOf(id) ==
  {[id |-> id, action |-> a, risk |-> r, service |-> s, params |-> p] :
     a \in {"cicd.rollback_release", "restart_pods", "observe_service", "unregistered"},
     r \in {"low", "medium", "high", "critical"}, s \in Services,
     p \in {"plain", "transported", "missing", "auto_approve", "policy_blocked"}}
OneOrTwoProposals ==
  {<<p>> : p \in ProposalsOf(1)} \cup {<<p, q>> : p \in ProposalsOf(1), q \in ProposalsOf(2)}

\* KnowledgeIndex: a section is added before one that is found.
BeforeAndAfter == {<<<<"a">>>>, <<<<"b", "c">>, <<"a">>>>}

\* CaseRecall: a full match, two weaker ones of which one has its exact score, and one
\* of another service.
RowOf(s, m, t, w) == [service |-> s, mode |-> m, taxonomy |-> t, words |-> w, place |-> 0]
SomeRows == {RowOf(TRUE, TRUE, TRUE, 0), RowOf(TRUE, TRUE, FALSE, 700), RowOf(FALSE, TRUE, TRUE, 700)}

\* RuleDiagnosis
NoHistory == [id \in HypothesisIds |-> 0]
ClueOf(words, matched, playbooks, history) ==
  [words |-> words, domains |-> matched, playbooks |-> playbooks, history |-> history]
SomeClues == {
  ClueOf({"deploy", "rollback", "network"}, {}, <<>>, NoHistory),
  ClueOf({"pod", "oom", "database"}, {"cicd"}, <<>>, NoHistory),
  ClueOf({}, {"cicd", "k8s"}, <<>>, NoHistory),
  ClueOf({"low risk"}, {}, <<[prior |-> 860, tools |-> <<"health", "logs", "queries">>]>>, NoHistory),
  ClueOf({"pod"}, {}, <<[prior |-> 860, tools |-> <<"logs", "health", "logs">>]>>,
         [NoHistory EXCEPT !["pod"] = 400]),
  ClueOf({}, {"db"}, <<[prior |-> 700, tools |-> <<>>]>>, NoHistory),
  ClueOf({}, {}, <<[prior |-> 860, tools |-> <<"health", "queries", "logs">>],
                   [prior |-> 620, tools |-> <<"pods", "vpc", "pool">>]>>, NoHistory),
  ClueOf({"rollback"}, {}, <<>>, NoHistory)}

=============================================================================
