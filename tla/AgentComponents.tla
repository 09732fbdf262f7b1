--------------------------- MODULE AgentComponents ---------------------------
(***************************************************************************)
(* The components beside the conversation and the execution plan, each in  *)
(* a module of its own.  They share no variable: what one passes to        *)
(* another (a diagnosis to the approval gate, a bad case to its files) is  *)
(* among the inputs the other starts from.  So each is checked by itself,  *)
(* in a behaviour that moves only the component in focus, and the others   *)
(* stay in one of their initial states.                                    *)
(***************************************************************************)
EXTENDS ApprovalStore, CaseMemory, BadCases, SessionMemory, ReactLoop, RuleDiagnosis, ApprovalGate,
        KnowledgeIndex, CaseRecall

VARIABLE focus

componentVars ==
  <<approvalVars, memoryVars, badCaseVars, sessionMemoryVars, reactVars, ruleVars, gateVars, kbVars,
    caseRecallVars, focus>>

ComponentsInit ==
  /\ focus \in {"approval store", "case memory", "bad cases", "session memory", "react loop", "rules",
                "gate", "knowledge", "case recall"}
  /\ focus # "react loop" => ticket = CHOOSE t \in Tickets : TRUE
  /\ focus # "rules"      => clue = CHOOSE c \in Clues : TRUE
  /\ focus # "gate"       => gateInput = CHOOSE i \in GateInputs : TRUE
  /\ focus # "knowledge"  => backend = "local" /\ kbFiles = CHOOSE f \in [Docs -> Contents] : TRUE
  /\ focus # "case recall" => named = TRUE /\ caseTable = <<>>
  /\ StoreInit /\ CaseMemoryInit /\ BadCasesInit /\ SessionMemoryInit
  /\ ReactInit /\ RuleInit /\ GateInit /\ KbInit /\ CaseRecallInit

InApprovalStore ==
  /\ focus = "approval store" /\ StoreNext
  /\ UNCHANGED <<memoryVars, badCaseVars, sessionMemoryVars, reactVars, ruleVars,
                 gateVars, kbVars, caseRecallVars, focus>>

InCaseMemory ==
  /\ focus = "case memory" /\ CaseMemoryNext
  /\ UNCHANGED <<approvalVars, badCaseVars, sessionMemoryVars, reactVars, ruleVars,
                 gateVars, kbVars, caseRecallVars, focus>>

InBadCases ==
  /\ focus = "bad cases" /\ BadCasesNext
  /\ UNCHANGED <<approvalVars, memoryVars, sessionMemoryVars, reactVars, ruleVars,
                 gateVars, kbVars, caseRecallVars, focus>>

InSessionMemory ==
  /\ focus = "session memory" /\ SessionMemoryNext
  /\ UNCHANGED <<approvalVars, memoryVars, badCaseVars, reactVars, ruleVars,
                 gateVars, kbVars, caseRecallVars, focus>>

InReactLoop ==
  /\ focus = "react loop" /\ ReactNext
  /\ UNCHANGED <<approvalVars, memoryVars, badCaseVars, sessionMemoryVars, ruleVars,
                 gateVars, kbVars, caseRecallVars, focus>>

InRules ==
  /\ focus = "rules" /\ RuleNext
  /\ UNCHANGED <<approvalVars, memoryVars, badCaseVars, sessionMemoryVars, reactVars,
                 gateVars, kbVars, caseRecallVars, focus>>

InGate ==
  /\ focus = "gate" /\ GateNext
  /\ UNCHANGED <<approvalVars, memoryVars, badCaseVars, sessionMemoryVars, reactVars,
                 ruleVars, kbVars, caseRecallVars, focus>>

InKnowledge ==
  /\ focus = "knowledge" /\ KbNext
  /\ UNCHANGED <<approvalVars, memoryVars, badCaseVars, sessionMemoryVars, reactVars,
                 ruleVars, gateVars, caseRecallVars, focus>>

InCaseRecall ==
  /\ focus = "case recall" /\ CaseRecallNext
  /\ UNCHANGED <<approvalVars, memoryVars, badCaseVars, sessionMemoryVars, reactVars,
                 ruleVars, gateVars, kbVars, focus>>

ComponentsNext ==
  \/ InApprovalStore \/ InCaseMemory \/ InBadCases \/ InSessionMemory \/ InReactLoop \/ InRules
  \/ InGate \/ InKnowledge \/ InCaseRecall

ComponentsSpec == ComponentsInit /\ [][ComponentsNext]_componentVars

=============================================================================
