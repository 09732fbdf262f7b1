---------------------------- MODULE MCCaseMemory ----------------------------
\* CaseMemory alone, with two sessions of one service type.
EXTENDS CaseMemory

OneServiceType == [s \in Sessions |-> "order"]

=============================================================================
