---------------------------- MODULE MCConversation ----------------------------
EXTENDS Conversation, TLC

\* The actions of one risk class are interchangeable.
Symmetry == Permutations(HighRisk) \cup Permutations(LowRisk)
=============================================================================
