---------------------------- MODULE MCConversation ----------------------------
(* Conversation with interchangeable goroutines.                              *)
EXTENDS Conversation, TLC

CONSTANTS t1, t2

MCTasks == {t1, t2}

\* Every goroutine runs the same handlers, and no property names one.
TaskSymmetry == Permutations(MCTasks)
================================================================================
