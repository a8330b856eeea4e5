------------------------ MODULE MCConversationTurns ------------------------
(* Small instances of ConversationTurns for TLC.                            *)
EXTENDS ConversationTurns, TLC

\* The two loops of scripts/run_conversation_worker.py.
OneProcess == [l \in Loops |-> CHOOSE p \in Processes : TRUE]

\* Two worker processes, of which one loop each matters.
ProcessEach == [l \in Loops |-> l]

\* Loops, conversations and keys are never compared by order.
Symmetry == Permutations(Loops) \cup Permutations(Conversations) \cup Permutations(Keys)
=============================================================================
