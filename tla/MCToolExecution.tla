-------------------------- MODULE MCToolExecution --------------------------
(* Small instances of ToolExecution for TLC.                                *)
EXTENDS ToolExecution, TLC

\* Requests are never compared by order.
Symmetry == Permutations(Callers)
=============================================================================
