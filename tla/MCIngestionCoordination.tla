---------------------- MODULE MCIngestionCoordination ----------------------
(* Small instances of IngestionCoordination for TLC.                        *)
EXTENDS IngestionCoordination, TLC

\* The first retry may be immediate (zero jitter) or one unit away.
MCRetryWindow == [n \in 1..(MaxAttempts - 1) |-> 1]

\* Worker and version identities are never compared by order.
Symmetry == Permutations(Workers) \cup Permutations(Versions)

=============================================================================
