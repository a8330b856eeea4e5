------------------------- MODULE MCObjectLifecycle -------------------------
(* Small instances of ObjectLifecycle for TLC.                              *)
EXTENDS ObjectLifecycle, TLC

\* Nothing orders submissions, contents or workers; used without liveness.
Symmetry == Permutations(Uploads) \cup Permutations(Contents) \cup Permutations(Workers)
=============================================================================
