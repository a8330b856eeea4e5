--------------------------- MODULE MCOtpRecovery ---------------------------
EXTENDS OtpRecovery, TLC

\* The ids are drawn in a fixed order; tabs, POSTs and addresses are interchangeable.
Symmetry == Permutations(Tabs) \cup Permutations(Posts) \cup Permutations(Emails)
=============================================================================
