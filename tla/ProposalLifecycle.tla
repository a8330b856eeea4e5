------------------------- MODULE ProposalLifecycle -------------------------
(***************************************************************************)
(* What the tool workflow promises of one write proposal: a human decision *)
(* comes first, the provider creates at most one ticket and only while the *)
(* proposal is executing, and the outcome that is recorded is the          *)
(* provider's: a success has its ticket, a failure has none, then or later.*)
(***************************************************************************)
EXTENDS Naturals

VARIABLES
    state,      \* lifecycle of the proposal
    tickets     \* tickets the provider created for it

vars == <<state, tickets>>

Init == state = "proposed" /\ tickets = 0

Decide ==
    /\ state = "proposed" /\ state' \in {"approved", "rejected"}
    /\ UNCHANGED tickets

Start ==
    /\ state = "approved" /\ state' = "executing"
    /\ UNCHANGED tickets

CreateTicket ==
    /\ state = "executing" /\ tickets = 0
    /\ tickets' = 1
    /\ UNCHANGED state

Succeed ==
    /\ state = "executing" /\ tickets = 1
    /\ state' = "succeeded"
    /\ UNCHANGED tickets

Fail ==
    /\ state = "executing" /\ tickets = 0
    /\ state' = "failed"
    /\ UNCHANGED tickets

Next == Decide \/ Start \/ CreateTicket \/ Succeed \/ Fail

Spec == Init /\ [][Next]_vars
=============================================================================
