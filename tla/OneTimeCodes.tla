---------------------------- MODULE OneTimeCodes ----------------------------
(***************************************************************************)
(* What the e-mailed codes of a password reset promise, whatever tabs,     *)
(* POSTs, mails and administrators do: an account has one code at a time   *)
(* that may be accepted now or once it is activated; it is accepted after  *)
(* it was activated, and then it is closed; and a challenge of which a     *)
(* code was accepted gets no other code.                                   *)
(*                                                                         *)
(* OtpRecovery implements this specification.                              *)
(***************************************************************************)
EXTENDS Naturals

CONSTANTS
    Ids, Accounts,   \* challenges, and the accounts they are for
    None

VARIABLES
    state,           \* challenge -> state of its code, "closed" when there is none to accept
    owner,           \* challenge -> account of its code, None when it is closed
    uses             \* challenge -> how often a code of it was accepted

codeVars == <<state, owner, uses>>

Init ==
    /\ state = [i \in Ids |-> "closed"]
    /\ owner = [i \in Ids |-> None]
    /\ uses = [i \in Ids |-> 0]

Issue(i, a) ==
    /\ state[i] = "closed" /\ uses[i] = 0
    /\ \A j \in Ids : state[j] # "closed" => owner[j] # a
    /\ state' = [state EXCEPT ![i] = "PENDING"]
    /\ owner' = [owner EXCEPT ![i] = a]
    /\ UNCHANGED uses

Activate(i) ==
    /\ state[i] = "PENDING"
    /\ state' = [state EXCEPT ![i] = "ACTIVE"]
    /\ UNCHANGED <<owner, uses>>

Close(gone) ==
    /\ state' = [i \in Ids |-> IF i \in gone THEN "closed" ELSE state[i]]
    /\ owner' = [i \in Ids |-> IF i \in gone THEN None ELSE owner[i]]

\* The code is spent also when the answer is lost, and nobody learns that it was right.
Accept(i) ==
    /\ state[i] = "ACTIVE"
    /\ Close({i})
    /\ uses' \in {uses, [uses EXCEPT ![i] = @ + 1]}

\* Codes run out, any number at a time.
Expire(gone) == Close(gone) /\ UNCHANGED uses

Next ==
    \/ \E gone \in SUBSET Ids : Expire(gone)
    \/ \E i \in Ids : Activate(i) \/ Accept(i) \/ \E a \in Accounts : Issue(i, a)

Spec == Init /\ [][Next]_codeVars
=============================================================================
