-------------------------- MODULE ConversationLog --------------------------
(***************************************************************************)
(* What a Conversation promises to its reader: its turns form a log.  A    *)
(* question is appended only when the one before it is settled, a turn is  *)
(* taken up at most once, and a settled turn never changes again.          *)
(*                                                                         *)
(* ConversationTurns implements this specification.                        *)
(***************************************************************************)
EXTENDS Naturals, Sequences

CONSTANT Conversations

VARIABLE log     \* conversation -> public statuses of its turns, in sequence order

Outcomes == {"answered", "refused", "failed", "interrupted"}
Active == {"queued", "processing"}

Init == log = [c \in Conversations |-> <<>>]

LastStatus(c) == log[c][Len(log[c])]

Ask(c) ==
    /\ log[c] # <<>> => LastStatus(c) \notin Active
    /\ log' = [log EXCEPT ![c] = Append(@, "queued")]

\* The last turn moves on; nothing else in the log does.
Advance(c, from, to) ==
    /\ log[c] # <<>> /\ LastStatus(c) = from
    /\ log' = [log EXCEPT ![c][Len(log[c])] = to]

Take(c) == Advance(c, "queued", "processing")

Settle(c) == \E outcome \in Outcomes : Advance(c, "processing", outcome)

Next == \E c \in Conversations : Ask(c) \/ Take(c) \/ Settle(c)

LogSpec == Init /\ [][Next]_log
=============================================================================
