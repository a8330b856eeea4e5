---------------------------- MODULE OtpRecovery ----------------------------
(***************************************************************************)
(* The e-mail OTP password reset that Keycloak runs for Knora: the form    *)
(* POSTs of EmailOtpResetAuthenticator, the mail ordering of               *)
(* OtpChallengeService and the transactions of KeycloakOtpChallengeStore   *)
(* (one action each: a transaction locks the rows it decides on before it  *)
(* reads the clock).                                                       *)
(*                                                                         *)
(* A browser tab keeps in its authentication session the address and the   *)
(* reference (challenge, generation) of the code it waits for; a POST      *)
(* reads them when it starts and writes them when it ends, so two POSTs of *)
(* a tab overlap.  The life of a code and the wait between two sends are   *)
(* the same, a budget window is longer (three times).  All tabs come from  *)
(* one address and share its budget.  A code is named by its reference;    *)
(* what is typed is the code of the tab's reference, once that was mailed, *)
(* or a wrong one.                                                         *)
(***************************************************************************)
EXTENDS Integers, FiniteSets

CONSTANTS
    Tabs, Posts,     \* browser tabs; POST requests being served
    Users, Emails,   \* users; addresses, each also the decoy account of nobody's address
    Ids,             \* challenge ids, each drawn once
    MaxAttempts, MaxSends, MaxAddressSends,  \* the budgets: 5, 3 and 20 in the code
    Life, Window,    \* ticks a code lives and a budget window lasts: 5 and 15 minutes
    Retention,       \* ticks an expired challenge is kept
    LastTick,        \* bound: where the clock stops
    MaxTroubles,     \* bound: changes an administrator makes to users, lost answers,
                     \* failed deliveries and crashes, together
    MaxPosts,        \* bound: POSTs that are served
    None, Unknown    \* nothing; a random id that no row has

ASSUME OtpAssumption ==
    /\ {MaxAttempts, MaxSends, MaxAddressSends, Life, Window} \subseteq Nat \ {0}
    /\ Life <= Window
    /\ {Retention, LastTick, MaxTroubles, MaxPosts} \subseteq Nat
    /\ Unknown \notin Ids

Wait == Life

VARIABLES
    clock,
    user,        \* [u |-> [email, enabled]]: Keycloak's users
    notes,       \* [t |-> None or [email, ref]]: the notes of the authentication session
    windows,     \* [a |-> None or [anchor, attempts, sends, last]] of accounts and the address
    challenges,  \* [i |-> None or [tab, email, account, user, gen, expires, state]]
    drawn,       \* the ids drawn so far
    post,        \* [p |-> Idle or what the request is doing]
    mails,       \* history: the references whose code was delivered
    uses,        \* history: [i |-> how often a verification succeeded]
    compared,    \* history: [i |-> [g |-> how often its live code was compared]]
    disturbed,   \* history: tabs whose POSTs overlapped, crashed or lost the answer of a commit
    troubles, posts

vars == <<clock, user, notes, windows, challenges, drawn, post, mails, uses, compared,
          disturbed, troubles, posts>>
store == <<windows, challenges>>
histories == <<mails, uses, compared>>

Address == "address"
Accounts == Users \cup Emails
Generations == 1 .. LastTick
Idle == [pc |-> "idle"]
Budget == [anchor : Int, attempts : Int, sends : Int, last : Int]
Challenge == [tab : Tabs, email : Emails, account : Accounts, user : Users \cup {None},
              gen : Int, expires : Int, state : {"PENDING", "ACTIVE", "CONSUMED"}]

\* The budgets of accounts and of addresses are rows of different kinds; None is neither a row
\* nor a reference.
ASSUME BudgetAssumption ==
    /\ Address \notin Accounts
    /\ None \notin Budget \cup Challenge \cup [id : Ids \cup {Unknown}, gen : Int]

Init ==
    /\ clock = Window
    /\ user \in {f \in [Users -> [email : Emails, enabled : {TRUE}]] :
                     \A u, v \in Users : f[u].email = f[v].email => u = v}
    /\ notes = [t \in Tabs |-> None]
    /\ windows = [a \in Accounts \cup {Address} |-> None]
    /\ challenges = [i \in Ids |-> None]
    /\ drawn = {}
    /\ post = [p \in Posts |-> Idle]
    /\ mails = {}
    /\ uses = [i \in Ids |-> 0]
    /\ compared = [i \in Ids |-> [g \in Generations |-> 0]]
    /\ disturbed = {}
    /\ troubles = 0 /\ posts = 0

InFlight(t) == \E p \in Posts : post[p] # Idle /\ post[p].tab = t

\* The user with an address, and the account the budgets of an address go to.
Owner(e) == {u \in Users : user[u].email = e}
AccountOf(e) == IF Owner(e) = {} THEN e ELSE CHOOSE u \in Owner(e) : TRUE
Deliverable(e) == {u \in Owner(e) : user[u].enabled}

Row(ref) == IF ref.id \in Ids THEN challenges[ref.id] ELSE None

----------------------------------------------------------------------------
(* Time, and users changed by an administrator. *)

Tick ==
    /\ clock < LastTick
    /\ clock' = clock + 1
    /\ UNCHANGED <<user, notes, store, drawn, post, histories, disturbed, troubles, posts>>

ChangeUser(u) ==
    /\ troubles < MaxTroubles
    /\ troubles' = troubles + 1
    /\ \/ user' = [user EXCEPT ![u].enabled = ~@]
       \/ \E e \in Emails : Owner(e) = {} /\ user' = [user EXCEPT ![u].email = e]
    /\ UNCHANGED <<clock, notes, store, drawn, post, histories, disturbed, posts>>

----------------------------------------------------------------------------
(* The POSTs, as they start. *)

Start(p, t, work) ==
    /\ post[p] = Idle /\ posts < MaxPosts
    /\ posts' = posts + 1
    /\ post' = [post EXCEPT ![p] = work]
    /\ disturbed' = IF InFlight(t) THEN disturbed \cup {t} ELSE disturbed
    /\ UNCHANGED <<clock, user, notes, histories, troubles>>

\* cleanupExpired, the first thing a send does: expired challenges, then the windows nothing
\* refers to and that are long over.
CleanupExpired ==
    LET old == clock - Retention
        kept == {i \in Ids : challenges[i] # None /\ challenges[i].expires >= old}
        used == {challenges[i].account : i \in kept} \cup IF kept = {} THEN {} ELSE {Address}
        over(w) == w # None /\ w.anchor < old - Window /\ w.last < old IN
    /\ challenges' = [i \in Ids |-> IF i \in kept THEN challenges[i] ELSE None]
    /\ windows' = [a \in DOMAIN windows |->
                       IF over(windows[a]) /\ a \notin used THEN None ELSE windows[a]]

\* What a send works with: the reference it follows, the one it asks for, and whom it mails.
Sending(t, e, ref, next) ==
    [pc |-> "reserve", tab |-> t, email |-> e, ref |-> ref, next |-> next,
     account |-> AccountOf(e),
     user |-> IF Deliverable(e) = {} THEN None ELSE CHOOSE u \in Deliverable(e) : TRUE]

\* A repeated request does nothing; the first one draws a challenge.
Request(p, t, e) ==
    /\ notes[t] = None
    /\ Ids \ drawn # {}
    /\ LET i == CHOOSE x \in Ids \ drawn : TRUE IN
       /\ drawn' = drawn \cup {i}
       /\ Start(p, t, Sending(t, e, None, [id |-> i, gen |-> 1]))
    /\ CleanupExpired

Resend(p, t) ==
    /\ notes[t] # None
    /\ LET n == notes[t] IN
       /\ n.ref.gen + 1 \in Generations
       /\ Start(p, t, Sending(t, n.email, n.ref, [n.ref EXCEPT !.gen = @ + 1]))
    /\ CleanupExpired
    /\ UNCHANGED drawn

Verify(p, t, right) ==
    /\ notes[t] # None
    /\ right => notes[t].ref \in mails
    /\ LET n == notes[t] IN
       Start(p, t, [pc |-> "verify", tab |-> t, email |-> n.email, ref |-> n.ref,
                    account |-> AccountOf(n.email), right |-> right])
    /\ UNCHANGED <<store, drawn>>

\* intent=change-email, and a request with an address that is not one: both forget the notes.
ChangeEmail(t) ==
    /\ notes[t] # None
    /\ notes' = [notes EXCEPT ![t] = None]
    /\ disturbed' = IF InFlight(t) THEN disturbed \cup {t} ELSE disturbed \ {t}
    /\ UNCHANGED <<clock, user, store, drawn, post, histories, troubles, posts>>

----------------------------------------------------------------------------
(* The steps of a send. *)

\* Mutant of Current: a new window forgets the last send.
Current_forgetsSend(a) ==
    LET w == IF windows[a] = None THEN [anchor |-> 0, attempts |-> 0, sends |-> 0, last |-> 0]
             ELSE windows[a] IN
    IF clock < w.anchor + Window THEN w
    ELSE [anchor |-> clock, attempts |-> 0, sends |-> 0, last |-> 0]

\* A window as lockWindow and resetWindow leave it.
Current(a) ==
    LET w == IF windows[a] = None THEN [anchor |-> 0, attempts |-> 0, sends |-> 0, last |-> 0]
             ELSE windows[a] IN
    IF clock < w.anchor + Window THEN w
    ELSE [w EXCEPT !.anchor = clock, !.attempts = 0, !.sends = 0]

\* A resend follows the generation its row is at, for the account the row was opened for.
Follows(h) ==
    h.ref # None =>
        /\ Row(h.ref) # None
        /\ LET c == Row(h.ref) IN
           /\ c.tab = h.tab /\ c.email = h.email /\ c.account = h.account
           /\ c.state # "CONSUMED" /\ c.gen = h.ref.gen

WithinBudget(h) ==
    /\ Current(h.account).attempts < MaxAttempts
    /\ Current(h.account).sends < MaxSends
    /\ Current(Address).sends < MaxAddressSends
    /\ clock >= Current(h.account).last + Wait

Admitted(h) == Follows(h) /\ WithinBudget(h)

\* Mutant of Fallback: the tab is shown the generation it asked for.
Fallback_asked(h) == h.next

\* What the tab is shown when nothing was reserved: the code it had, else one that is not there.
Fallback(h) == IF h.ref # None THEN h.ref ELSE [id |-> Unknown, gen |-> 1]

Show(p, ref) == post' = [post EXCEPT ![p].pc = "remember", ![p].next = ref]

ReserveRow(h) ==
    /\ challenges' = [challenges EXCEPT ![h.next.id] =
           [tab |-> h.tab, email |-> h.email, account |-> h.account, user |-> h.user,
            gen |-> h.next.gen, expires |-> clock + Life, state |-> "PENDING"]]
    /\ windows' = [windows EXCEPT
           ![h.account] = [Current(h.account) EXCEPT !.sends = @ + 1, !.last = clock],
           ![Address] = [Current(Address) EXCEPT !.sends = @ + 1]]

\* The answer of the commit arrives, or is lost: then nothing is mailed or shown.
Reserve(p) ==
    /\ post[p].pc = "reserve"
    /\ LET h == post[p] IN
       IF Admitted(h)
       THEN /\ ReserveRow(h)
            /\ \/ /\ IF h.user = None THEN Show(p, h.next)
                                      ELSE post' = [post EXCEPT ![p].pc = "mail"]
                  /\ UNCHANGED <<disturbed, troubles>>
               \/ /\ troubles < MaxTroubles /\ troubles' = troubles + 1
                  /\ Show(p, Fallback(h))
                  /\ disturbed' = disturbed \cup {h.tab}
       ELSE /\ windows' = [windows EXCEPT ![h.account] = Current(h.account),
                                           ![Address] = Current(Address)]
            /\ Show(p, Fallback(h))
            /\ UNCHANGED <<challenges, disturbed, troubles>>
    /\ UNCHANGED <<clock, user, notes, drawn, histories, posts>>

\* The store could not be reached before the commit.
Unavailable(p) ==
    /\ post[p].pc = "reserve"
    /\ troubles < MaxTroubles /\ troubles' = troubles + 1
    /\ Show(p, Fallback(post[p]))
    /\ UNCHANGED <<clock, user, notes, store, drawn, histories, disturbed, posts>>

\* The mail goes out if the user still has the address; a failed delivery shows the new
\* generation, which stays pending, though the mail may have arrived.
Mail(p) ==
    /\ post[p].pc = "mail"
    /\ LET h == post[p]
           addressed == h.user \in Deliverable(h.email) IN
       \/ /\ addressed
          /\ mails' = mails \cup {h.next}
          /\ post' = [post EXCEPT ![p].pc = "activate"]
          /\ UNCHANGED troubles
       \/ /\ ~addressed
          /\ Show(p, h.next)
          /\ UNCHANGED <<mails, troubles>>
       \/ /\ addressed /\ troubles < MaxTroubles /\ troubles' = troubles + 1
          /\ mails' \in {mails, mails \cup {h.next}}
          /\ Show(p, h.next)
    /\ UNCHANGED <<clock, user, notes, store, drawn, uses, compared, disturbed, posts>>

Activatable(ref) ==
    /\ Row(ref) # None
    /\ Row(ref).gen = ref.gen /\ Row(ref).state = "PENDING" /\ clock < Row(ref).expires

\* The reconciliation after a lost answer only reads; whatever it says, the tab shows the new
\* generation.
Activate(p) ==
    /\ post[p].pc = "activate"
    /\ LET ref == post[p].next IN
       /\ \/ /\ Activatable(ref)
             /\ challenges' = [challenges EXCEPT ![ref.id].state = "ACTIVE"]
             /\ UNCHANGED troubles
          \/ ~Activatable(ref) /\ UNCHANGED <<challenges, troubles>>
          \/ /\ Activatable(ref) /\ troubles < MaxTroubles /\ troubles' = troubles + 1
             /\ UNCHANGED challenges
       /\ Show(p, ref)
    /\ UNCHANGED <<clock, user, notes, windows, drawn, histories, disturbed, posts>>

Remember(p) ==
    /\ post[p].pc = "remember"
    /\ notes' = [notes EXCEPT ![post[p].tab] = [email |-> post[p].email, ref |-> post[p].next]]
    /\ post' = [post EXCEPT ![p] = Idle]
    /\ UNCHANGED <<clock, user, store, drawn, histories, disturbed, troubles, posts>>

----------------------------------------------------------------------------
(* The steps of a verification. *)

Live(c, ref) == c.gen = ref.gen /\ c.state = "ACTIVE" /\ clock < c.expires

\* The digest is keyed by the account too: a code typed for another account does not match.
Matches(c, h) == c.user # None /\ h.right /\ c.account = h.account

\* Mutant of Attempted: the count of the attempt is not written.
Attempted_uncounted(a) == Current(a)

Attempted(a) == [Current(a) EXCEPT !.attempts = @ + 1]

\* An attempt is counted before anything is compared; a matching code is consumed.  If the
\* answer of the commit is lost the code is consumed and the POST fails.
Check(p) ==
    /\ post[p].pc = "verify"
    /\ LET h == post[p]
           c == Row(h.ref)
           found == c # None /\ c.tab = h.tab /\ c.email = h.email /\ windows[c.account] # None
           allowed == found /\ Current(c.account).attempts < MaxAttempts
           good == allowed /\ Live(c, h.ref) /\ Matches(c, h) IN
       /\ windows' = IF ~found THEN windows
                     ELSE [windows EXCEPT ![c.account] = IF allowed THEN Attempted(c.account)
                                                         ELSE Current(c.account)]
       /\ challenges' = IF good THEN [challenges EXCEPT ![h.ref.id].state = "CONSUMED"]
                        ELSE challenges
       /\ \/ /\ post' = [post EXCEPT ![p] =
                             IF good THEN [pc |-> "accept", tab |-> h.tab, email |-> h.email,
                                           user |-> c.user]
                             ELSE Idle]
             /\ compared' = IF allowed /\ Live(c, h.ref)
                            THEN [compared EXCEPT ![h.ref.id][h.ref.gen] = @ + 1] ELSE compared
             /\ uses' = IF good THEN [uses EXCEPT ![h.ref.id] = @ + 1] ELSE uses
             /\ UNCHANGED troubles
          \/ /\ good /\ troubles < MaxTroubles /\ troubles' = troubles + 1
             /\ post' = [post EXCEPT ![p] = Idle]
             /\ UNCHANGED <<compared, uses>>
    /\ UNCHANGED <<clock, user, notes, drawn, mails, disturbed, posts>>

\* The user the code was for must still be enabled and have the address: the reset goes on.
Accept(p) ==
    /\ post[p].pc = "accept"
    /\ notes' = IF post[p].user \in Deliverable(post[p].email)
                THEN [notes EXCEPT ![post[p].tab] = None] ELSE notes
    /\ post' = [post EXCEPT ![p] = Idle]
    /\ UNCHANGED <<clock, user, store, drawn, histories, disturbed, troubles, posts>>

\* The node serving a POST stops, or the store cannot be reached for a verification.
Crash(p) ==
    /\ post[p] # Idle
    /\ troubles < MaxTroubles /\ troubles' = troubles + 1
    /\ post' = [post EXCEPT ![p] = Idle]
    /\ disturbed' = disturbed \cup {post[p].tab}
    /\ UNCHANGED <<clock, user, notes, store, drawn, histories, posts>>

----------------------------------------------------------------------------
Serve(p) ==
    \/ Reserve(p) \/ Unavailable(p) \/ Mail(p) \/ Activate(p) \/ Remember(p)
    \/ Check(p) \/ Accept(p) \/ Crash(p)

Submit(t) ==
    \/ \E p \in Posts, e \in Emails : Request(p, t, e)
    \/ \E p \in Posts : Resend(p, t) \/ \E right \in BOOLEAN : Verify(p, t, right)
    \/ ChangeEmail(t)

Next ==
    \/ Tick
    \/ \E u \in Users : ChangeUser(u)
    \/ \E t \in Tabs : Submit(t)
    \/ \E p \in Posts : Serve(p)

Spec == Init /\ [][Next]_vars

----------------------------------------------------------------------------
\* The code of i may be accepted now, or be activated and then accepted.
Usable(i) ==
    challenges[i] # None /\ challenges[i].state # "CONSUMED" /\ clock < challenges[i].expires

\* At most one code of an account can be accepted, or be activated and then accepted, whatever
\* tabs asked for one: the wait between sends is as long as a code lives and survives the reset
\* of the budget window, a resend replaces the code it follows, and a decoy's challenge is never
\* handed on to the user who takes the address.
OneLiveCode ==
    \A a \in Accounts :
        Cardinality({i \in Ids : Usable(i) /\ challenges[i].account = a}) <= 1

\* A challenge is accepted once, in whatever order verifications, resends and lost answers
\* come; and a live code is compared within the attempts of two budget windows, all that its
\* life can touch.
CodeIsSpent ==
    \A i \in Ids :
        /\ uses[i] <= 1
        /\ \A g \in Generations : compared[i][g] <= 2 * MaxAttempts

\* A tab whose POSTs came one after the other and were all answered shows the generation its
\* challenge is at, so that the code mailed last can be typed and resent; refused sends, failed
\* deliveries and failed activations included.
TabFollowsRow ==
    \A t \in Tabs \ disturbed :
        (~InFlight(t) /\ notes[t] # None /\ Row(notes[t].ref) # None) =>
            /\ Row(notes[t].ref).gen = notes[t].ref.gen
            /\ Row(notes[t].ref).tab = t /\ Row(notes[t].ref).email = notes[t].email

References == [id : Ids \cup {Unknown}, gen : Generations]

\* The shape of the state.
TypeOK ==
    /\ clock \in Window .. LastTick
    /\ \A t \in Tabs : notes[t] = None \/ notes[t] \in [email : Emails, ref : References]
    /\ \A i \in Ids : challenges[i] = None \/ challenges[i] \in
           [tab : Tabs, email : Emails, account : Accounts, user : Users \cup {None},
            gen : Generations, expires : Nat, state : {"PENDING", "ACTIVE", "CONSUMED"}]
    /\ \A a \in DOMAIN windows : windows[a] = None \/
           /\ windows[a].anchor <= clock /\ windows[a].last <= clock
           /\ windows[a].attempts \in 0 .. MaxAttempts
           /\ windows[a].sends \in 0 .. (MaxSends + MaxAddressSends)
    /\ \A p \in Posts : post[p].pc \in
           {"idle", "reserve", "mail", "activate", "remember", "verify", "accept"}
    /\ mails \subseteq References /\ drawn \subseteq Ids /\ disturbed \subseteq Tabs

----------------------------------------------------------------------------
\* The codes of the challenges, as OneTimeCodes sees them.
Codes == INSTANCE OneTimeCodes WITH
    state <- [i \in Ids |-> IF Usable(i) THEN challenges[i].state ELSE "closed"],
    owner <- [i \in Ids |-> IF Usable(i) THEN challenges[i].account ELSE None]

\* Whatever tabs, resends, lost answers and administrators do, the store deals in one-time codes:
\* a code is issued when no other code of its account can be accepted any more, is accepted after
\* it was mailed and activated, and is closed by that; a challenge that was accepted issues no
\* other.  The wait between sends must survive the reset of a window for that, and a resend must
\* not revive what was consumed.
ImplementsCodes == Codes!Spec
=============================================================================
