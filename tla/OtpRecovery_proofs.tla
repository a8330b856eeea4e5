------------------------- MODULE OtpRecovery_proofs -------------------------
(***************************************************************************)
(* Proofs about the password reset, for any number of tabs, POSTs, users   *)
(* and budgets, and for any life of a code within a window.                *)
(*                                                                         *)
(* That an account has one live code rests on what a window remembers when *)
(* it begins anew: no challenge of an account lives longer than its last   *)
(* send and a wait, and as the wait is as long as a life, every challenge  *)
(* has expired when the next one is reserved.  The clean-up must not drop  *)
(* the window of a challenge it keeps.                                     *)
(*                                                                         *)
(* The second part follows a challenge from the drawing of its id (Known), *)
(* the third counts comparisons and acceptances (Spent).  Together they    *)
(* show that the store implements OneTimeCodes, step by step.  The last    *)
(* part compares what a tab shows with its row (Followed).                 *)
(***************************************************************************)
EXTENDS OtpRecovery, FiniteSetTheorems, TLAPS

Reference == [id : Ids \cup {Unknown}, gen : Int]
Sends == [pc : {"reserve", "mail", "activate", "remember"}, tab : Tabs, email : Emails,
          ref : Reference \cup {None}, next : Reference, account : Accounts,
          user : Users \cup {None}]
Verifications == [pc : {"verify"}, tab : Tabs, email : Emails, ref : Reference,
                  account : Accounts, right : BOOLEAN]
Acceptances == [pc : {"accept"}, tab : Tabs, email : Emails, user : Users \cup {None}]
Works == [pc : {"idle"}] \cup Sends \cup Verifications \cup Acceptances

Types ==
    /\ clock \in Int
    /\ notes \in [Tabs -> [email : Emails, ref : Reference] \cup {None}]
    /\ windows \in [Accounts \cup {Address} -> Budget \cup {None}]
    /\ challenges \in [Ids -> Challenge \cup {None}]
    /\ post \in [Posts -> Works]

\* No challenge outlives the last send of its account by more than a life.
Covered ==
    \A i \in Ids : challenges[i] # None =>
        /\ windows[challenges[i].account] # None
        /\ challenges[i].expires <= windows[challenges[i].account].last + Life

Single ==
    \A i, j \in Ids :
        Usable(i) /\ Usable(j) /\ challenges[i].account = challenges[j].account => i = j

Inv == Types /\ Covered /\ Single

----------------------------------------------------------------------------
LEMMA InitInv == Init => Inv
<1> SUFFICES ASSUME Init PROVE Inv
  OBVIOUS
<1>1. clock \in Int /\ post \in [Posts -> Works]
  BY OtpAssumption DEF Init, Works, Idle
<1>2. /\ notes \in [Tabs -> [email : Emails, ref : Reference] \cup {None}]
      /\ windows \in [Accounts \cup {Address} -> Budget \cup {None}]
      /\ challenges \in [Ids -> Challenge \cup {None}]
  BY DEF Init
<1>3. \A i \in Ids : challenges[i] = None
  BY DEF Init
<1> QED
  BY <1>1, <1>2, <1>3 DEF Inv, Types, Covered, Single, Usable

LEMMA AccountsOfEmails == ASSUME NEW e \in Emails PROVE AccountOf(e) \in Accounts
  BY DEF AccountOf, Owner, Accounts

\* A window that begins anew remembers the last send.
LEMMA CurrentKeepsLast ==
    ASSUME Types, NEW a \in Accounts \cup {Address}
    PROVE  /\ Current(a) \in Budget
           /\ windows[a] # None => Current(a).last = windows[a].last
<1> DEFINE w == IF windows[a] = None
                THEN [anchor |-> 0, attempts |-> 0, sends |-> 0, last |-> 0] ELSE windows[a]
           anew == [w EXCEPT !.anchor = clock, !.attempts = 0, !.sends = 0]
<1>1. w \in Budget
  BY DEF Types, Budget
<1>2. anew \in Budget /\ anew.last = w.last
  <2>1. PICK y \in Int : y = clock
    BY DEF Types
  <2>2. PICK z \in Int : z = 0
    OBVIOUS
  <2>3. PICK v \in Budget : v = w
    BY <1>1
  <2>4. [v EXCEPT !.anchor = y, !.attempts = z, !.sends = z] \in Budget
    BY DEF Budget
  <2>5. [v EXCEPT !.anchor = y, !.attempts = z, !.sends = z].last = v.last
    BY DEF Budget
  <2> HIDE DEF w
  <2> QED
    BY <2>1, <2>2, <2>3, <2>4, <2>5
<1>3. Current(a) \in {w, anew}
  BY DEF Current
<1> QED
  BY <1>1, <1>2, <1>3

\* A send is written into a window.
LEMMA SentBudget ==
    ASSUME NEW w \in Budget, clock \in Int
    PROVE  /\ [w EXCEPT !.sends = @ + 1] \in Budget
           /\ [w EXCEPT !.sends = @ + 1, !.last = clock] \in Budget
           /\ [w EXCEPT !.sends = @ + 1, !.last = clock].last = clock
<1>1. PICK x \in Int : x = w.sends + 1
  BY DEF Budget
<1>2. PICK y \in Int : y = clock
  OBVIOUS
<1>3. /\ [w EXCEPT !.sends = x] \in Budget
      /\ [w EXCEPT !.sends = x, !.last = y] \in Budget
      /\ [w EXCEPT !.sends = x, !.last = y].last = y
  BY DEF Budget
<1> QED
  BY <1>1, <1>2, <1>3

\* A send of e that starts.
LEMMA SendingType ==
    ASSUME NEW t \in Tabs, NEW e \in Emails, NEW ref \in Reference \cup {None},
           NEW next \in Reference
    PROVE  Sending(t, e, ref, next) \in Works
<1>1. AccountOf(e) \in Accounts
  BY AccountsOfEmails
<1>2. Deliverable(e) # {} => (CHOOSE u \in Deliverable(e) : TRUE) \in Users
  BY DEF Deliverable, Owner
<1> QED
  BY <1>1, <1>2 DEF Sending, Works, Sends

\* The clean-up keeps the windows of the challenges it keeps, and changes neither.
LEMMA CleanupInv ==
    ASSUME Inv, CleanupExpired, clock' = clock
    PROVE  /\ challenges' \in [Ids -> Challenge \cup {None}]
           /\ windows' \in [Accounts \cup {Address} -> Budget \cup {None}]
           /\ Covered' /\ Single'
<1> DEFINE kept == {i \in Ids : challenges[i] # None
                                  /\ challenges[i].expires >= clock - Retention}
<1>1. challenges' = [i \in Ids |-> IF i \in kept THEN challenges[i] ELSE None]
  BY DEF CleanupExpired
<1>2. \A a \in Accounts \cup {Address} : windows'[a] \in {windows[a], None}
  BY DEF CleanupExpired, Inv, Types
<1>3. \A i \in kept : windows'[challenges[i].account] = windows[challenges[i].account]
  BY DEF CleanupExpired, Inv, Types, Challenge
<1>4. challenges' \in [Ids -> Challenge \cup {None}]
  BY <1>1 DEF Inv, Types
<1>5. windows' \in [Accounts \cup {Address} -> Budget \cup {None}]
  BY DEF CleanupExpired, Inv, Types
<1>6. Covered'
  BY <1>1, <1>3 DEF Covered, Inv
<1>7. Single'
  BY <1>1 DEF Single, Usable, Inv
<1> QED
  BY <1>4, <1>5, <1>6, <1>7

\* Steps that leave the tables alone.
LEMMA SameStore ==
    ASSUME Inv, UNCHANGED store, clock' \in Int, clock <= clock'
    PROVE  Covered' /\ Single'
  BY DEF Inv, Types, Covered, Single, Usable, store, Challenge

----------------------------------------------------------------------------
LEMMA RequestInv ==
    ASSUME Inv, NEW p \in Posts, NEW t \in Tabs, NEW e \in Emails, Request(p, t, e)
    PROVE  Inv'
<1>1. PICK i \in Ids : Start(p, t, Sending(t, e, None, [id |-> i, gen |-> 1]))
  BY DEF Request
<1>2. [id |-> i, gen |-> 1] \in Reference
  BY DEF Reference
<1>3. Sending(t, e, None, [id |-> i, gen |-> 1]) \in Works
  BY <1>2, SendingType
<1>4. clock' = clock /\ notes' = notes /\ post' \in [Posts -> Works]
  BY <1>1, <1>3 DEF Start, Inv, Types
<1>5. CleanupExpired
  BY DEF Request
<1> QED
  BY <1>4, <1>5, CleanupInv DEF Inv, Types

LEMMA ResendInv ==
    ASSUME Inv, NEW p \in Posts, NEW t \in Tabs, Resend(p, t)
    PROVE  Inv'
<1> DEFINE n == notes[t]
           next == [n.ref EXCEPT !.gen = @ + 1]
<1>1. n \in [email : Emails, ref : Reference]
  BY DEF Resend, Inv, Types
<1>2. next \in Reference
  BY <1>1 DEF Reference
<1>3. Sending(t, n.email, n.ref, next) \in Works
  BY <1>1, <1>2, SendingType
<1>4. Start(p, t, Sending(t, n.email, n.ref, next)) /\ CleanupExpired
  BY DEF Resend
<1>5. clock' = clock /\ notes' = notes /\ post' \in [Posts -> Works]
  BY <1>3, <1>4 DEF Start, Inv, Types
<1> QED
  BY <1>4, <1>5, CleanupInv DEF Inv, Types

LEMMA VerifyInv ==
    ASSUME Inv, NEW p \in Posts, NEW t \in Tabs, NEW right \in BOOLEAN, Verify(p, t, right)
    PROVE  Inv'
<1> DEFINE n == notes[t]
           work == [pc |-> "verify", tab |-> t, email |-> n.email, ref |-> n.ref,
                    account |-> AccountOf(n.email), right |-> right]
<1>1. n \in [email : Emails, ref : Reference]
  BY DEF Verify, Inv, Types
<1>2. work \in Works
  BY <1>1, AccountsOfEmails DEF Works, Verifications
<1>3. Start(p, t, work) /\ UNCHANGED store
  BY DEF Verify
<1>4. clock' = clock /\ notes' = notes /\ post' \in [Posts -> Works]
  BY <1>2, <1>3 DEF Start, Inv, Types
<1>5. Covered' /\ Single'
  BY <1>3, <1>4, SameStore DEF Inv, Types
<1> QED
  BY <1>3, <1>4, <1>5 DEF Inv, Types, store

LEMMA ShowType ==
    ASSUME Types, NEW p \in Posts, post[p].pc \in {"reserve", "mail", "activate"},
           NEW ref \in Reference, Show(p, ref)
    PROVE  post' \in [Posts -> Works]
<1>1. post[p] \in Sends
  BY DEF Types, Works, Verifications, Acceptances
<1>2. [post[p] EXCEPT !.pc = "remember", !.next = ref] \in Sends
  BY <1>1 DEF Sends
<1>3. post' = [post EXCEPT ![p] = [post[p] EXCEPT !.pc = "remember", !.next = ref]]
  BY DEF Show
<1> QED
  BY <1>2, <1>3 DEF Types, Works

\* When a send is admitted, every challenge of its account has expired.
LEMMA Outlived ==
    ASSUME Inv, NEW h \in Sends, Admitted(h), NEW i \in Ids,
           challenges[i] # None, challenges[i].account = h.account
    PROVE  challenges[i].expires <= clock
<1> DEFINE a == h.account
<1>1. windows[a] # None /\ challenges[i].expires <= windows[a].last + Life
  BY DEF Inv, Covered
<1>2. Current(a) \in Budget /\ Current(a).last = windows[a].last
  BY <1>1, CurrentKeepsLast DEF Inv, Sends
<1>3. clock >= Current(a).last + Life
  BY DEF Admitted, WithinBudget, Wait
<1>4. challenges[i].expires \in Int /\ Current(a).last \in Int /\ clock \in Int /\ Life \in Int
  BY <1>2, OtpAssumption DEF Inv, Types, Challenge, Budget
<1> QED
  BY <1>1, <1>2, <1>3, <1>4

LEMMA ReserveInv == ASSUME Inv, NEW p \in Posts, Reserve(p) PROVE Inv'
<1> DEFINE h == post[p]
<1>1. h \in Sends
  BY DEF Reserve, Inv, Types, Works, Verifications, Acceptances
<1>2. h.account \in Accounts /\ h.next \in Reference /\ h.ref \in Reference \cup {None}
  BY <1>1 DEF Sends
<1>3. Current(h.account) \in Budget /\ Current(Address) \in Budget
  BY <1>2, CurrentKeepsLast DEF Inv
<1>4. post' \in [Posts -> Works]
  <2>1. Fallback(h) \in Reference
    BY <1>2 DEF Fallback, Reference
  <2>2. [h EXCEPT !.pc = "mail"] \in Sends
    BY <1>1 DEF Sends
  <2>3. CASE Show(p, h.next) \/ Show(p, Fallback(h))
    BY <1>2, <2>1, <2>3, ShowType DEF Reserve, Inv
  <2>4. CASE post' = [post EXCEPT ![p].pc = "mail"]
    BY <2>2, <2>4 DEF Inv, Types, Works
  <2> QED
    BY <2>3, <2>4 DEF Reserve
<1>5. clock' = clock /\ notes' = notes
  BY DEF Reserve
<1>6. CASE Admitted(h)
  <2> DEFINE a == h.account
             row == [tab |-> h.tab, email |-> h.email, account |-> a, user |-> h.user,
                     gen |-> h.next.gen, expires |-> clock + Life, state |-> "PENDING"]
             own == [Current(a) EXCEPT !.sends = @ + 1, !.last = clock]
             all == [Current(Address) EXCEPT !.sends = @ + 1]
  <2>1. /\ challenges' = [challenges EXCEPT ![h.next.id] = row]
        /\ windows' = [windows EXCEPT ![a] = own, ![Address] = all]
    BY <1>6 DEF Reserve, ReserveRow
  <2>2. row \in Challenge
    BY <1>1, OtpAssumption DEF Sends, Reference, Challenge, Inv, Types
  <2>3. own \in Budget /\ all \in Budget /\ own.last = clock
    BY <1>3, SentBudget DEF Inv, Types
  <2>4. challenges' \in [Ids -> Challenge \cup {None}]
    BY <2>1, <2>2 DEF Inv, Types
  <2>5. windows' \in [Accounts \cup {Address} -> Budget \cup {None}]
    BY <2>1, <2>3 DEF Inv, Types
  <2>6. /\ windows'[a] = own
        /\ \A b \in Accounts \ {a} : windows'[b] = windows[b]
    BY <1>2, <2>1, BudgetAssumption DEF Inv, Types
  <2>7. \A i \in Ids : challenges[i] # None /\ challenges[i].account = a
                        => challenges[i].expires <= clock
    BY <1>1, <1>6, Outlived
  <2>8. Covered'
    <3> SUFFICES ASSUME NEW i \in Ids, challenges'[i] # None
                 PROVE  /\ windows'[challenges'[i].account] # None
                        /\ challenges'[i].expires <= windows'[challenges'[i].account].last + Life
      BY DEF Covered
    <3>1. CASE i = h.next.id
      <4>1. challenges'[i].account = a /\ challenges'[i].expires = clock + Life
        BY <2>1, <3>1 DEF Inv, Types
      <4>2. windows'[a] # None /\ windows'[a].last = clock
        BY <2>3, <2>6, BudgetAssumption
      <4> QED
        BY <4>1, <4>2, OtpAssumption DEF Inv, Types
    <3>2. CASE i # h.next.id
      <4>1. challenges'[i] = challenges[i] /\ challenges[i] \in Challenge
        BY <2>1, <3>2 DEF Inv, Types
      <4>2. CASE challenges[i].account = a
        <5>1. challenges[i].expires <= clock /\ challenges[i].expires \in Int
          BY <2>7, <4>1, <4>2 DEF Challenge
        <5>2. windows'[a] # None /\ windows'[a].last = clock
          BY <2>3, <2>6, BudgetAssumption
        <5> QED
          BY <4>1, <4>2, <5>1, <5>2, OtpAssumption DEF Inv, Types
      <4>3. CASE challenges[i].account # a
        BY <2>6, <4>1, <4>3 DEF Inv, Covered, Challenge
      <4> QED
        BY <4>2, <4>3
    <3> QED
      BY <3>1, <3>2
  <2>9. Single'
    <3> SUFFICES ASSUME NEW i \in Ids, NEW j \in Ids, Usable(i)', Usable(j)',
                        challenges'[i].account = challenges'[j].account, i # j
                 PROVE  FALSE
      BY DEF Single
    <3>1. \A k \in Ids \ {h.next.id} : challenges'[k] = challenges[k]
      BY <2>1 DEF Inv, Types
    <3>2. \A k \in Ids \ {h.next.id} : Usable(k)' => Usable(k) /\ challenges[k].account # a
      BY <1>5, <2>7, <3>1 DEF Usable, Inv, Types, Challenge
    <3>3. CASE i # h.next.id /\ j # h.next.id
      BY <3>1, <3>2, <3>3 DEF Inv, Single
    <3>4. \A k \in Ids : k = h.next.id => challenges'[k].account = a
      BY <2>1 DEF Inv, Types
    <3> QED
      BY <3>1, <3>2, <3>3, <3>4
  <2> QED
    BY <1>4, <1>5, <2>4, <2>5, <2>8, <2>9 DEF Inv, Types
<1>7. CASE ~Admitted(h)
  <2>1. /\ challenges' = challenges
        /\ windows' = [windows EXCEPT ![h.account] = Current(h.account),
                                      ![Address] = Current(Address)]
    BY <1>7 DEF Reserve
  <2>2. windows' \in [Accounts \cup {Address} -> Budget \cup {None}]
    BY <1>3, <2>1 DEF Inv, Types
  <2>3. \A b \in Accounts : windows[b] # None =>
            windows'[b] # None /\ windows'[b].last = windows[b].last
    BY <1>2, <1>3, <2>1, CurrentKeepsLast, BudgetAssumption DEF Inv, Types
  <2>4. Covered'
    BY <2>1, <2>3 DEF Inv, Types, Covered, Challenge
  <2>5. Single'
    BY <1>5, <2>1 DEF Inv, Single, Usable
  <2> QED
    BY <1>4, <1>5, <2>1, <2>2, <2>4, <2>5 DEF Inv, Types
<1> QED
  BY <1>6, <1>7

LEMMA CheckInv == ASSUME Inv, NEW p \in Posts, Check(p) PROVE Inv'
<1> DEFINE h == post[p]
           c == Row(h.ref)
           a == c.account
           found == c # None /\ c.tab = h.tab /\ c.email = h.email /\ windows[a] # None
<1>1. h \in Verifications
  BY DEF Check, Inv, Types, Works, Sends, Acceptances
<1>2. c # None => c \in Challenge /\ a \in Accounts
  BY DEF Row, Inv, Types, Challenge
<1>3. clock' = clock /\ notes' = notes
  BY DEF Check
<1>4. post' \in [Posts -> Works]
  <2>1. CASE post' = [post EXCEPT ![p] = Idle]
    BY <2>1 DEF Inv, Types, Works, Idle
  <2>2. CASE /\ c # None
             /\ post' = [post EXCEPT ![p] = [pc |-> "accept", tab |-> h.tab,
                                             email |-> h.email, user |-> c.user]]
    <3>1. [pc |-> "accept", tab |-> h.tab, email |-> h.email, user |-> c.user] \in Works
      BY <1>1, <1>2, <2>2 DEF Verifications, Challenge, Works, Acceptances
    <3> QED
      BY <2>2, <3>1 DEF Inv, Types
  <2> QED
    BY <2>1, <2>2 DEF Check
<1>5. \/ windows' = windows
      \/ /\ c # None
         /\ \E w \in {Current(a), Attempted(a)} : windows' = [windows EXCEPT ![a] = w]
  BY DEF Check
<1>6. ASSUME c # None
      PROVE  \A w \in {Current(a), Attempted(a)} :
                 w \in Budget /\ (windows[a] # None => w.last = windows[a].last)
  <2>1. Current(a) \in Budget /\ (windows[a] # None => Current(a).last = windows[a].last)
    BY <1>2, <1>6, CurrentKeepsLast DEF Inv
  <2>2. Attempted(a) \in Budget /\ Attempted(a).last = Current(a).last
    BY <2>1 DEF Attempted, Budget
  <2> QED
    BY <2>1, <2>2
<1>7. windows' \in [Accounts \cup {Address} -> Budget \cup {None}]
  BY <1>2, <1>5, <1>6 DEF Inv, Types
<1>8. \A b \in Accounts : windows[b] # None =>
          windows'[b] # None /\ windows'[b].last = windows[b].last
  BY <1>2, <1>5, <1>6, BudgetAssumption DEF Inv, Types
<1>9. \/ challenges' = challenges
      \/ c # None /\ challenges' = [challenges EXCEPT ![h.ref.id].state = "CONSUMED"]
  BY DEF Check
<1>10. /\ challenges' \in [Ids -> Challenge \cup {None}]
       /\ \A i \in Ids : \/ challenges'[i] = challenges[i]
                         \/ /\ challenges[i] # None
                            /\ challenges'[i] = [challenges[i] EXCEPT !.state = "CONSUMED"]
  <2>1. CASE challenges' = challenges
    BY <2>1 DEF Inv, Types
  <2>2. CASE c # None /\ challenges' = [challenges EXCEPT ![h.ref.id].state = "CONSUMED"]
    <3>1. h.ref.id \in Ids => challenges[h.ref.id] \in Challenge /\ challenges[h.ref.id] # None
      BY <1>2, <2>2 DEF Row
    <3>2. h.ref.id \in Ids => [challenges[h.ref.id] EXCEPT !.state = "CONSUMED"] \in Challenge
      BY <3>1 DEF Challenge
    <3>3. challenges' = [challenges EXCEPT ![h.ref.id] =
                             [challenges[h.ref.id] EXCEPT !.state = "CONSUMED"]]
      BY <2>2
    <3> QED
      BY <3>1, <3>2, <3>3 DEF Inv, Types
  <2> QED
    BY <1>9, <2>1, <2>2
<1>11. \A i \in Ids : challenges'[i] # None =>
          /\ challenges[i] # None
          /\ challenges'[i].account = challenges[i].account
          /\ challenges'[i].expires = challenges[i].expires
          /\ challenges'[i].state \in {challenges[i].state, "CONSUMED"}
  BY <1>10 DEF Inv, Types, Challenge
<1>12. Covered'
  BY <1>8, <1>10, <1>11 DEF Inv, Types, Covered, Challenge
<1>13. Single'
  BY <1>3, <1>11 DEF Inv, Single, Usable
<1> QED
  BY <1>3, <1>4, <1>7, <1>10, <1>12, <1>13 DEF Inv, Types

LEMMA ActivateInv == ASSUME Inv, NEW p \in Posts, Activate(p) PROVE Inv'
<1> DEFINE ref == post[p].next
<1>1. post[p] \in Sends
  BY DEF Activate, Inv, Types, Works, Verifications, Acceptances
<1>2. ref \in Reference
  BY <1>1 DEF Sends
<1>3. post' \in [Posts -> Works]
  BY <1>2, ShowType DEF Activate, Inv
<1>4. clock' = clock /\ notes' = notes /\ windows' = windows
  BY DEF Activate
<1>5. CASE challenges' = challenges
  BY <1>3, <1>4, <1>5, SameStore DEF Inv, Types, store
<1>6. CASE Activatable(ref) /\ challenges' = [challenges EXCEPT ![ref.id].state = "ACTIVE"]
  <2> DEFINE old == challenges[ref.id]
             new == [old EXCEPT !.state = "ACTIVE"]
  <2>1. ref.id \in Ids /\ old # None /\ old \in Challenge /\ old.state = "PENDING"
    BY <1>6 DEF Activatable, Row, Inv, Types
  <2>2. new \in Challenge /\ new.account = old.account /\ new.expires = old.expires
    BY <2>1 DEF Challenge
  <2>3. challenges' = [challenges EXCEPT ![ref.id] = new]
    BY <1>6
  <2>4. /\ challenges' \in [Ids -> Challenge \cup {None}]
        /\ \A i \in Ids : challenges'[i] = IF i = ref.id THEN new ELSE challenges[i]
    BY <2>1, <2>2, <2>3 DEF Inv, Types
  <2>5. \A i \in Ids : Usable(i)' => Usable(i) /\ challenges'[i].account = challenges[i].account
    BY <1>4, <2>1, <2>2, <2>4 DEF Usable
  <2>6. Covered' /\ Single'
    BY <1>4, <2>1, <2>2, <2>4, <2>5 DEF Inv, Covered, Single
  <2> QED
    BY <1>3, <1>4, <2>4, <2>6 DEF Inv, Types
<1> QED
  BY <1>5, <1>6 DEF Activate

LEMMA SendStepInv ==
    ASSUME Inv, NEW p \in Posts, Unavailable(p) \/ Mail(p) \/ Remember(p)
    PROVE  Inv'
<1>1. post[p] \in Sends
  BY DEF Unavailable, Mail, Remember, Inv, Types, Works, Verifications, Acceptances
<1>2. post[p].next \in Reference /\ Fallback(post[p]) \in Reference
  BY <1>1 DEF Sends, Fallback, Reference
<1>3. clock' = clock /\ UNCHANGED store
  BY DEF Unavailable, Mail, Remember, store
<1>4. post' \in [Posts -> Works]
  <2>1. CASE Unavailable(p) \/ (Mail(p) /\ Show(p, post[p].next))
    BY <1>2, <2>1, ShowType DEF Unavailable, Mail, Inv
  <2>2. CASE post' = [post EXCEPT ![p].pc = "activate"]
    <3>1. [post[p] EXCEPT !.pc = "activate"] \in Sends
      BY <1>1 DEF Sends
    <3> QED
      BY <2>2, <3>1 DEF Inv, Types, Works
  <2>3. CASE Remember(p)
    BY <2>3 DEF Remember, Inv, Types, Works, Idle
  <2> QED
    BY <2>1, <2>2, <2>3 DEF Mail
<1>5. notes' \in [Tabs -> [email : Emails, ref : Reference] \cup {None}]
  BY <1>1, <1>2 DEF Unavailable, Mail, Remember, Inv, Types, Sends
<1>6. Covered' /\ Single'
  BY <1>3, SameStore DEF Inv, Types
<1> QED
  BY <1>3, <1>4, <1>5, <1>6 DEF Inv, Types, store

\* The steps that change no table and start nothing.
LEMMA OtherInv ==
    ASSUME Inv,
           \/ Tick
           \/ \E u \in Users : ChangeUser(u)
           \/ \E t \in Tabs : ChangeEmail(t)
           \/ \E p \in Posts : Accept(p) \/ Crash(p)
           \/ UNCHANGED vars
    PROVE  Inv'
<1>1. UNCHANGED store /\ clock' \in Int /\ clock <= clock'
  BY DEF Tick, ChangeUser, ChangeEmail, Accept, Crash, vars, store, Inv, Types
<1>2. notes' \in [Tabs -> [email : Emails, ref : Reference] \cup {None}]
  BY DEF Tick, ChangeUser, ChangeEmail, Accept, Crash, vars, Inv, Types
<1>3. post' \in [Posts -> Works]
  BY DEF Tick, ChangeUser, ChangeEmail, Accept, Crash, vars, Inv, Types, Works, Idle
<1>4. Covered' /\ Single'
  BY <1>1, SameStore
<1> QED
  BY <1>1, <1>2, <1>3, <1>4 DEF Inv, Types, store

LEMMA NextInv == Inv /\ [Next]_vars => Inv'
<1> SUFFICES ASSUME Inv, [Next]_vars PROVE Inv'
  OBVIOUS
<1>1. CASE \E t \in Tabs : \E p \in Posts, e \in Emails : Request(p, t, e)
  BY <1>1, RequestInv
<1>2. CASE \E t \in Tabs, p \in Posts : Resend(p, t)
  BY <1>2, ResendInv
<1>3. CASE \E t \in Tabs, p \in Posts, right \in BOOLEAN : Verify(p, t, right)
  BY <1>3, VerifyInv
<1>4. CASE \E p \in Posts : Reserve(p)
  BY <1>4, ReserveInv
<1>5. CASE \E p \in Posts : Unavailable(p) \/ Mail(p) \/ Remember(p)
  BY <1>5, SendStepInv
<1>6. CASE \E p \in Posts : Activate(p)
  BY <1>6, ActivateInv
<1>7. CASE \E p \in Posts : Check(p)
  BY <1>7, CheckInv
<1>8. CASE \/ Tick
           \/ \E u \in Users : ChangeUser(u)
           \/ \E t \in Tabs : ChangeEmail(t)
           \/ \E p \in Posts : Accept(p) \/ Crash(p)
           \/ UNCHANGED vars
  BY <1>8, OtherInv
<1> QED
  BY <1>1, <1>2, <1>3, <1>4, <1>5, <1>6, <1>7, <1>8 DEF Next, Submit, Serve

----------------------------------------------------------------------------
\* The tables, the notes and the POSTs keep their shapes, and a challenge outlives the last
\* send its window remembers by a life at most (reserve, resetWindow, cleanupExpired).
THEOREM Invariance == Spec => []Inv
  BY InitInv, NextInv, PTL DEF Spec

LEMMA InvOneLiveCode == Inv => OneLiveCode
<1> SUFFICES ASSUME Inv, NEW a \in Accounts
             PROVE  Cardinality({i \in Ids : Usable(i) /\ challenges[i].account = a}) <= 1
  BY DEF OneLiveCode
<1> DEFINE live == {i \in Ids : Usable(i) /\ challenges[i].account = a}
<1>1. \A i, j \in live : i = j
  BY DEF Inv, Single
<1>2. CASE live = {}
  BY <1>2, FS_EmptySet
<1>3. CASE live # {}
  <2>1. PICK i \in live : TRUE
    BY <1>3
  <2>2. live = {i}
    BY <1>1, <2>1
  <2>3. Cardinality({i}) = 1
    BY FS_Singleton
  <2> QED
    BY <2>2, <2>3
<1> QED
  BY <1>2, <1>3

\* At most one code of an account can be accepted, or be activated and then accepted, whatever
\* tabs asked for one and whenever a budget window began anew (reserve, verify).
THEOREM OneCode == Spec => []OneLiveCode
  BY Invariance, InvOneLiveCode, PTL

----------------------------------------------------------------------------
(* What a code may do to its challenge and a tab.  Ids are drawn once, and until the first send *)
(* of a challenge reserves its row nobody but that send knows of it; a later send replaces the  *)
(* row of its own tab only.                                                                     *)

Mailing == {"reserve", "mail", "activate", "remember"}

\* The first send of a challenge, which is about to open its row.
Opening(p) == post[p].pc = "reserve" /\ post[p].ref = None

\* The request p, or a tab, refers to challenge i.
Names(p, i) ==
    \/ /\ post[p].pc \in Mailing
       /\ post[p].next.id = i \/ (post[p].ref # None /\ post[p].ref.id = i)
    \/ post[p].pc = "verify" /\ post[p].ref.id = i
Noted(i) == \E t \in Tabs : notes[t] # None /\ notes[t].ref.id = i

Untouched(i) ==
    /\ challenges[i] = None /\ ~Noted(i)
    /\ uses[i] = 0 /\ \A g \in Generations : compared[i][g] = 0

Fresh ==
    /\ \A i \in Ids \ drawn : Untouched(i) /\ \A q \in Posts : ~Names(q, i)
    /\ \A p \in Posts : Opening(p) => post[p].next.id \in Ids
    /\ \A p \in Posts, i \in Ids : Opening(p) /\ post[p].next.id = i =>
           Untouched(i) /\ \A q \in Posts \ {p} : ~Names(q, i)

\* A resend asks for the generation after the one it follows.
Sequels ==
    \A p \in Posts : post[p].pc = "reserve" /\ post[p].ref # None =>
        post[p].next.id = post[p].ref.id /\ post[p].next.gen = post[p].ref.gen + 1

Histories == uses \in [Ids -> Nat] /\ compared \in [Ids -> [Generations -> Nat]]

Known == Inv /\ Histories /\ Fresh /\ Sequels

----------------------------------------------------------------------------
LEMMA PostShape ==
    ASSUME Inv, NEW p \in Posts
    PROVE  /\ post[p] = Idle <=> post[p].pc = "idle"
           /\ post[p].pc \in Mailing => post[p] \in Sends
           /\ post[p].pc = "verify" => post[p] \in Verifications
           /\ post[p].pc = "accept" => post[p] \in Acceptances
           /\ post[p].pc \in Mailing \cup {"idle", "verify", "accept"}
<1>1. post[p] \in Works
  BY DEF Inv, Types
<1> QED
  BY <1>1 DEF Works, Sends, Verifications, Acceptances, Idle, Mailing

\* The request p goes on, starts or ends, and refers to nothing that nobody referred to.
Moved(p) ==
    /\ \A q \in Posts \ {p} : post'[q] = post[q]
    /\ \A i \in Ids : Names(p, i)' => Names(p, i) \/ Noted(i)
    /\ ~Opening(p)'
    /\ post'[p].pc = "reserve" =>
           /\ post'[p].next.id = post'[p].ref.id
           /\ post'[p].next.gen = post'[p].ref.gen + 1

\* A challenge that p, now that its row was reserved, may have made known.
Spread(i) == \E q \in Posts : Names(q, i) /\ ~Opening(q)'

LEMMA FreshCarried ==
    ASSUME Known, drawn' = drawn, post' = post \/ \E p \in Posts : Moved(p),
           \A i \in Ids : challenges[i] = None =>
               /\ uses'[i] = uses[i] /\ compared'[i] = compared[i]
               /\ challenges'[i] = None \/ Spread(i),
           \A i \in Ids : Noted(i)' => Noted(i) \/ Spread(i)
    PROVE  Fresh' /\ Sequels'
<1>1. \A q \in Posts : Opening(q)' => Opening(q) /\ post'[q] = post[q]
  BY DEF Moved, Opening
<1>2. \A q \in Posts, i \in Ids : Names(q, i)' => Names(q, i) \/ Noted(i)
  BY DEF Moved, Names
<1>3. Sequels'
  <2> SUFFICES ASSUME NEW q \in Posts, post'[q].pc = "reserve", post'[q].ref # None
               PROVE  /\ post'[q].next.id = post'[q].ref.id
                      /\ post'[q].next.gen = post'[q].ref.gen + 1
    BY DEF Sequels
  <2>1. CASE post'[q] = post[q]
    BY <2>1 DEF Known, Sequels
  <2> QED
    BY <2>1 DEF Moved
<1>4. ASSUME NEW i \in Ids, Untouched(i), ~Spread(i)
      PROVE  Untouched(i)'
  BY <1>4 DEF Untouched
<1>5. ASSUME NEW i \in Ids \ drawn
      PROVE  Untouched(i)' /\ \A q \in Posts : ~Names(q, i)'
  BY <1>2, <1>4 DEF Known, Fresh, Spread, Untouched
<1>6. ASSUME NEW p \in Posts, Opening(p)'
      PROVE  post'[p].next.id \in Ids
  BY <1>1, <1>6 DEF Known, Fresh
<1>7. ASSUME NEW p \in Posts, NEW i \in Ids, Opening(p)', post'[p].next.id = i
      PROVE  Untouched(i)' /\ \A q \in Posts \ {p} : ~Names(q, i)'
  <2>1. Opening(p) /\ post[p].next.id = i
    BY <1>1, <1>7
  <2>2. Untouched(i) /\ \A q \in Posts \ {p} : ~Names(q, i)
    BY <2>1 DEF Known, Fresh
  <2>3. ~Spread(i)
    BY <1>7, <2>2 DEF Spread
  <2> QED
    BY <1>2, <1>4, <2>2, <2>3 DEF Untouched
<1>8. Fresh'
  BY <1>5, <1>6, <1>7 DEF Fresh
<1> QED
  BY <1>3, <1>8

----------------------------------------------------------------------------
\* How a request goes on.

LEMMA ShownMoves ==
    ASSUME Inv, NEW p \in Posts, post[p].pc \in {"reserve", "mail", "activate"},
           NEW ref \in {post[p].next, Fallback(post[p])}, Show(p, ref)
    PROVE  /\ Moved(p) /\ post'[p].pc = "remember" /\ post'[p].next = ref
           /\ post'[p].tab = post[p].tab /\ post'[p].email = post[p].email
<1>1. post[p] \in Sends
  BY PostShape DEF Mailing
<1>2. PICK x : x = [post[p] EXCEPT !.pc = "remember", !.next = ref]
  OBVIOUS
<1>3. /\ x.pc = "remember" /\ x.next = ref /\ x.ref = post[p].ref
      /\ x.tab = post[p].tab /\ x.email = post[p].email
  BY <1>1, <1>2 DEF Sends
<1>4. post' = [post EXCEPT ![p] = x]
  BY <1>2 DEF Show
<1>5. post'[p] = x /\ \A q \in Posts \ {p} : post'[q] = post[q]
  BY <1>4 DEF Inv, Types
<1>6. \A i \in Ids : Names(p, i)' => Names(p, i)
  <2>1. ref = post[p].next \/ (post[p].ref # None /\ ref = post[p].ref) \/ ref.id = Unknown
    BY DEF Fallback
  <2> QED
    BY <1>3, <1>5, <2>1, OtpAssumption DEF Names, Mailing
<1> QED
  BY <1>3, <1>5, <1>6 DEF Moved, Opening

LEMMA AdvancedMoves ==
    ASSUME Inv, NEW p \in Posts, post[p].pc \in Mailing, NEW c \in {"mail", "activate"},
           post' = [post EXCEPT ![p].pc = c]
    PROVE  /\ Moved(p) /\ post'[p].pc = c /\ post'[p].next = post[p].next
           /\ post'[p].tab = post[p].tab /\ post'[p].email = post[p].email
<1>1. post[p] \in Sends
  BY PostShape
<1>2. PICK x : x = [post[p] EXCEPT !.pc = c]
  OBVIOUS
<1>3. /\ x.pc = c /\ x.next = post[p].next /\ x.ref = post[p].ref
      /\ x.tab = post[p].tab /\ x.email = post[p].email
  BY <1>1, <1>2 DEF Sends
<1>4. post'[p] = x /\ \A q \in Posts \ {p} : post'[q] = post[q]
  BY <1>2 DEF Inv, Types
<1> QED
  BY <1>3, <1>4 DEF Moved, Opening, Names, Mailing

LEMMA IdleMoves ==
    ASSUME Inv, NEW p \in Posts, post' = [post EXCEPT ![p] = Idle]
    PROVE  Moved(p) /\ post'[p].pc = "idle"
<1>1. post'[p] = Idle /\ \A q \in Posts \ {p} : post'[q] = post[q]
  BY DEF Inv, Types
<1> QED
  BY <1>1 DEF Moved, Opening, Names, Mailing, Idle

\* A resend, or a verification, starts from the notes of its tab.
LEMMA StartMoves ==
    ASSUME Inv, NEW p \in Posts, NEW t \in Tabs,
           Resend(p, t) \/ \E right \in BOOLEAN : Verify(p, t, right)
    PROVE  /\ Moved(p) /\ post[p] = Idle /\ notes[t] # None
           /\ post'[p].tab = t /\ post'[p].email = notes[t].email
           /\ post'[p].pc \in {"reserve", "verify"} /\ post'[p].ref = notes[t].ref
           /\ disturbed' = IF InFlight(t) THEN disturbed \cup {t} ELSE disturbed
           /\ UNCHANGED <<clock, notes, drawn, histories>>
<1> DEFINE n == notes[t]
<1>1. /\ n # None /\ n \in [email : Emails, ref : Reference]
      /\ n.ref # None /\ n.ref \in Reference
  BY BudgetAssumption DEF Resend, Verify, Inv, Types, Reference
<1> HIDE DEF n
<1>2. CASE Resend(p, t)
  <2>1. PICK next : next = [n.ref EXCEPT !.gen = @ + 1]
    OBVIOUS
  <2>2. next.id = n.ref.id /\ next.gen = n.ref.gen + 1
    BY <1>1, <2>1 DEF Reference
  <2>3. PICK x : x = Sending(t, n.email, n.ref, next)
    OBVIOUS
  <2>4. /\ x.pc = "reserve" /\ x.tab = t /\ x.email = n.email /\ x.ref = n.ref /\ x.next = next
    BY <2>3 DEF Sending
  <2>5. Start(p, t, x) /\ UNCHANGED drawn
    BY <1>2, <2>1, <2>3 DEF Resend, n
  <2>6. post'[p] = x /\ \A q \in Posts \ {p} : post'[q] = post[q]
    BY <2>5 DEF Start, Inv, Types
  <2>7. Moved(p)
    BY <1>1, <2>2, <2>4, <2>6 DEF Moved, Opening, Names, Noted, Mailing, n
  <2> QED
    BY <1>1, <2>4, <2>5, <2>6, <2>7 DEF Start, n
<1>3. ASSUME NEW right \in BOOLEAN, Verify(p, t, right)
      PROVE  /\ Moved(p) /\ post[p] = Idle /\ n # None
             /\ post'[p].tab = t /\ post'[p].email = n.email
             /\ post'[p].pc \in {"reserve", "verify"} /\ post'[p].ref = n.ref
             /\ disturbed' = IF InFlight(t) THEN disturbed \cup {t} ELSE disturbed
             /\ UNCHANGED <<clock, notes, drawn, histories>>
  <2>1. PICK x : x = [pc |-> "verify", tab |-> t, email |-> n.email, ref |-> n.ref,
                      account |-> AccountOf(n.email), right |-> right]
    OBVIOUS
  <2>2. Start(p, t, x) /\ UNCHANGED drawn
    BY <1>3, <2>1 DEF Verify, n
  <2>3. post'[p] = x /\ \A q \in Posts \ {p} : post'[q] = post[q]
    BY <2>2 DEF Start, Inv, Types
  <2>4. /\ x.pc = "verify" /\ x.tab = t /\ x.email = n.email /\ x.ref = n.ref
    BY <2>1
  <2>5. Moved(p)
    BY <1>1, <2>3, <2>4 DEF Moved, Opening, Names, Noted, Mailing, n
  <2> QED
    BY <1>1, <2>2, <2>3, <2>4, <2>5 DEF Start
<1> QED
  BY <1>2, <1>3 DEF n

\* The clean-up forgets challenges, and keeps the others and their windows.
LEMMA CleanupEffect ==
    ASSUME Inv, CleanupExpired
    PROVE  /\ \A i \in Ids : \/ challenges'[i] = None
                              \/ /\ challenges'[i] = challenges[i]
                                 /\ windows'[challenges[i].account] = windows[challenges[i].account]
           /\ \A a \in Accounts \cup {Address} : windows'[a] \in {windows[a], None}
<1> DEFINE kept == {i \in Ids : challenges[i] # None
                                  /\ challenges[i].expires >= clock - Retention}
<1>1. challenges' = [i \in Ids |-> IF i \in kept THEN challenges[i] ELSE None]
  BY DEF CleanupExpired
<1>2. \A a \in Accounts \cup {Address} : windows'[a] \in {windows[a], None}
  BY DEF CleanupExpired, Inv, Types
<1>3. \A i \in kept : windows'[challenges[i].account] = windows[challenges[i].account]
  BY DEF CleanupExpired, Inv, Types, Challenge
<1> QED
  BY <1>1, <1>2, <1>3

\* The first request of a tab draws a challenge.
LEMMA RequestEffect ==
    ASSUME Inv, NEW p \in Posts, NEW t \in Tabs, NEW e \in Emails, Request(p, t, e)
    PROVE  \E i \in Ids \ drawn :
               /\ drawn' = drawn \cup {i}
               /\ post[p] = Idle /\ notes[t] = None
               /\ post'[p].pc = "reserve" /\ post'[p].tab = t /\ post'[p].ref = None
               /\ post'[p].next.id = i
               /\ \A q \in Posts \ {p} : post'[q] = post[q]
               /\ disturbed' = IF InFlight(t) THEN disturbed \cup {t} ELSE disturbed
               /\ UNCHANGED <<clock, notes, histories>> /\ CleanupExpired
<1>1. PICK i \in Ids \ drawn :
          /\ drawn' = drawn \cup {i}
          /\ Start(p, t, Sending(t, e, None, [id |-> i, gen |-> 1]))
  BY DEF Request
<1>2. PICK x : x = Sending(t, e, None, [id |-> i, gen |-> 1])
  OBVIOUS
<1>3. x.pc = "reserve" /\ x.tab = t /\ x.ref = None /\ x.next.id = i
  BY <1>2 DEF Sending
<1>4. post'[p] = x /\ \A q \in Posts \ {p} : post'[q] = post[q]
  BY <1>1, <1>2 DEF Start, Inv, Types
<1> QED
  BY <1>1, <1>3, <1>4 DEF Request, Start

LEMMA RequestFresh ==
    ASSUME Known, NEW p \in Posts, NEW t \in Tabs, NEW e \in Emails, Request(p, t, e)
    PROVE  Histories' /\ Fresh' /\ Sequels'
<1>1. PICK i \in Ids \ drawn :
          /\ drawn' = drawn \cup {i}
          /\ post[p] = Idle /\ notes[t] = None
          /\ post'[p].pc = "reserve" /\ post'[p].tab = t /\ post'[p].ref = None
          /\ post'[p].next.id = i
          /\ \A q \in Posts \ {p} : post'[q] = post[q]
          /\ UNCHANGED <<clock, notes, histories>> /\ CleanupExpired
  BY RequestEffect DEF Known
<1>2. \A j \in Ids : Untouched(j) => Untouched(j)'
  BY <1>1, CleanupEffect DEF Untouched, Noted, histories, Known
<1>3. Untouched(i) /\ \A q \in Posts : ~Names(q, i)
  BY DEF Known, Fresh
<1>4. /\ \A q \in Posts \ {p}, j \in Ids : Names(q, j)' <=> Names(q, j)
      /\ \A j \in Ids : Names(p, j)' => j = i
      /\ \A q \in Posts \ {p} : Opening(q)' => Opening(q)
  BY <1>1 DEF Names, Opening, Mailing
<1>5. ASSUME NEW j \in Ids \ drawn' PROVE Untouched(j)' /\ \A q \in Posts : ~Names(q, j)'
  <2>1. j \in Ids \ drawn /\ j # i
    BY <1>1
  <2> QED
    BY <1>2, <1>4, <2>1 DEF Known, Fresh
<1>6. ASSUME NEW q \in Posts, Opening(q)'
      PROVE  post'[q].next.id \in Ids
  BY <1>1, <1>4, <1>6 DEF Known, Fresh
<1>7. ASSUME NEW q \in Posts, NEW j \in Ids, Opening(q)', post'[q].next.id = j
      PROVE  Untouched(j)' /\ \A r \in Posts \ {q} : ~Names(r, j)'
  <2>1. CASE q = p
    BY <1>1, <1>2, <1>3, <1>4, <1>7, <2>1
  <2>2. CASE q # p
    <3>1. Opening(q) /\ post[q].next.id = j
      BY <1>1, <1>4, <1>7, <2>2
    <3>2. Untouched(j) /\ \A r \in Posts \ {q} : ~Names(r, j)
      BY <3>1 DEF Known, Fresh
    <3>3. j # i
      BY <1>3, <3>1 DEF Names, Opening, Mailing
    <3> QED
      BY <1>2, <1>4, <3>2, <3>3
  <2> QED
    BY <2>1, <2>2
<1>8. Fresh'
  BY <1>5, <1>6, <1>7 DEF Fresh
<1>9. Sequels'
  BY <1>1 DEF Sequels, Known
<1> QED
  BY <1>1, <1>8, <1>9 DEF Histories, Known, histories

\* A comparison is counted.
LEMMA Counted ==
    ASSUME compared \in [Ids -> [Generations -> Nat]], NEW i \in Ids, NEW g,
           compared' = [compared EXCEPT ![i][g] = @ + 1]
    PROVE  /\ compared' \in [Ids -> [Generations -> Nat]]
           /\ \A j \in Ids \ {i} : compared'[j] = compared[j]
           /\ \A x \in Generations :
                  compared'[i][x] = IF x = g THEN compared[i][x] + 1 ELSE compared[i][x]
<1>1. PICK h \in [Generations -> Nat] : h = compared[i]
  OBVIOUS
<1>2. PICK f : f = [h EXCEPT ![g] = @ + 1]
  OBVIOUS
<1>3. \A x \in Generations : f[x] = IF x = g THEN h[x] + 1 ELSE h[x]
  BY <1>2
<1>4. f \in [Generations -> Nat]
  <2>1. PICK y : y = h[g] + 1
    OBVIOUS
  <2>2. f = [h EXCEPT ![g] = y]
    BY <1>2, <2>1
  <2>3. CASE g \in Generations
    <3>1. y \in Nat
      BY <2>1, <2>3
    <3> QED
      BY <2>2, <3>1
  <2>4. CASE g \notin Generations
    BY <2>2, <2>4
  <2> QED
    BY <2>3, <2>4
<1>5. compared' = [compared EXCEPT ![i] = f]
  BY <1>1, <1>2
<1> QED
  BY <1>1, <1>3, <1>4, <1>5

----------------------------------------------------------------------------
\* The row of i stays, but for its state.
SameRow(i) ==
    /\ challenges[i] # None
    /\ challenges'[i].gen = challenges[i].gen /\ challenges'[i].tab = challenges[i].tab
    /\ challenges'[i].email = challenges[i].email
    /\ challenges'[i].account = challenges[i].account
    /\ challenges'[i].expires = challenges[i].expires

\* A send activates a challenge that is pending; a verification may consume one, once, that is
\* active.
Activated(i) ==
    SameRow(i) /\ challenges[i].state = "PENDING" /\ challenges'[i].state = "ACTIVE"
Consumed(i) ==
    /\ SameRow(i) /\ clock < challenges[i].expires
    /\ challenges[i].state = "ACTIVE" /\ challenges'[i].state = "CONSUMED"

\* A comparison of the code of generation g of i, paid for by account a.
ComparedOnce(i, g, a) ==
    /\ challenges[i] # None /\ challenges[i].account = a /\ challenges[i].gen = g
    /\ clock < challenges[i].expires
    /\ compared'[i][g] = compared[i][g] + 1

\* A verification pays an attempt of a budget that has one left, before it compares.
Paid(a) ==
    /\ windows[a] # None /\ Current(a).attempts < MaxAttempts
    /\ windows' = [windows EXCEPT ![a] = Attempted(a)]
    /\ \A i \in Ids, g \in Generations :
           compared'[i][g] = compared[i][g] \/ ComparedOnce(i, g, a)

LEMMA CheckMoves ==
    ASSUME Inv, NEW p \in Posts, Check(p)
    PROVE  /\ Moved(p) /\ post'[p].pc \in {"idle", "accept"}
           /\ post'[p].pc = "accept" => post'[p].tab = post[p].tab
           /\ UNCHANGED <<clock, notes, drawn, disturbed>>
<1>1. post'[p].pc \in {"idle", "accept"} /\ (post'[p].pc = "accept" => post'[p].tab = post[p].tab)
  BY DEF Check, Inv, Types, Idle
<1>2. \A q \in Posts \ {p} : post'[q] = post[q]
  BY DEF Check, Inv, Types
<1> QED
  BY <1>1, <1>2 DEF Check, Moved, Opening, Names, Mailing

LEMMA CheckEffect ==
    ASSUME Known, NEW p \in Posts, Check(p)
    PROVE  /\ Histories'
           /\ \A i \in Ids :
                  \/ challenges'[i] = challenges[i] /\ uses'[i] = uses[i]
                  \/ Consumed(i) /\ uses'[i] \in {uses[i], uses[i] + 1}
           /\ \/ UNCHANGED <<challenges, uses>>
              \/ \E i \in Ids : /\ Consumed(i) /\ uses' \in {uses, [uses EXCEPT ![i] = @ + 1]}
                               /\ \A j \in Ids \ {i} : challenges'[j] = challenges[j]
           /\ \/ windows' = windows /\ compared' = compared
              \/ \E a \in Accounts :
                     /\ windows[a] # None /\ compared' = compared
                     /\ windows' = [windows EXCEPT ![a] = Current(a)]
              \/ \E a \in Accounts : Paid(a)
           /\ \A i \in Ids : challenges[i] = None => compared'[i] = compared[i]
<1> DEFINE h == post[p]
           r == h.ref
           c == Row(h.ref)
           a == c.account
           found == c # None /\ c.tab = h.tab /\ c.email = h.email /\ windows[c.account] # None
           allowed == found /\ Current(c.account).attempts < MaxAttempts
           good == allowed /\ Live(c, h.ref) /\ Matches(c, h)
<1>1. r \in Reference
  BY DEF Check, Known, Inv, Types, Works, Sends, Verifications, Acceptances
<1>2. found => c # None /\ r.id \in Ids /\ c = challenges[r.id] /\ c \in Challenge /\ a \in Accounts
  BY DEF Row, Known, Inv, Types, Challenge
<1>3. /\ windows' = IF ~found THEN windows
                    ELSE [windows EXCEPT ![a] = IF allowed THEN Attempted(a) ELSE Current(a)]
      /\ challenges' = IF good THEN [challenges EXCEPT ![r.id].state = "CONSUMED"] ELSE challenges
      /\ \/ /\ compared' = IF allowed /\ Live(c, r)
                           THEN [compared EXCEPT ![r.id][r.gen] = @ + 1] ELSE compared
            /\ uses' = IF good THEN [uses EXCEPT ![r.id] = @ + 1] ELSE uses
         \/ compared' = compared /\ good /\ uses' = uses
  BY DEF Check
<1>4. good => allowed /\ Live(c, r)
  OBVIOUS
<1>5. allowed => found /\ Current(a).attempts < MaxAttempts
  OBVIOUS
<1>6. found => windows[a] # None
  OBVIOUS
<1> HIDE DEF found, allowed, good, c
<1>7. /\ compared' \in [Ids -> [Generations -> Nat]]
      /\ compared' # compared => allowed
      /\ \A i \in Ids, g \in Generations : compared'[i][g] = compared[i][g] \/ ComparedOnce(i, g, a)
      /\ \A i \in Ids : challenges[i] = None => compared'[i] = compared[i]
  <2>1. CASE compared' = compared
    BY <2>1 DEF Known, Histories
  <2>2. CASE allowed /\ Live(c, r) /\ compared' = [compared EXCEPT ![r.id][r.gen] = @ + 1]
    <3>1. /\ c # None /\ r.id \in Ids /\ c = challenges[r.id]
          /\ c.gen = r.gen /\ clock < c.expires
      BY <1>2, <1>5, <2>2 DEF Live
    <3>2. /\ compared' \in [Ids -> [Generations -> Nat]]
          /\ \A j \in Ids \ {r.id} : compared'[j] = compared[j]
          /\ \A x \in Generations : compared'[r.id][x] =
                 IF x = r.gen THEN compared[r.id][x] + 1 ELSE compared[r.id][x]
      BY <2>2, <3>1, Counted DEF Known, Histories
    <3>3. \A i \in Ids, g \in Generations :
              compared'[i][g] = compared[i][g] \/ ComparedOnce(i, g, a)
      BY <3>1, <3>2 DEF ComparedOnce
    <3> QED
      BY <2>2, <3>1, <3>2, <3>3
  <2> QED
    BY <1>3, <2>1, <2>2
<1>8. /\ \A i \in Ids : \/ challenges'[i] = challenges[i] /\ uses'[i] = uses[i]
                        \/ Consumed(i) /\ uses'[i] \in {uses[i], uses[i] + 1}
      /\ \/ UNCHANGED <<challenges, uses>>
         \/ \E i \in Ids : /\ Consumed(i) /\ uses' \in {uses, [uses EXCEPT ![i] = @ + 1]}
                          /\ \A j \in Ids \ {i} : challenges'[j] = challenges[j]
  <2>1. CASE good
    <3> DEFINE new == [challenges[r.id] EXCEPT !.state = "CONSUMED"]
    <3>1. /\ r.id \in Ids /\ c = challenges[r.id] /\ c # None /\ c \in Challenge
          /\ c.state = "ACTIVE" /\ clock < c.expires
      BY <1>2, <1>4, <1>5, <2>1 DEF Live
    <3>2. /\ new \in Challenge /\ new.state = "CONSUMED" /\ new.gen = c.gen /\ new.tab = c.tab
          /\ new.email = c.email /\ new.account = c.account /\ new.expires = c.expires
      BY <3>1 DEF Challenge
    <3> HIDE DEF new
    <3>3. challenges' = [challenges EXCEPT ![r.id] = new]
      BY <1>3, <2>1 DEF new
    <3>4. challenges'[r.id] = new /\ \A i \in Ids \ {r.id} : challenges'[i] = challenges[i]
      BY <3>1, <3>3 DEF Known, Inv, Types
    <3>5. Consumed(r.id)
      BY <3>1, <3>2, <3>4 DEF Consumed, SameRow
    <3>6. /\ uses' \in [Ids -> Nat] /\ uses'[r.id] \in {uses[r.id], uses[r.id] + 1}
          /\ \A i \in Ids \ {r.id} : uses'[i] = uses[i]
      <4>1. CASE uses' = uses
        BY <3>1, <4>1 DEF Known, Histories
      <4>2. CASE uses' = [uses EXCEPT ![r.id] = @ + 1]
        BY <3>1, <4>2 DEF Known, Histories
      <4> QED
        BY <1>3, <2>1, <4>1, <4>2
    <3>7. uses' \in {uses, [uses EXCEPT ![r.id] = @ + 1]}
      BY <1>3, <2>1
    <3> QED
      BY <3>1, <3>4, <3>5, <3>6, <3>7
  <2>2. CASE ~good
    BY <1>3, <2>2
  <2> QED
    BY <2>1, <2>2
<1>9. uses' \in [Ids -> Nat]
  <2>1. good => r.id \in Ids
    BY <1>2, <1>4, <1>5
  <2>2. CASE uses' = uses
    BY <2>2 DEF Known, Histories
  <2>3. CASE good /\ uses' = [uses EXCEPT ![r.id] = @ + 1]
    BY <2>1, <2>3 DEF Known, Histories
  <2> QED
    BY <1>3, <2>2, <2>3
<1>10. \/ windows' = windows /\ compared' = compared
       \/ \E b \in Accounts :
              /\ windows[b] # None /\ compared' = compared
              /\ windows' = [windows EXCEPT ![b] = Current(b)]
       \/ \E b \in Accounts : Paid(b)
  <2>1. CASE ~found
    BY <1>3, <1>5, <1>7, <2>1
  <2>2. CASE found /\ ~allowed
    BY <1>2, <1>3, <1>6, <1>7, <2>2
  <2>3. CASE allowed
    <3>1. a \in Accounts /\ windows' = [windows EXCEPT ![a] = Attempted(a)]
      BY <1>2, <1>3, <1>5, <2>3
    <3> QED
      BY <1>5, <1>6, <1>7, <2>3, <3>1 DEF Paid
  <2> QED
    BY <2>1, <2>2, <2>3
<1> QED
  BY <1>7, <1>8, <1>9, <1>10 DEF Histories

----------------------------------------------------------------------------
\* A send is served: it reserved its row, or its tab is shown what it had.
LEMMA ReserveEffect ==
    ASSUME Inv, NEW p \in Posts, Reserve(p)
    PROVE  /\ Moved(p) /\ post[p] \in Sends /\ post[p].pc = "reserve"
           /\ post'[p].pc \in {"mail", "remember"}
           /\ post'[p].tab = post[p].tab /\ post'[p].email = post[p].email
           /\ UNCHANGED <<clock, notes, drawn, histories>>
           /\ \/ /\ Admitted(post[p]) /\ ReserveRow(post[p])
                 /\ \/ post'[p].next = post[p].next /\ disturbed' = disturbed
                    \/ disturbed' = disturbed \cup {post[p].tab}
              \/ /\ UNCHANGED <<challenges, disturbed>>
                 /\ windows' = [windows EXCEPT ![post[p].account] = Current(post[p].account),
                                               ![Address] = Current(Address)]
                 /\ post'[p].pc = "remember" /\ post'[p].next = Fallback(post[p])
<1>1. post[p] \in Sends /\ post[p].pc = "reserve"
  BY PostShape DEF Reserve, Mailing
<1>2. /\ \/ Show(p, post[p].next) \/ Show(p, Fallback(post[p]))
         \/ post' = [post EXCEPT ![p].pc = "mail"]
      /\ UNCHANGED <<clock, notes, drawn, histories>>
  BY DEF Reserve
<1>3. ASSUME Show(p, post[p].next) \/ post' = [post EXCEPT ![p].pc = "mail"]
      PROVE  post'[p].next = post[p].next
  BY <1>1, <1>3, ShownMoves, AdvancedMoves DEF Mailing
<1>4. ASSUME Show(p, Fallback(post[p]))
      PROVE  post'[p].pc = "remember" /\ post'[p].next = Fallback(post[p])
  BY <1>1, <1>4, ShownMoves
<1>5. /\ Moved(p) /\ post'[p].pc \in {"mail", "remember"}
      /\ post'[p].tab = post[p].tab /\ post'[p].email = post[p].email
  BY <1>1, <1>2, ShownMoves, AdvancedMoves DEF Mailing
<1> QED
  BY <1>1, <1>2, <1>3, <1>4, <1>5 DEF Reserve

\* The row a send writes.
LEMMA ReservedRow ==
    ASSUME Inv, NEW h \in Sends, ReserveRow(h), clock' = clock
    PROVE  /\ \A i \in Ids \ {h.next.id} : challenges'[i] = challenges[i]
           /\ h.next.id \in Ids =>
                  LET c == challenges'[h.next.id] IN
                  /\ c.tab = h.tab /\ c.email = h.email /\ c.account = h.account
                  /\ c.gen = h.next.gen /\ c.expires = clock + Life /\ c.state = "PENDING"
                  /\ c # None
<1>1. PICK row : row = [tab |-> h.tab, email |-> h.email, account |-> h.account, user |-> h.user,
                        gen |-> h.next.gen, expires |-> clock + Life, state |-> "PENDING"]
  OBVIOUS
<1>2. challenges' = [challenges EXCEPT ![h.next.id] = row]
  BY <1>1 DEF ReserveRow
<1>3. /\ row.tab = h.tab /\ row.email = h.email /\ row.account = h.account
      /\ row.gen = h.next.gen /\ row.expires = clock + Life /\ row.state = "PENDING"
  BY <1>1
<1>4. row # None
  <2>1. row \in Challenge
    BY <1>1, OtpAssumption DEF Sends, Reference, Challenge, Inv, Types
  <2> QED
    BY <2>1, BudgetAssumption
<1> QED
  BY <1>2, <1>3, <1>4 DEF Inv, Types

\* The row a send replaces: none, if it opens the challenge, else the one its tab had.
LEMMA AdmittedRow ==
    ASSUME Known, NEW p \in Posts, post[p].pc = "reserve", Admitted(post[p])
    PROVE  /\ post[p].next.id \in Ids
           /\ \/ Opening(p)
              \/ LET c == challenges[post[p].next.id] IN
                 /\ c # None /\ c.tab = post[p].tab /\ c.email = post[p].email
                 /\ c.account = post[p].account /\ c.state # "CONSUMED"
                 /\ post[p].next.gen = c.gen + 1
<1>1. CASE post[p].ref = None
  BY <1>1 DEF Opening, Known, Fresh
<1>2. CASE post[p].ref # None
  BY <1>2 DEF Known, Sequels, Admitted, Follows, Row
<1> QED
  BY <1>1, <1>2

\* The requests that serve a send, without its reservation.
LEMMA SendEffect ==
    ASSUME Inv, NEW p \in Posts, Unavailable(p) \/ Mail(p) \/ Activate(p)
    PROVE  /\ Moved(p) /\ post[p] \in Sends
           /\ post'[p].tab = post[p].tab /\ post'[p].email = post[p].email
           /\ UNCHANGED <<clock, notes, windows, drawn, uses, compared, disturbed>>
           /\ \/ /\ post[p].pc = "reserve" /\ post'[p].pc = "remember"
                 /\ post'[p].next = Fallback(post[p])
              \/ /\ post[p].pc \in {"mail", "activate"}
                 /\ post'[p].pc \in {"activate", "remember"} /\ post'[p].next = post[p].next
           /\ \A i \in Ids : challenges'[i] = challenges[i] \/ Activated(i)
<1>1. post[p] \in Sends
  BY PostShape DEF Unavailable, Mail, Activate, Mailing
<1>2. UNCHANGED <<clock, notes, windows, drawn, uses, compared, disturbed>>
  BY DEF Unavailable, Mail, Activate, store, histories
<1>3. CASE Unavailable(p)
  BY <1>1, <1>2, <1>3, ShownMoves DEF Unavailable, store
<1>4. CASE Mail(p)
  <2>1. Show(p, post[p].next) \/ post' = [post EXCEPT ![p].pc = "activate"]
    BY <1>4 DEF Mail
  <2>2. post[p].pc = "mail" /\ challenges' = challenges
    BY <1>4 DEF Mail, store
  <2> QED
    BY <1>1, <1>2, <2>1, <2>2, ShownMoves, AdvancedMoves DEF Mailing
<1>5. CASE Activate(p)
  <2>1. Show(p, post[p].next) /\ post[p].pc = "activate"
    BY <1>5 DEF Activate
  <2>2. \/ challenges' = challenges
        \/ /\ Activatable(post[p].next)
           /\ challenges' = [challenges EXCEPT ![post[p].next.id].state = "ACTIVE"]
    BY <1>5 DEF Activate
  <2>3. \A i \in Ids : challenges'[i] = challenges[i] \/ Activated(i)
    BY <2>2 DEF Activatable, Row, Activated, SameRow, Inv, Types, Challenge
  <2> QED
    BY <1>1, <1>2, <2>1, <2>3, ShownMoves
<1> QED
  BY <1>3, <1>4, <1>5

LEMMA ReserveFresh ==
    ASSUME Known, NEW p \in Posts, Reserve(p)
    PROVE  Fresh' /\ Sequels'
<1>1. /\ Moved(p) /\ post[p].pc = "reserve" /\ UNCHANGED <<drawn, notes, uses, compared>>
      /\ post[p] \in Sends /\ clock' = clock
  BY ReserveEffect DEF Known, histories
<1>2. \A i \in Ids : challenges[i] = None => challenges'[i] = None \/ Spread(i)
  <2>1. Spread(post[p].next.id)
    BY <1>1 DEF Spread, Names, Mailing, Moved
  <2>2. CASE ReserveRow(post[p])
    BY <1>1, <2>1, <2>2, ReservedRow DEF Known
  <2>3. CASE challenges' = challenges
    BY <2>3
  <2> QED
    BY <2>2, <2>3, ReserveEffect DEF Known
<1> QED
  BY <1>1, <1>2, FreshCarried DEF Noted

LEMMA RememberFresh ==
    ASSUME Known, NEW p \in Posts, Remember(p)
    PROVE  Fresh' /\ Sequels'
<1>1. /\ Moved(p) /\ post[p].pc = "remember" /\ post[p] \in Sends
      /\ UNCHANGED <<drawn, challenges, uses, compared>>
  BY IdleMoves, PostShape DEF Remember, Known, histories, store, Mailing
<1>2. \A t \in Tabs : \/ notes'[t] = notes[t]
                       \/ notes'[t] = [email |-> post[p].email, ref |-> post[p].next]
  BY DEF Remember, Known, Inv, Types
<1>3. \A i \in Ids : Noted(i)' => Noted(i) \/ post[p].next.id = i
  BY <1>2 DEF Noted
<1>4. \A i \in Ids : post[p].next.id = i => Spread(i)
  BY <1>1 DEF Spread, Names, Mailing, Moved
<1> QED
  BY <1>1, <1>3, <1>4, FreshCarried

\* A challenge is drawn once, and known to nobody but the send that opens it until its row is
\* reserved.
LEMMA NextKnown == Known /\ [Next]_vars => Known'
<1> SUFFICES ASSUME Known, [Next]_vars PROVE Known'
  OBVIOUS
<1>1. Inv'
  BY NextInv DEF Known
<1>2. CASE \E t \in Tabs, p \in Posts, e \in Emails : Request(p, t, e)
  BY <1>1, <1>2, RequestFresh DEF Known
<1>3. CASE \E t \in Tabs, p \in Posts :
               Resend(p, t) \/ \E right \in BOOLEAN : Verify(p, t, right)
  <2>1. PICK t \in Tabs, p \in Posts : Resend(p, t) \/ \E right \in BOOLEAN : Verify(p, t, right)
    BY <1>3
  <2>2. Moved(p) /\ UNCHANGED <<notes, drawn, uses, compared>>
    BY <2>1, StartMoves DEF Known, histories
  <2>3. \A i \in Ids : challenges[i] = None => challenges'[i] = None
    BY <2>1, CleanupEffect DEF Resend, Verify, Known, store
  <2>4. Fresh' /\ Sequels'
    BY <2>2, <2>3, FreshCarried DEF Noted
  <2> QED
    BY <1>1, <2>2, <2>4 DEF Known, Histories
<1>4. CASE \E p \in Posts : Reserve(p)
  BY <1>1, <1>4, ReserveFresh, ReserveEffect DEF Known, Histories, histories
<1>5. CASE \E p \in Posts : Unavailable(p) \/ Mail(p) \/ Activate(p)
  <2>1. PICK p \in Posts : Unavailable(p) \/ Mail(p) \/ Activate(p)
    BY <1>5
  <2>2. /\ Moved(p) /\ UNCHANGED <<notes, drawn, uses, compared>>
        /\ \A i \in Ids : challenges[i] = None => challenges'[i] = None
    BY <2>1, SendEffect DEF Known, Activated, SameRow
  <2>3. Fresh' /\ Sequels'
    BY <2>2, FreshCarried DEF Noted
  <2> QED
    BY <1>1, <2>2, <2>3 DEF Known, Histories
<1>6. CASE \E p \in Posts : Remember(p)
  BY <1>1, <1>6, RememberFresh DEF Known, Histories, Remember, histories
<1>7. CASE \E p \in Posts : Check(p)
  <2>1. PICK p \in Posts : Check(p)
    BY <1>7
  <2>2. Moved(p) /\ notes' = notes /\ drawn' = drawn
    BY <2>1, CheckMoves DEF Known
  <2>3. /\ Histories'
        /\ \A i \in Ids : challenges[i] = None =>
               challenges'[i] = None /\ uses'[i] = uses[i] /\ compared'[i] = compared[i]
    BY <2>1, CheckEffect DEF Consumed, SameRow
  <2>4. Fresh' /\ Sequels'
    BY <2>2, <2>3, FreshCarried DEF Noted
  <2> QED
    BY <1>1, <2>3, <2>4 DEF Known
<1>8. CASE \/ Tick
           \/ \E u \in Users : ChangeUser(u)
           \/ \E t \in Tabs : ChangeEmail(t)
           \/ \E p \in Posts : Accept(p) \/ Crash(p)
           \/ UNCHANGED vars
  <2>1. post' = post \/ \E p \in Posts : Moved(p)
    BY <1>8, IdleMoves DEF Tick, ChangeUser, ChangeEmail, Accept, Crash, vars, Known
  <2>2. UNCHANGED <<drawn, challenges, uses, compared>>
    BY <1>8 DEF Tick, ChangeUser, ChangeEmail, Accept, Crash, vars, store, histories
  <2>3. \A t \in Tabs : notes'[t] = notes[t] \/ notes'[t] = None
    BY <1>8 DEF Tick, ChangeUser, ChangeEmail, Accept, Crash, vars, Known, Inv, Types
  <2>4. Fresh' /\ Sequels'
    BY <2>1, <2>2, <2>3, FreshCarried DEF Noted
  <2> QED
    BY <1>1, <2>2, <2>4 DEF Known, Histories
<1> QED
  BY <1>2, <1>3, <1>4, <1>5, <1>6, <1>7, <1>8 DEF Next, Submit, Serve

LEMMA InitKnown == Init => Known
<1> SUFFICES ASSUME Init PROVE Known
  OBVIOUS
<1>1. Inv /\ Histories
  BY InitInv DEF Init, Histories
<1>2. /\ \A p \in Posts : post[p].pc = "idle"
      /\ \A t \in Tabs : notes[t] = None
      /\ \A i \in Ids : /\ challenges[i] = None /\ uses[i] = 0
                        /\ \A g \in Generations : compared[i][g] = 0
  BY DEF Init, Idle
<1>3. Fresh /\ Sequels
  BY <1>2 DEF Fresh, Sequels, Opening, Names, Noted, Untouched, Mailing
<1> QED
  BY <1>1, <1>3 DEF Known

----------------------------------------------------------------------------
(* How often a code is compared.  A window pays for every comparison; the life of a code is no *)
(* longer than a window and so touches two at most.                                            *)

\* n comparisons of a code reserved at s are paid for by k attempts of a window that began at
\* a, which may be the second that the life of the code touches.
Within(s, a, k, n) ==
    /\ a <= s => a + Window > s /\ n <= k
    /\ s < a /\ a < s + Life => n <= MaxAttempts + k
    /\ n <= 2 * MaxAttempts

Budgeted(i) ==
    LET c == challenges[i]
        w == windows[c.account] IN
    /\ c.expires - Life <= clock
    /\ \A g \in Generations :
           /\ g > c.gen => compared[i][g] = 0
           /\ g = c.gen => Within(c.expires - Life, w.anchor, w.attempts, compared[i][g])

WindowsOK ==
    \A a \in Accounts \cup {Address} : windows[a] # None =>
        windows[a].anchor <= clock /\ windows[a].attempts \in 0 .. MaxAttempts

\* A consumed challenge is never written again.
UsedOnce ==
    \A i \in Ids : uses[i] = 0 \/ /\ uses[i] = 1
                                  /\ challenges[i] = None \/ challenges[i].state = "CONSUMED"

Spent ==
    /\ clock \in Nat /\ WindowsOK /\ UsedOnce
    /\ \A i \in Ids, g \in Generations : compared[i][g] <= 2 * MaxAttempts
    /\ \A i \in Ids : challenges[i] # None => Budgeted(i)

\* At time t a window (a, k) is left as it is, or begins anew; then it pays an attempt.
LEMMA WithinKept ==
    ASSUME NEW s \in Int, NEW t \in Int, NEW a \in Int, NEW k \in 0 .. MaxAttempts, NEW n \in Nat,
           s <= t, a <= t, Within(s, a, k, n), NEW b \in Int, NEW m \in Int,
           \/ t < a + Window /\ b = a /\ m = k
           \/ t >= a + Window /\ b = t /\ m = 0
    PROVE  /\ Within(s, b, m, n) /\ Within(s, b, m + 1, n)
           /\ m < MaxAttempts /\ t < s + Life => Within(s, b, m + 1, n + 1)
<1>1. /\ MaxAttempts \in Nat \ {0} /\ Window \in Nat \ {0} /\ Life \in Nat \ {0} /\ Life <= Window
  BY OtpAssumption
<1>2. CASE t < a + Window /\ b = a /\ m = k
  BY <1>1, <1>2 DEF Within
<1>3. CASE t >= a + Window /\ b = t /\ m = 0
  <2>1. s < b
    BY <1>1, <1>3 DEF Within
  <2>2. b < s + Life => n <= MaxAttempts
    BY <1>1, <1>3 DEF Within
  <2> QED
    BY <1>1, <1>3, <2>1, <2>2 DEF Within
<1> QED
  BY <1>2, <1>3

\* A window is left as it is, or begins anew now.
LEMMA CurrentShape ==
    ASSUME Inv, clock \in Nat, WindowsOK, NEW a \in Accounts \cup {Address}
    PROVE  /\ Current(a) \in Budget
           /\ Current(a).anchor <= clock /\ clock < Current(a).anchor + Window
           /\ Current(a).attempts \in 0 .. MaxAttempts
           /\ windows[a] # None =>
                  \/ /\ clock < windows[a].anchor + Window
                     /\ Current(a).anchor = windows[a].anchor
                     /\ Current(a).attempts = windows[a].attempts
                  \/ /\ clock >= windows[a].anchor + Window
                     /\ Current(a).anchor = clock /\ Current(a).attempts = 0
<1>1. Current(a) \in Budget
  BY CurrentKeepsLast DEF Inv
<1>2. PICK w : w = IF windows[a] = None
                   THEN [anchor |-> 0, attempts |-> 0, sends |-> 0, last |-> 0] ELSE windows[a]
  OBVIOUS
<1>3. /\ w \in Budget /\ w.anchor <= clock /\ w.attempts \in 0 .. MaxAttempts
      /\ windows[a] # None => w = windows[a]
  BY <1>2, OtpAssumption DEF Inv, Types, Budget, WindowsOK
<1>4. PICK y : y = [w EXCEPT !.anchor = clock, !.attempts = 0, !.sends = 0]
  OBVIOUS
<1>5. y.anchor = clock /\ y.attempts = 0
  <2>1. PICK t \in Nat : t = clock
    OBVIOUS
  <2>2. PICK z : z = 0
    OBVIOUS
  <2>3. y = [w EXCEPT !.anchor = t, !.attempts = z, !.sends = z]
    BY <1>4, <2>1, <2>2
  <2>4. y.anchor = t /\ y.attempts = z
    BY <1>3, <2>3 DEF Budget
  <2> QED
    BY <2>1, <2>2, <2>4
<1>6. Current(a) = IF clock < w.anchor + Window THEN w ELSE y
  BY <1>2, <1>4 DEF Current
<1> QED
  BY <1>1, <1>3, <1>5, <1>6, OtpAssumption DEF Budget

\* What a step does to the window of a: it is left as it is or begins anew, and may pay an
\* attempt that it has left.
Renewed(a) ==
    windows'[a].anchor = Current(a).anchor /\ windows'[a].attempts = Current(a).attempts
Charged(a) ==
    /\ Current(a).attempts < MaxAttempts
    /\ windows'[a].anchor = Current(a).anchor /\ windows'[a].attempts = Current(a).attempts + 1

LEMMA WindowsKept ==
    ASSUME Inv, clock \in Nat, WindowsOK, clock' = clock,
           \A a \in Accounts \cup {Address} :
               windows'[a] \in {windows[a], None} \/ Renewed(a) \/ Charged(a)
    PROVE  WindowsOK'
<1> SUFFICES ASSUME NEW a \in Accounts \cup {Address}, windows'[a] # None
             PROVE  windows'[a].anchor <= clock /\ windows'[a].attempts \in 0 .. MaxAttempts
  BY DEF WindowsOK
<1>1. CASE windows'[a] = windows[a]
  BY <1>1 DEF WindowsOK
<1>2. CASE Renewed(a) \/ Charged(a)
  BY <1>2, CurrentShape, OtpAssumption DEF Renewed, Charged, Budget
<1> QED
  BY <1>1, <1>2

LEMMA BudgetedKept ==
    ASSUME Known, Spent, clock' = clock, NEW i \in Ids, challenges[i] # None,
           challenges'[i].gen = challenges[i].gen,
           challenges'[i].account = challenges[i].account,
           challenges'[i].expires = challenges[i].expires,
           LET b == challenges[i].account IN
           /\ windows'[b] = windows[b] \/ Renewed(b) \/ Charged(b)
           /\ \A g \in Generations :
                  compared'[i][g] = compared[i][g] \/ (Charged(b) /\ ComparedOnce(i, g, b))
    PROVE  Budgeted(i)'
<1> DEFINE c == challenges[i]
           b == c.account
           s == c.expires - Life
           w == windows[b]
<1>1. /\ c.gen \in Int /\ c.expires \in Int /\ b \in Accounts
      /\ w # None /\ w \in Budget
  BY DEF Known, Inv, Types, Covered, Challenge
<1>2. /\ s \in Int /\ clock \in Int /\ s <= clock
      /\ w.anchor \in Int /\ w.anchor <= clock /\ w.attempts \in 0 .. MaxAttempts
  BY <1>1, OtpAssumption DEF Spent, Budgeted, WindowsOK, Budget
<1>3. \A g \in Generations : g > c.gen => compared'[i][g] = 0
  BY <1>1 DEF Spent, Budgeted, ComparedOnce, Generations
<1>4. ASSUME NEW g \in Generations, g = c.gen
      PROVE  Within(s, windows'[b].anchor, windows'[b].attempts, compared'[i][g])
  <2>1. Within(s, w.anchor, w.attempts, compared[i][g]) /\ compared[i][g] \in Nat
    BY <1>4 DEF Spent, Budgeted, Known, Histories
  <2>2. /\ Current(b).anchor \in Int /\ Current(b).attempts \in Int
        /\ \/ /\ clock < w.anchor + Window
              /\ Current(b).anchor = w.anchor /\ Current(b).attempts = w.attempts
           \/ /\ clock >= w.anchor + Window
              /\ Current(b).anchor = clock /\ Current(b).attempts = 0
    BY <1>1, CurrentShape DEF Known, Spent, Budget
  <2>3. /\ Within(s, Current(b).anchor, Current(b).attempts, compared[i][g])
        /\ Within(s, Current(b).anchor, Current(b).attempts + 1, compared[i][g])
        /\ Current(b).attempts < MaxAttempts /\ clock < s + Life =>
               Within(s, Current(b).anchor, Current(b).attempts + 1, compared[i][g] + 1)
    BY <1>2, <2>1, <2>2, WithinKept
  <2>4. ComparedOnce(i, g, b) => clock < s + Life /\ compared'[i][g] = compared[i][g] + 1
    BY <1>1, OtpAssumption DEF ComparedOnce
  <2>5. CASE windows'[b] = windows[b] /\ compared'[i][g] = compared[i][g]
    BY <2>1, <2>5
  <2>6. CASE Renewed(b) /\ compared'[i][g] = compared[i][g]
    BY <2>3, <2>6 DEF Renewed
  <2>7. CASE Charged(b) /\ (compared'[i][g] = compared[i][g] \/ ComparedOnce(i, g, b))
    BY <2>3, <2>4, <2>7 DEF Charged
  <2> QED
    BY <2>5, <2>6, <2>7
<1> QED
  BY <1>2, <1>3, <1>4 DEF Budgeted

LEMMA CheckSpent == ASSUME Known, Spent, NEW p \in Posts, Check(p) PROVE Spent'
<1>1. clock' = clock
  BY CheckMoves DEF Known
<1>2. /\ \A i \in Ids : \/ challenges'[i] = challenges[i] /\ uses'[i] = uses[i]
                        \/ Consumed(i) /\ uses'[i] \in {uses[i], uses[i] + 1}
      /\ \/ windows' = windows /\ compared' = compared
         \/ \E a \in Accounts :
                /\ windows[a] # None /\ compared' = compared
                /\ windows' = [windows EXCEPT ![a] = Current(a)]
         \/ \E a \in Accounts : Paid(a)
      /\ \A i \in Ids : challenges[i] = None => compared'[i] = compared[i]
  BY CheckEffect
<1>3. UsedOnce'
  BY <1>2 DEF UsedOnce, Spent, Consumed, SameRow
<1>4. \A i \in Ids : challenges[i] # None =>
          /\ challenges'[i].gen = challenges[i].gen
          /\ challenges'[i].account = challenges[i].account
          /\ challenges'[i].expires = challenges[i].expires
  BY <1>2 DEF Consumed, SameRow
<1>5. \A i \in Ids : challenges'[i] # None => challenges[i] # None
  BY <1>2 DEF Consumed, SameRow
<1>6. \A i \in Ids : challenges[i] # None => challenges[i].account \in Accounts
  BY DEF Known, Inv, Types, Challenge
<1>7. \A a \in Accounts :
          /\ windows[a] # None /\ windows' = [windows EXCEPT ![a] = Current(a)] => Renewed(a)
          /\ Paid(a) => Charged(a)
  <2> SUFFICES ASSUME NEW a \in Accounts
               PROVE  /\ windows' = [windows EXCEPT ![a] = Current(a)] => Renewed(a)
                      /\ Paid(a) => Charged(a)
    OBVIOUS
  <2>1. Current(a) \in Budget
    BY CurrentShape DEF Known, Spent
  <2>2. Attempted(a).anchor = Current(a).anchor /\ Attempted(a).attempts = Current(a).attempts + 1
    BY <2>1 DEF Attempted, Budget
  <2> QED
    BY <2>2 DEF Renewed, Charged, Paid, Known, Inv, Types
<1>8. \A b \in Accounts \cup {Address} : windows'[b] = windows[b] \/ Renewed(b) \/ Charged(b)
  BY <1>2, <1>7 DEF Known, Inv, Types, Paid
<1>9. \A i \in Ids, g \in Generations : challenges[i] # None =>
          \/ compared'[i][g] = compared[i][g]
          \/ Charged(challenges[i].account) /\ ComparedOnce(i, g, challenges[i].account)
  BY <1>2, <1>7 DEF Paid, ComparedOnce
<1>10. ASSUME NEW i \in Ids, challenges[i] # None PROVE Budgeted(i)'
  <2>1. LET b == challenges[i].account IN
            /\ windows'[b] = windows[b] \/ Renewed(b) \/ Charged(b)
            /\ \A g \in Generations :
                   compared'[i][g] = compared[i][g] \/ (Charged(b) /\ ComparedOnce(i, g, b))
    BY <1>6, <1>8, <1>9, <1>10
  <2>2. /\ challenges'[i].gen = challenges[i].gen
        /\ challenges'[i].account = challenges[i].account
        /\ challenges'[i].expires = challenges[i].expires
    BY <1>4, <1>10
  <2> QED
    BY <1>1, <1>10, <2>1, <2>2, BudgetedKept
<1>11. WindowsOK'
  BY <1>1, <1>8, WindowsKept DEF Known, Spent
<1>12. ASSUME NEW i \in Ids, NEW g \in Generations PROVE compared'[i][g] <= 2 * MaxAttempts
  <2>1. CASE compared'[i][g] = compared[i][g]
    BY <2>1 DEF Spent
  <2>2. CASE compared'[i][g] # compared[i][g]
    <3>1. challenges[i] # None /\ ComparedOnce(i, g, challenges[i].account)
      BY <1>2, <1>9, <2>2
    <3>2. Budgeted(i)' /\ challenges'[i].gen = g
      BY <1>4, <1>10, <3>1 DEF ComparedOnce
    <3> QED
      BY <3>2 DEF Budgeted, Within
  <2> QED
    BY <2>1, <2>2
<1> QED
  BY <1>1, <1>3, <1>5, <1>10, <1>11, <1>12 DEF Spent

\* A send writes its row anew, for a generation that was never compared, in a window that has
\* begun.
LEMMA ReserveSpent == ASSUME Known, Spent, NEW p \in Posts, Reserve(p) PROVE Spent'
<1> DEFINE h == post[p]
           a == h.account
<1>1. /\ h \in Sends /\ h.pc = "reserve" /\ a \in Accounts
      /\ clock' = clock /\ uses' = uses /\ compared' = compared
  BY ReserveEffect DEF Known, histories, Sends
<1>2. \/ Admitted(h) /\ ReserveRow(h)
      \/ /\ challenges' = challenges
         /\ windows' = [windows EXCEPT ![a] = Current(a), ![Address] = Current(Address)]
  BY ReserveEffect DEF Known
<1>3. Current(a) \in Budget /\ Current(Address) \in Budget
  BY <1>1, CurrentShape DEF Known, Spent
<1>4. /\ Renewed(a) /\ Renewed(Address)
      /\ \A b \in (Accounts \cup {Address}) \ {a, Address} : windows'[b] = windows[b]
  <2>1. CASE ReserveRow(h)
    <3>1. PICK x : x = [Current(a) EXCEPT !.sends = @ + 1, !.last = clock]
      OBVIOUS
    <3>2. PICK y : y = [Current(Address) EXCEPT !.sends = @ + 1]
      OBVIOUS
    <3>3. windows' = [windows EXCEPT ![a] = x, ![Address] = y]
      BY <2>1, <3>1, <3>2 DEF ReserveRow
    <3>4. /\ x.anchor = Current(a).anchor /\ x.attempts = Current(a).attempts
          /\ y.anchor = Current(Address).anchor /\ y.attempts = Current(Address).attempts
      <4>1. PICK m : m = Current(a).sends + 1
        OBVIOUS
      <4>2. PICK n : n = Current(Address).sends + 1
        OBVIOUS
      <4>3. PICK t : t = clock
        OBVIOUS
      <4>4. /\ x = [Current(a) EXCEPT !.sends = m, !.last = t]
            /\ y = [Current(Address) EXCEPT !.sends = n]
        BY <3>1, <3>2, <4>1, <4>2, <4>3
      <4> QED
        BY <1>3, <4>4 DEF Budget
    <3> QED
      BY <1>1, <3>3, <3>4, BudgetAssumption DEF Renewed, Known, Inv, Types
  <2>2. CASE windows' = [windows EXCEPT ![a] = Current(a), ![Address] = Current(Address)]
    BY <1>1, <2>2, BudgetAssumption DEF Renewed, Known, Inv, Types
  <2> QED
    BY <1>2, <2>1, <2>2
<1>5. WindowsOK'
  BY <1>1, <1>4, WindowsKept DEF Known, Spent
<1>6. ASSUME NEW i \in Ids, challenges[i] # None, challenges'[i] = challenges[i]
      PROVE  Budgeted(i)'
  <2>1. challenges[i].account \in Accounts
    BY <1>6 DEF Known, Inv, Types, Challenge
  <2>2. LET b == challenges[i].account IN
            /\ windows'[b] = windows[b] \/ Renewed(b) \/ Charged(b)
            /\ \A g \in Generations :
                   compared'[i][g] = compared[i][g] \/ (Charged(b) /\ ComparedOnce(i, g, b))
    BY <1>1, <1>4, <2>1, BudgetAssumption
  <2> QED
    BY <1>1, <1>6, <2>2, BudgetedKept
<1>7. CASE challenges' = challenges
  BY <1>1, <1>5, <1>6, <1>7 DEF Spent, UsedOnce
<1>8. CASE Admitted(h) /\ ReserveRow(h)
  <2>1. PICK i \in Ids : i = h.next.id
    BY <1>1, <1>8, AdmittedRow
  <2>2. /\ \A j \in Ids \ {i} : challenges'[j] = challenges[j]
        /\ challenges'[i].account = a /\ challenges'[i].gen = h.next.gen
        /\ challenges'[i].expires = clock + Life
    BY <1>1, <1>8, <2>1, ReservedRow DEF Known
  <2>3. \/ Untouched(i)
        \/ /\ challenges[i] # None /\ challenges[i].state # "CONSUMED"
           /\ h.next.gen = challenges[i].gen + 1
    BY <1>1, <1>8, <2>1, AdmittedRow DEF Known, Fresh
  <2>4. /\ uses[i] = 0
        /\ \A g \in Generations : g >= h.next.gen => compared[i][g] = 0
    <3>1. CASE Untouched(i)
      BY <3>1 DEF Untouched
    <3>2. CASE /\ challenges[i] # None /\ challenges[i].state # "CONSUMED"
               /\ h.next.gen = challenges[i].gen + 1
      <4>1. challenges[i].gen \in Int
        BY <3>2 DEF Known, Inv, Types, Challenge
      <4> QED
        BY <3>2, <4>1 DEF Spent, UsedOnce, Budgeted, Generations
    <3> QED
      BY <2>3, <3>1, <3>2
  <2>5. Budgeted(i)'
    <3>1. /\ windows'[a].anchor \in Int /\ windows'[a].attempts \in 0 .. MaxAttempts
          /\ windows'[a].anchor + Window > clock
      BY <1>1, <1>3, <1>4, CurrentShape DEF Renewed, Budget, Known, Spent
    <3>2. clock \in Nat /\ Life \in Nat
      BY OtpAssumption DEF Spent
    <3>3. Within(clock, windows'[a].anchor, windows'[a].attempts, 0)
      BY <3>1, <3>2, OtpAssumption DEF Within
    <3>4. h.next.gen \in Int
      BY <1>1 DEF Sends, Reference
    <3>5. /\ challenges'[i].account = a /\ challenges'[i].gen = h.next.gen
          /\ challenges'[i].expires - Life = clock
      BY <2>2, <3>2
    <3>6. \A g \in Generations : g > h.next.gen => compared'[i][g] = 0
      BY <1>1, <2>4, <3>4 DEF Generations
    <3>7. ASSUME NEW g \in Generations, g = h.next.gen
          PROVE  Within(clock, windows'[a].anchor, windows'[a].attempts, compared'[i][g])
      <4>1. compared'[i][g] = 0
        BY <1>1, <2>4, <3>4, <3>7
      <4> QED
        BY <3>3, <4>1
    <3>8. clock' = clock /\ clock <= clock
      BY <1>1, <3>2
    <3> QED
      BY <3>5, <3>6, <3>7, <3>8 DEF Budgeted
  <2>6. \A j \in Ids : challenges'[j] # None => Budgeted(j)'
    BY <1>6, <2>2, <2>5
  <2>7. UsedOnce'
    BY <1>1, <2>2, <2>4 DEF UsedOnce, Spent
  <2> QED
    BY <1>1, <1>5, <2>6, <2>7 DEF Spent
<1> QED
  BY <1>2, <1>7, <1>8

\* Steps that compare and accept nothing, and keep a challenge with its window or forget it.
LEMMA SpentCarried ==
    ASSUME Known, Spent, clock' = clock, uses' = uses, compared' = compared,
           \A a \in Accounts \cup {Address} : windows'[a] \in {windows[a], None},
           \A i \in Ids :
               \/ challenges'[i] = None
               \/ /\ windows'[challenges[i].account] = windows[challenges[i].account]
                  /\ challenges'[i] = challenges[i] \/ Activated(i)
    PROVE  Spent'
<1>1. WindowsOK'
  BY WindowsKept DEF Known, Spent
<1>2. UsedOnce'
  BY DEF Spent, UsedOnce, Activated, SameRow
<1>3. ASSUME NEW i \in Ids, challenges'[i] # None PROVE Budgeted(i)'
  <2>1. /\ challenges[i] # None
        /\ challenges'[i].gen = challenges[i].gen
        /\ challenges'[i].account = challenges[i].account
        /\ challenges'[i].expires = challenges[i].expires
    BY <1>3 DEF Activated, SameRow
  <2>2. LET b == challenges[i].account IN
            /\ windows'[b] = windows[b] \/ Renewed(b) \/ Charged(b)
            /\ \A g \in Generations :
                   compared'[i][g] = compared[i][g] \/ (Charged(b) /\ ComparedOnce(i, g, b))
    BY <1>3
  <2> QED
    BY <2>1, <2>2, BudgetedKept
<1> QED
  BY <1>1, <1>2, <1>3 DEF Spent

LEMMA NextSpent == Known /\ Spent /\ [Next]_vars => Spent'
<1> SUFFICES ASSUME Known, Spent, [Next]_vars PROVE Spent'
  OBVIOUS
<1>1. CASE \E t \in Tabs, p \in Posts, e \in Emails : Request(p, t, e)
  <2>1. CleanupExpired /\ clock' = clock /\ UNCHANGED histories
    BY <1>1, RequestEffect DEF Known
  <2> QED
    BY <2>1, CleanupEffect, SpentCarried DEF Known, histories
<1>2. CASE \E t \in Tabs, p \in Posts : Resend(p, t)
  <2>1. CleanupExpired /\ clock' = clock /\ UNCHANGED histories
    BY <1>2, StartMoves DEF Known, Resend
  <2> QED
    BY <2>1, CleanupEffect, SpentCarried DEF Known, histories
<1>3. CASE \E p \in Posts : Reserve(p)
  BY <1>3, ReserveSpent
<1>4. CASE \E p \in Posts : Unavailable(p) \/ Mail(p) \/ Activate(p)
  <2>1. /\ UNCHANGED <<clock, windows, uses, compared>>
        /\ \A i \in Ids : challenges'[i] = challenges[i] \/ Activated(i)
    BY <1>4, SendEffect DEF Known
  <2> QED
    BY <2>1, SpentCarried
<1>5. CASE \E p \in Posts : Check(p)
  BY <1>5, CheckSpent
<1>6. CASE Tick
  <2>1. clock' = clock + 1 /\ UNCHANGED <<windows, challenges, uses, compared>>
    BY <1>6 DEF Tick, store, histories
  <2>2. clock' \in Nat /\ clock <= clock'
    BY <2>1 DEF Spent
  <2>3. WindowsOK'
    BY <2>1, <2>2 DEF Spent, WindowsOK, Known, Inv, Types, Budget
  <2>4. \A i \in Ids : challenges[i] # None => challenges[i].expires - Life \in Int
    BY OtpAssumption DEF Known, Inv, Types, Challenge
  <2>5. \A i \in Ids : challenges'[i] # None => Budgeted(i)'
    BY <2>1, <2>2, <2>4 DEF Spent, Budgeted
  <2> QED
    BY <2>1, <2>2, <2>3, <2>5 DEF Spent, UsedOnce
<1>7. CASE \/ \E t \in Tabs, p \in Posts, right \in BOOLEAN : Verify(p, t, right)
           \/ \E u \in Users : ChangeUser(u)
           \/ \E t \in Tabs : ChangeEmail(t)
           \/ \E p \in Posts : Remember(p) \/ Accept(p) \/ Crash(p)
           \/ UNCHANGED vars
  <2>1. UNCHANGED <<clock, windows, challenges, uses, compared>>
    BY <1>7 DEF Verify, Start, ChangeUser, ChangeEmail, Remember, Accept, Crash, vars, store,
                histories
  <2> QED
    BY <2>1, SpentCarried
<1> QED
  BY <1>1, <1>2, <1>3, <1>4, <1>5, <1>6, <1>7 DEF Next, Submit, Serve

LEMMA InitSpent == Init => Spent
<1> SUFFICES ASSUME Init PROVE Spent
  OBVIOUS
<1>1. /\ clock \in Nat
      /\ \A a \in Accounts \cup {Address} : windows[a] = None
      /\ \A i \in Ids : /\ challenges[i] = None /\ uses[i] = 0
                        /\ \A g \in Generations : compared[i][g] = 0
  BY OtpAssumption DEF Init
<1> QED
  BY <1>1, OtpAssumption DEF Spent, WindowsOK, UsedOnce

\* A challenge is accepted once, in whatever order verifications, resends and lost answers come;
\* and a live code is compared within the attempts of two budget windows, all that its life can
\* touch (verify, resetWindow).
THEOREM CodeSpent == Spec => []CodeIsSpent
<1>1. Init => Known /\ Spent
  BY InitKnown, InitSpent
<1>2. Known /\ Spent /\ [Next]_vars => (Known /\ Spent)'
  BY NextKnown, NextSpent
<1>3. Known /\ Spent => CodeIsSpent
  BY DEF Spent, UsedOnce, CodeIsSpent
<1> QED
  BY <1>1, <1>2, <1>3, PTL DEF Spec

----------------------------------------------------------------------------
(* The codes as OneTimeCodes sees them.  A send issues a code when every other of its account   *)
(* has expired or is consumed, which Covered says of the send before; its challenge was never   *)
(* accepted, or its row would be consumed (Spent) and the send refused.                         *)

\* Codes are left as they are, or run out.
LEMMA CodesRunOut ==
    ASSUME uses' = uses,
           \A i \in Ids : Usable(i)' => /\ Usable(i) /\ challenges'[i].state = challenges[i].state
                                        /\ challenges'[i].account = challenges[i].account
    PROVE  Codes!Next
<1> USE DEF Usable
<1>1. PICK gone \in SUBSET Ids : \A i \in Ids : i \in gone <=> ~Usable(i)'
  <2>1. {i \in Ids : ~Usable(i)'} \in SUBSET Ids
    OBVIOUS
  <2> QED
    BY <2>1
<1>2. Codes!Close(gone)
  BY <1>1 DEF Codes!Close
<1>3. Codes!Expire(gone)
  BY <1>2 DEF Codes!Expire
<1> QED
  BY <1>3 DEF Codes!Next

LEMMA ReserveCodes ==
    ASSUME Known, Spent, NEW p \in Posts, Reserve(p)
    PROVE  Codes!Next
<1> USE DEF Usable
<1> PICK h, i, a : h = post[p] /\ i = h.next.id /\ a = h.account
  OBVIOUS
<1>1. h \in Sends /\ clock' = clock /\ uses' = uses
  BY ReserveEffect DEF Known, histories
<1>2. CASE challenges' = challenges
  BY <1>1, <1>2, CodesRunOut
<1>3. CASE Admitted(h) /\ ReserveRow(h)
  <2>1. /\ i \in Ids
        /\ \/ Opening(p)
           \/ challenges[i] # None /\ challenges[i].account = a /\ challenges[i].state # "CONSUMED"
    BY <1>1, <1>3, AdmittedRow DEF Reserve
  <2>2. /\ \A j \in Ids \ {i} : challenges'[j] = challenges[j]
        /\ challenges'[i].account = a /\ challenges'[i].expires = clock + Life
        /\ challenges'[i].state = "PENDING" /\ challenges'[i] # None
    BY <1>1, <1>3, <2>1, ReservedRow DEF Known
  <2>3. \A j \in Ids : Usable(j) => challenges[j].account # a
    BY <1>1, <1>3, Outlived, OtpAssumption DEF Known, Inv, Types, Challenge
  <2>4. ~Usable(i) /\ uses[i] = 0
    <3>1. CASE Opening(p)
      BY <2>1, <3>1 DEF Known, Fresh, Untouched
    <3>2. CASE ~Opening(p)
      BY <2>1, <2>3, <3>2 DEF Spent, UsedOnce
    <3> QED
      BY <3>1, <3>2
  <2>5. Usable(i)' /\ a \in Accounts
    BY <1>1, <2>2, OtpAssumption DEF Known, Inv, Types, Sends
  <2>6. \A j \in Ids \ {i} : Usable(j)' <=> Usable(j)
    BY <1>1, <2>2
  <2>7. Codes!Issue(i, a)
    <3>1. /\ [j \in Ids |-> IF Usable(j) THEN challenges[j].state ELSE "closed"][i] = "closed"
          /\ \A j \in Ids : Usable(j) => challenges[j].account # a
      BY <2>1, <2>3, <2>4
    <3>2. [j \in Ids |-> IF Usable(j) THEN challenges[j].state ELSE "closed"]' =
              [[j \in Ids |-> IF Usable(j) THEN challenges[j].state ELSE "closed"]
                   EXCEPT ![i] = "PENDING"]
      BY <2>1, <2>2, <2>5, <2>6
    <3>3. [j \in Ids |-> IF Usable(j) THEN challenges[j].account ELSE None]' =
              [[j \in Ids |-> IF Usable(j) THEN challenges[j].account ELSE None]
                   EXCEPT ![i] = a]
      BY <2>1, <2>2, <2>5, <2>6
    <3> QED
      BY <1>1, <2>1, <2>3, <2>4, <3>1, <3>2, <3>3 DEF Codes!Issue
  <2> QED
    BY <2>1, <2>5, <2>7 DEF Codes!Next
<1> QED
  BY <1>2, <1>3, ReserveEffect DEF Known

LEMMA ActivateCodes ==
    ASSUME Known, NEW p \in Posts, Activate(p)
    PROVE  Codes!Next
<1> USE DEF Usable
<1> PICK i : i = post[p].next.id
  OBVIOUS
<1>1. clock' = clock /\ uses' = uses
  BY DEF Activate, histories
<1>2. CASE challenges' = challenges
  BY <1>1, <1>2, CodesRunOut
<1>3. CASE Activatable(post[p].next) /\ challenges' = [challenges EXCEPT ![i].state = "ACTIVE"]
  <2>1. /\ i \in Ids /\ challenges[i] \in Challenge /\ challenges[i] # None
        /\ challenges[i].state = "PENDING" /\ clock < challenges[i].expires
    BY <1>3 DEF Activatable, Row, Known, Inv, Types
  <2> DEFINE new == [challenges[i] EXCEPT !.state = "ACTIVE"]
  <2>2. /\ new \in Challenge /\ new.state = "ACTIVE"
        /\ new.account = challenges[i].account /\ new.expires = challenges[i].expires
    BY <2>1 DEF Challenge
  <2>3. \A j \in Ids : challenges'[j] = IF j = i THEN new ELSE challenges[j]
    BY <1>3, <2>1, <2>2 DEF Known, Inv, Types
  <2>4. Usable(i) /\ Usable(i)'
    BY <1>1, <2>1, <2>2, <2>3, BudgetAssumption
  <2>5. \A j \in Ids \ {i} : Usable(j)' <=> Usable(j)
    BY <1>1, <2>3
  <2>6. Codes!Activate(i)
    <3>1. [j \in Ids |-> IF Usable(j) THEN challenges[j].state ELSE "closed"]' =
              [[j \in Ids |-> IF Usable(j) THEN challenges[j].state ELSE "closed"]
                   EXCEPT ![i] = "ACTIVE"]
      BY <2>1, <2>2, <2>3, <2>4, <2>5
    <3>2. [j \in Ids |-> IF Usable(j) THEN challenges[j].account ELSE None]' =
              [j \in Ids |-> IF Usable(j) THEN challenges[j].account ELSE None]
      BY <2>1, <2>2, <2>3, <2>4, <2>5
    <3> QED
      BY <1>1, <2>1, <2>4, <3>1, <3>2 DEF Codes!Activate
  <2> QED
    BY <2>1, <2>6 DEF Codes!Next
<1> QED
  BY <1>2, <1>3 DEF Activate

LEMMA CheckCodes ==
    ASSUME Known, NEW p \in Posts, Check(p)
    PROVE  Codes!Next
<1> USE DEF Usable
<1>1. clock' = clock
  BY CheckMoves DEF Known
<1>2. CASE UNCHANGED <<challenges, uses>>
  BY <1>1, <1>2, CodesRunOut
<1>3. ASSUME NEW i \in Ids, Consumed(i), uses' \in {uses, [uses EXCEPT ![i] = @ + 1]},
             \A j \in Ids \ {i} : challenges'[j] = challenges[j]
      PROVE  Codes!Next
  <2>1. Usable(i) /\ challenges[i].state = "ACTIVE" /\ ~Usable(i)'
    BY <1>3 DEF Consumed, SameRow
  <2>2. \A j \in Ids \ {i} : Usable(j)' <=> Usable(j)
    BY <1>1, <1>3
  <2>3. Codes!Close({i})
    BY <1>3, <2>1, <2>2 DEF Codes!Close
  <2>4. Codes!Accept(i)
    BY <1>3, <2>1, <2>3 DEF Codes!Accept
  <2> QED
    BY <2>4 DEF Codes!Next
<1> QED
  BY <1>2, <1>3, CheckEffect

LEMMA NextCodes == Known /\ Spent /\ [Next]_vars => [Codes!Next]_(Codes!codeVars)
<1> SUFFICES ASSUME Known, Spent, [Next]_vars PROVE Codes!Next
  OBVIOUS
<1> USE DEF Usable
<1>1. CASE \E t \in Tabs, p \in Posts, e \in Emails : Request(p, t, e)
  <2>1. CleanupExpired /\ clock' = clock /\ UNCHANGED histories
    BY <1>1, RequestEffect DEF Known
  <2> QED
    BY <2>1, CleanupEffect, CodesRunOut DEF Known, histories
<1>2. CASE \E t \in Tabs, p \in Posts : Resend(p, t)
  <2>1. CleanupExpired /\ clock' = clock /\ UNCHANGED histories
    BY <1>2, StartMoves DEF Known, Resend
  <2> QED
    BY <2>1, CleanupEffect, CodesRunOut DEF Known, histories
<1>3. CASE \E p \in Posts : Reserve(p)
  BY <1>3, ReserveCodes
<1>4. CASE \E p \in Posts : Activate(p)
  BY <1>4, ActivateCodes
<1>5. CASE \E p \in Posts : Check(p)
  BY <1>5, CheckCodes
<1>6. CASE Tick
  <2>1. clock < clock' /\ UNCHANGED <<challenges, uses>>
    BY <1>6 DEF Tick, store, histories, Known, Inv, Types
  <2>2. \A i \in Ids : challenges[i] # None => challenges[i].expires \in Int
    BY DEF Known, Inv, Types, Challenge
  <2>3. \A i \in Ids : Usable(i)' => Usable(i)
    BY <1>6, <2>1, <2>2 DEF Tick, Known, Inv, Types
  <2> QED
    BY <2>1, <2>3, CodesRunOut
<1>7. CASE \/ \E t \in Tabs, p \in Posts, right \in BOOLEAN : Verify(p, t, right)
           \/ \E u \in Users : ChangeUser(u)
           \/ \E t \in Tabs : ChangeEmail(t)
           \/ \E p \in Posts : \/ Unavailable(p) \/ Mail(p) \/ Remember(p)
                              \/ Accept(p) \/ Crash(p)
           \/ UNCHANGED vars
  <2>1. UNCHANGED <<clock, challenges, uses>>
    BY <1>7 DEF Verify, Start, ChangeUser, ChangeEmail, Unavailable, Mail, Remember, Accept,
                Crash, vars, store, histories
  <2> QED
    BY <2>1, CodesRunOut
<1> QED
  BY <1>1, <1>2, <1>3, <1>4, <1>5, <1>6, <1>7 DEF Next, Submit, Serve

LEMMA InitCodes == Init => Codes!Init
<1> SUFFICES ASSUME Init PROVE Codes!Init
  OBVIOUS
<1>1. \A i \in Ids : ~Usable(i)
  BY DEF Init, Usable
<1> QED
  BY <1>1 DEF Init, Codes!Init

\* Whatever tabs, resends, lost answers and administrators do, the store deals in one-time codes,
\* for any number of tabs, POSTs, users and challenges (reserve, activate, verify).
THEOREM Implements == Spec => ImplementsCodes
<1>1. Init => Known /\ Spent /\ Codes!Init
  BY InitKnown, InitSpent, InitCodes
<1>2. Known /\ Spent /\ [Next]_vars => (Known /\ Spent)' /\ [Codes!Next]_(Codes!codeVars)
  BY NextKnown, NextSpent, NextCodes
<1>3. Spec => Codes!Spec
  BY <1>1, <1>2, PTL DEF Spec, Codes!Spec
<1> QED
  BY <1>3 DEF ImplementsCodes

----------------------------------------------------------------------------
(* What a tab shows.  A tab whose POSTs came one after the other is served by one request at a *)
(* time, and only that request replaces its row and then its notes.                            *)

\* The challenge a reference names, if it is still there, is at its generation and belongs to
\* the tab.
Match(ref, t, e) ==
    ref.id \in Ids /\ challenges[ref.id] # None =>
        /\ challenges[ref.id].gen = ref.gen
        /\ challenges[ref.id].tab = t /\ challenges[ref.id].email = e

Alone ==
    \A p, q \in Posts :
        /\ post[p].pc # "idle" /\ post[q].pc # "idle"
        /\ post[p].tab = post[q].tab /\ post[p].tab \notin disturbed
        => p = q

\* What a request will leave in the notes matches.
Follower(p) ==
    post[p].pc # "idle" /\ post[p].tab \notin disturbed =>
        /\ post[p].pc = "reserve" /\ post[p].ref # None =>
               Match(post[p].ref, post[p].tab, post[p].email)
        /\ post[p].pc \in {"mail", "activate", "remember"} =>
               Match(post[p].next, post[p].tab, post[p].email)

Quiet(t) == \A p \in Posts : post[p].pc \in Mailing => post[p].tab # t

NotesMatch(t) ==
    t \notin disturbed /\ Quiet(t) /\ notes[t] # None => Match(notes[t].ref, t, notes[t].email)

Followed ==
    /\ Alone
    /\ \A p \in Posts : Follower(p)
    /\ \A t \in Tabs : NotesMatch(t)

----------------------------------------------------------------------------
\* No row is replaced: a challenge keeps its generation, tab and address, or is forgotten.
RowsKept == \A i \in Ids : challenges'[i] \in {challenges[i], None} \/ SameRow(i)

LEMMA MatchKept ==
    ASSUME RowsKept, NEW ref, NEW t, NEW e, Match(ref, t, e)
    PROVE  ref.id \in Ids /\ challenges'[ref.id] # None =>
               /\ challenges'[ref.id].gen = ref.gen
               /\ challenges'[ref.id].tab = t /\ challenges'[ref.id].email = e
  BY DEF RowsKept, Match, SameRow

\* The request p goes on or ends, and no row is replaced.
LEMMA FollowedCarried ==
    ASSUME Inv, Followed, RowsKept, NEW p \in Posts, \A q \in Posts \ {p} : post'[q] = post[q],
           post[p].pc # "idle", post'[p].pc # "idle" => post'[p].tab = post[p].tab,
           disturbed \subseteq disturbed', Follower(p)',
           \A t \in Tabs : NotesMatch(t)'
    PROVE  Followed'
<1>1. Alone'
  BY DEF Followed, Alone
<1>2. ASSUME NEW q \in Posts \ {p} PROVE Follower(q)'
  <2>1. PICK x : x = post[q] /\ x = post'[q]
    OBVIOUS
  <2>2. x.pc # "idle" /\ x.tab \notin disturbed' =>
            /\ x.pc = "reserve" /\ x.ref # None => Match(x.ref, x.tab, x.email)
            /\ x.pc \in {"mail", "activate", "remember"} => Match(x.next, x.tab, x.email)
    BY <2>1 DEF Followed, Follower
  <2>3. \A ref : Match(ref, x.tab, x.email) =>
            (ref.id \in Ids /\ challenges'[ref.id] # None =>
               /\ challenges'[ref.id].gen = ref.gen
               /\ challenges'[ref.id].tab = x.tab /\ challenges'[ref.id].email = x.email)
    BY MatchKept
  <2> QED
    BY <2>1, <2>2, <2>3 DEF Follower, Match
<1> QED
  BY <1>1, <1>2 DEF Followed

LEMMA NotesCarried ==
    ASSUME RowsKept, disturbed \subseteq disturbed', NEW t \in Tabs, NotesMatch(t),
           notes'[t] \in {notes[t], None}, Quiet(t)' => Quiet(t)
    PROVE  NotesMatch(t)'
<1> SUFFICES ASSUME t \notin disturbed', Quiet(t)', notes'[t] # None
             PROVE  Match(notes[t].ref, t, notes[t].email)'
  BY DEF NotesMatch
<1>1. notes'[t] = notes[t] /\ Match(notes[t].ref, t, notes[t].email)
  BY DEF NotesMatch
<1> QED
  BY <1>1, MatchKept DEF Match

\* A tab that is shown what it had is shown what matches.
LEMMA FallbackMatches ==
    ASSUME RowsKept, disturbed \subseteq disturbed', NEW p \in Posts, Follower(p),
           post[p].pc = "reserve", post'[p].pc = "remember", post'[p].next = Fallback(post[p]),
           post'[p].tab = post[p].tab, post'[p].email = post[p].email
    PROVE  Follower(p)'
<1> SUFFICES ASSUME post'[p].tab \notin disturbed'
             PROVE  Match(post[p].next, post[p].tab, post[p].email)'
  BY DEF Follower
<1>1. CASE post[p].ref # None
  <2>1. post'[p].next = post[p].ref /\ Match(post[p].ref, post[p].tab, post[p].email)
    BY <1>1 DEF Fallback, Follower
  <2> QED
    BY <2>1, MatchKept DEF Match
<1>2. CASE post[p].ref = None
  BY <1>2, OtpAssumption DEF Fallback, Match
<1> QED
  BY <1>1, <1>2

LEMMA SendFollowed ==
    ASSUME Known, Followed, NEW p \in Posts, Unavailable(p) \/ Mail(p) \/ Activate(p)
    PROVE  Followed'
<1>1. /\ Moved(p) /\ post[p].pc \in Mailing /\ post'[p].pc \in Mailing
      /\ post'[p].tab = post[p].tab /\ post'[p].email = post[p].email
      /\ notes' = notes /\ disturbed' = disturbed
  BY SendEffect DEF Known, Mailing
<1>2. RowsKept
  BY SendEffect DEF Known, RowsKept, Activated
<1>3. Follower(p)'
  <2>1. CASE /\ post[p].pc = "reserve" /\ post'[p].pc = "remember"
             /\ post'[p].next = Fallback(post[p])
    BY <1>1, <1>2, <2>1, FallbackMatches DEF Followed
  <2>2. CASE /\ post[p].pc \in {"mail", "activate"}
             /\ post'[p].pc \in {"activate", "remember"} /\ post'[p].next = post[p].next
    <3> SUFFICES ASSUME post'[p].tab \notin disturbed'
                 PROVE  Match(post[p].next, post[p].tab, post[p].email)'
      BY <2>2 DEF Follower
    <3>1. Match(post[p].next, post[p].tab, post[p].email)
      BY <1>1, <2>2 DEF Followed, Follower
    <3> QED
      BY <1>1, <1>2, <2>2, <3>1, MatchKept DEF Match
  <2> QED
    BY <2>1, <2>2, SendEffect DEF Known
<1>4. ASSUME NEW t \in Tabs PROVE NotesMatch(t)'
  <2>1. Quiet(t)' => Quiet(t)
    BY <1>1 DEF Quiet, Moved
  <2> QED
    BY <1>1, <1>2, <2>1, NotesCarried DEF Followed
<1> QED
  BY <1>1, <1>2, <1>3, <1>4, FollowedCarried DEF Known, Moved, Mailing

\* A tab's request ends, or accepted its code; one that was sending was disturbed.
LEMMA EndFollowed ==
    ASSUME Known, Followed, NEW p \in Posts, Check(p) \/ Accept(p) \/ Crash(p)
    PROVE  Followed'
<1>1. /\ \A q \in Posts \ {p} : post'[q] = post[q]
      /\ post[p].pc # "idle" /\ post'[p].pc \in {"idle", "accept"}
      /\ post'[p].pc # "idle" => post'[p].tab = post[p].tab
      /\ disturbed \subseteq disturbed'
      /\ post[p].pc \in Mailing => post[p].tab \in disturbed'
  <2>1. CASE Check(p)
    <3>1. post[p].pc = "verify"
      BY <2>1 DEF Check
    <3> QED
      BY <2>1, <3>1, CheckMoves DEF Known, Moved, Mailing
  <2>2. CASE Accept(p)
    BY <2>2, IdleMoves DEF Accept, Known, Moved, Mailing
  <2>3. CASE Crash(p)
    BY <2>3, IdleMoves, PostShape DEF Crash, Known, Moved
  <2> QED
    BY <2>1, <2>2, <2>3
<1>2. RowsKept
  <2>1. CASE Check(p)
    BY <2>1, CheckEffect DEF Consumed, RowsKept
  <2>2. CASE Accept(p) \/ Crash(p)
    BY <2>2 DEF Accept, Crash, store, RowsKept
  <2> QED
    BY <2>1, <2>2
<1>3. \A t \in Tabs : notes'[t] \in {notes[t], None}
  BY CheckMoves DEF Accept, Crash, Known, Inv, Types
<1>4. Follower(p)'
  BY <1>1 DEF Follower
<1>5. ASSUME NEW t \in Tabs PROVE NotesMatch(t)'
  <2>1. CASE post[p].pc \in Mailing /\ post[p].tab = t
    BY <1>1, <2>1 DEF NotesMatch
  <2>2. CASE ~(post[p].pc \in Mailing /\ post[p].tab = t)
    <3>1. Quiet(t)' => Quiet(t)
      BY <1>1, <2>2 DEF Quiet
    <3> QED
      BY <1>1, <1>2, <1>3, <3>1, NotesCarried DEF Followed
  <2> QED
    BY <2>1, <2>2
<1> QED
  BY <1>1, <1>2, <1>4, <1>5, FollowedCarried DEF Known

LEMMA RememberFollowed ==
    ASSUME Known, Followed, NEW p \in Posts, Remember(p)
    PROVE  Followed'
<1>1. /\ \A q \in Posts \ {p} : post'[q] = post[q]
      /\ post[p].pc = "remember" /\ post[p] \in Sends /\ post'[p].pc = "idle"
      /\ disturbed' = disturbed /\ challenges' = challenges
  BY IdleMoves, PostShape DEF Remember, Known, Moved, Mailing, store
<1>2. RowsKept
  BY <1>1 DEF RowsKept
<1>3. Follower(p)'
  BY <1>1 DEF Follower
<1>4. ASSUME NEW t \in Tabs PROVE NotesMatch(t)'
  <2>1. CASE post[p].tab = t
    <3> SUFFICES ASSUME t \notin disturbed'
                 PROVE  Match(notes[t].ref, t, notes[t].email)'
      BY DEF NotesMatch
    <3>1. notes'[t].ref = post[p].next /\ notes'[t].email = post[p].email
      BY <2>1 DEF Remember, Known, Inv, Types
    <3>2. Match(post[p].next, t, post[p].email)
      BY <1>1, <2>1 DEF Followed, Follower
    <3> QED
      BY <1>2, <3>1, <3>2, MatchKept DEF Match
  <2>2. CASE post[p].tab # t
    <3>1. notes'[t] = notes[t]
      BY <2>2 DEF Remember, Known, Inv, Types
    <3>2. Quiet(t)' => Quiet(t)
      BY <1>1, <2>2 DEF Quiet
    <3> QED
      BY <1>1, <1>2, <3>1, <3>2, NotesCarried DEF Followed
  <2> QED
    BY <2>1, <2>2
<1> QED
  BY <1>1, <1>2, <1>3, <1>4, FollowedCarried DEF Known

\* A tab's next POST starts: beside others, which disturbs the tab, or alone and from its notes.
LEMMA StartFollowed ==
    ASSUME Known, Followed, NEW p \in Posts, NEW t \in Tabs,
           \/ Resend(p, t) \/ \E right \in BOOLEAN : Verify(p, t, right)
           \/ \E e \in Emails : Request(p, t, e)
    PROVE  Followed'
<1>1. /\ \A q \in Posts \ {p} : post'[q] = post[q]
      /\ post[p].pc = "idle" /\ post'[p].tab = t /\ post'[p].pc \in {"reserve", "verify"}
      /\ disturbed' = IF InFlight(t) THEN disturbed \cup {t} ELSE disturbed
      /\ notes' = notes
      /\ post'[p].ref # None =>
             post'[p].ref = notes[t].ref /\ post'[p].email = notes[t].email /\ notes[t] # None
  <2>1. CASE Resend(p, t) \/ \E right \in BOOLEAN : Verify(p, t, right)
    BY <2>1, StartMoves, PostShape DEF Known, Moved
  <2>2. CASE \E e \in Emails : Request(p, t, e)
    BY <2>2, RequestEffect, PostShape DEF Known
  <2> QED
    BY <2>1, <2>2
<1>2. RowsKept
  BY CleanupEffect DEF Resend, Verify, Request, RowsKept, Known, store
<1>3. t \notin disturbed' =>
          /\ t \notin disturbed
          /\ \A q \in Posts : post[q].pc # "idle" => post[q].tab # t
  BY <1>1, PostShape DEF InFlight, Known
<1>4. Alone'
  BY <1>1, <1>3 DEF Followed, Alone
<1>5. ASSUME NEW q \in Posts PROVE Follower(q)'
  <2>1. CASE q = p
    <3> SUFFICES ASSUME t \notin disturbed', post'[p].ref # None
                 PROVE  Match(post[p].ref, t, post[p].email)'
      BY <1>1, <2>1 DEF Follower
    <3>1. Match(notes[t].ref, t, notes[t].email) /\ notes[t] # None
      <4>1. Quiet(t)
        BY <1>3 DEF Quiet, Mailing
      <4> QED
        BY <1>1, <1>3, <4>1 DEF Followed, NotesMatch
    <3>2. PICK r, e : /\ r = notes[t].ref /\ r = post'[p].ref
                      /\ e = notes[t].email /\ e = post'[p].email
      BY <1>1
    <3>3. Match(r, t, e)
      BY <3>1, <3>2
    <3>4. r.id \in Ids /\ challenges'[r.id] # None =>
              /\ challenges'[r.id].gen = r.gen
              /\ challenges'[r.id].tab = t /\ challenges'[r.id].email = e
      BY <1>2, <3>3, MatchKept
    <3> QED
      BY <1>1, <3>2, <3>4 DEF Match
  <2>2. CASE q # p
    <3>1. PICK x : x = post[q] /\ x = post'[q]
      BY <1>1, <2>2
    <3>2. x.pc # "idle" /\ x.tab \notin disturbed' =>
              /\ x.pc = "reserve" /\ x.ref # None => Match(x.ref, x.tab, x.email)
              /\ x.pc \in {"mail", "activate", "remember"} => Match(x.next, x.tab, x.email)
      BY <1>1, <3>1 DEF Followed, Follower
    <3>3. \A ref : Match(ref, x.tab, x.email) =>
              (ref.id \in Ids /\ challenges'[ref.id] # None =>
                 /\ challenges'[ref.id].gen = ref.gen
                 /\ challenges'[ref.id].tab = x.tab /\ challenges'[ref.id].email = x.email)
      BY <1>2, MatchKept
    <3> QED
      BY <3>1, <3>2, <3>3 DEF Follower, Match
  <2> QED
    BY <2>1, <2>2
<1>6. ASSUME NEW s \in Tabs PROVE NotesMatch(s)'
  <2>1. Quiet(s)' => Quiet(s)
    BY <1>1 DEF Quiet, Mailing
  <2> QED
    BY <1>1, <1>2, <2>1, NotesCarried DEF Followed
<1> QED
  BY <1>4, <1>5, <1>6 DEF Followed

\* A send replaces the row of its own tab, which nobody else was to follow.
LEMMA ReserveFollowed == ASSUME Known, Followed, NEW p \in Posts, Reserve(p) PROVE Followed'
<1> DEFINE h == post[p]
<1>1. /\ Moved(p) /\ h \in Sends /\ h.pc = "reserve"
      /\ post'[p].pc \in {"mail", "remember"}
      /\ post'[p].tab = h.tab /\ post'[p].email = h.email
      /\ clock' = clock /\ notes' = notes /\ disturbed \subseteq disturbed'
  BY ReserveEffect DEF Known
<1>2. \A t \in Tabs : Quiet(t)' => Quiet(t) /\ t # h.tab
  BY <1>1 DEF Quiet, Moved, Mailing
<1>3. CASE /\ challenges' = challenges
           /\ post'[p].pc = "remember" /\ post'[p].next = Fallback(h)
  <2>1. RowsKept
    BY <1>3 DEF RowsKept
  <2>2. Follower(p)'
    BY <1>1, <1>3, <2>1, FallbackMatches DEF Followed
  <2>3. \A t \in Tabs : NotesMatch(t)'
    BY <1>1, <1>2, <2>1, NotesCarried DEF Followed
  <2> QED
    BY <1>1, <2>1, <2>2, <2>3, FollowedCarried DEF Known, Moved
<1>4. CASE /\ Admitted(h) /\ ReserveRow(h)
           /\ post'[p].next = h.next \/ h.tab \in disturbed'
  <2>1. PICK i \in Ids : i = h.next.id
    BY <1>1, <1>4, AdmittedRow
  <2>2. /\ \A j \in Ids \ {i} : challenges'[j] = challenges[j]
        /\ challenges'[i].tab = h.tab /\ challenges'[i].email = h.email
        /\ challenges'[i].gen = h.next.gen
    BY <1>1, <1>4, <2>1, ReservedRow DEF Known
  \* Whoever refers to the row refers to the tab's own.
  <2>3. \/ ~Noted(i) /\ \A q \in Posts \ {p} : ~Names(q, i)
        \/ challenges[i] # None /\ challenges[i].tab = h.tab
    BY <1>1, <1>4, <2>1, AdmittedRow DEF Known, Fresh, Untouched
  <2>4. Alone'
    BY <1>1 DEF Followed, Alone, Moved
  <2>5. Follower(p)'
    BY <1>1, <1>4, <2>1, <2>2 DEF Follower, Match
  <2>6. ASSUME NEW q \in Posts \ {p} PROVE Follower(q)'
    <3>1. PICK x : x = post[q] /\ x = post'[q]
      BY <1>1 DEF Moved
    <3> SUFFICES ASSUME x.pc # "idle", x.tab \notin disturbed'
                 PROVE  /\ x.pc = "reserve" /\ x.ref # None => Match(x.ref, x.tab, x.email)'
                        /\ x.pc \in {"mail", "activate", "remember"} =>
                               Match(x.next, x.tab, x.email)'
      BY <3>1 DEF Follower, Match
    <3>2. /\ x.pc = "reserve" /\ x.ref # None => Match(x.ref, x.tab, x.email)
          /\ x.pc \in {"mail", "activate", "remember"} => Match(x.next, x.tab, x.email)
      BY <1>1, <3>1 DEF Followed, Follower
    <3>3. x.tab # h.tab
      BY <1>1, <3>1 DEF Followed, Alone
    <3>4. /\ x.pc = "reserve" /\ x.ref # None => x.ref.id # i
          /\ x.pc \in {"mail", "activate", "remember"} => x.next.id # i
      BY <2>3, <3>1, <3>2, <3>3 DEF Names, Mailing, Match
    <3> QED
      BY <2>2, <3>2, <3>4 DEF Match
  <2>7. ASSUME NEW t \in Tabs PROVE NotesMatch(t)'
    <3> SUFFICES ASSUME t \notin disturbed', Quiet(t)', notes[t] # None
                 PROVE  Match(notes[t].ref, t, notes[t].email)'
      BY <1>1 DEF NotesMatch
    <3>1. Match(notes[t].ref, t, notes[t].email) /\ t # h.tab
      BY <1>1, <1>2 DEF Followed, NotesMatch
    <3>2. notes[t].ref.id # i
      BY <2>3, <3>1 DEF Noted, Match
    <3> QED
      BY <1>1, <2>2, <3>1, <3>2 DEF Match
  <2> QED
    BY <2>4, <2>5, <2>6, <2>7 DEF Followed
<1> QED
  BY <1>3, <1>4, ReserveEffect DEF Known, Sends

LEMMA NextFollowed == Known /\ Followed /\ [Next]_vars => Followed'
<1> SUFFICES ASSUME Known, Followed, [Next]_vars PROVE Followed'
  OBVIOUS
<1>1. CASE \E t \in Tabs, p \in Posts :
               \/ Resend(p, t) \/ \E right \in BOOLEAN : Verify(p, t, right)
               \/ \E e \in Emails : Request(p, t, e)
  BY <1>1, StartFollowed
<1>2. CASE \E p \in Posts : Reserve(p)
  BY <1>2, ReserveFollowed
<1>3. CASE \E p \in Posts : Unavailable(p) \/ Mail(p) \/ Activate(p)
  BY <1>3, SendFollowed
<1>4. CASE \E p \in Posts : Remember(p)
  BY <1>4, RememberFollowed
<1>5. CASE \E p \in Posts : Check(p) \/ Accept(p) \/ Crash(p)
  BY <1>5, EndFollowed
<1>6. CASE \E t \in Tabs : ChangeEmail(t)
  <2>1. PICK t \in Tabs : ChangeEmail(t)
    BY <1>6
  <2>2. /\ post' = post /\ challenges' = challenges
        /\ notes'[t] = None /\ \A s \in Tabs \ {t} : notes'[s] = notes[s]
        /\ \A s \in Tabs \ {t} : s \in disturbed' <=> s \in disturbed
        /\ t \notin disturbed' => \A p \in Posts : post[p].pc # "idle" => post[p].tab # t
    BY <2>1, PostShape DEF ChangeEmail, InFlight, store, Known, Inv, Types
  <2>3. \A p \in Posts : post[p].pc # "idle" => post[p].tab \in Tabs
    BY PostShape DEF Known, Sends, Verifications, Acceptances
  <2>4. Alone'
    BY <2>2, <2>3 DEF Followed, Alone
  <2>5. \A p \in Posts : Follower(p)'
    BY <2>2, <2>3 DEF Followed, Follower, Match
  <2>6. \A s \in Tabs : NotesMatch(s)'
    BY <2>2 DEF Followed, NotesMatch, Quiet, Match
  <2> QED
    BY <2>4, <2>5, <2>6 DEF Followed
<1>7. CASE Tick \/ (\E u \in Users : ChangeUser(u)) \/ UNCHANGED vars
  <2>1. UNCHANGED <<post, challenges, notes, disturbed>>
    BY <1>7 DEF Tick, ChangeUser, vars, store
  <2> QED
    BY <2>1 DEF Followed, Alone, Follower, NotesMatch, Quiet, Match
<1> QED
  BY <1>1, <1>2, <1>3, <1>4, <1>5, <1>6, <1>7 DEF Next, Submit, Serve

LEMMA InitFollowed == Init => Followed
  BY DEF Init, Idle, Followed, Alone, Follower, NotesMatch

\* A tab whose POSTs came one after the other and were all answered shows the generation its
\* challenge is at, refused sends, failed deliveries and failed activations included, so that
\* the code mailed last can be typed and resent (OtpChallengeService.send, remember).
THEOREM TabFollows == Spec => []TabFollowsRow
<1>1. Init => Known /\ Followed
  BY InitKnown, InitFollowed
<1>2. Known /\ Followed /\ [Next]_vars => (Known /\ Followed)'
  BY NextKnown, NextFollowed
<1>3. Known /\ Followed => TabFollowsRow
  <2> SUFFICES ASSUME Known, Followed, NEW t \in Tabs \ disturbed, ~InFlight(t),
                      notes[t] # None, Row(notes[t].ref) # None
               PROVE  /\ Row(notes[t].ref).gen = notes[t].ref.gen
                      /\ Row(notes[t].ref).tab = t /\ Row(notes[t].ref).email = notes[t].email
    BY DEF TabFollowsRow
  <2>1. Quiet(t)
    BY PostShape DEF Quiet, InFlight, Known, Mailing, Idle
  <2>2. Match(notes[t].ref, t, notes[t].email)
    BY <2>1 DEF Followed, NotesMatch
  <2> QED
    BY <2>2 DEF Match, Row
<1> QED
  BY <1>1, <1>2, <1>3, PTL DEF Spec
=============================================================================
