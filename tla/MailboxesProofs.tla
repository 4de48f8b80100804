-------------------------- MODULE MailboxesProofs --------------------------
(* Proofs about Mailboxes, for any clients, mailboxes, tokens and times.    *)
EXTENDS Mailboxes, TLAPS

\* What the rows say and what clients read of them earlier.
Records == {m \in Mailbox : \/ \E i \in Ids : Exists(i) /\ m = Loaded(i)
                            \/ \E c \in Clients : m \in todo[c] \/ (m = box[c] /\ m # None)}

\* Where a client is says what it has.
AtHand ==
  \A c \in Clients :
    /\ pc[c] \in {"resolving", "received", "scanning", "signing", "asking"} => box[c] # None
    /\ pc[c] = "received" => got[c] # None
    /\ pc[c] \in {"polling", "resolving", "scanning"} => job[c] # "authorize"

\* A token on record was issued for the id it is recorded under.
IssuedFor(i, t) == t \in Tokens => /\ t <= issued
                                   /\ \E n \in Names : origin[t] = <<i, n>>

Genuine == /\ \A m \in Records : IssuedFor(m.id, m.secret)
           /\ \A t \in traded : t <= issued

\* A token received and not stored has no successor and is on no record: it is
\* one client's alone.
Fresh ==
  \A c \in Clients : pc[c] = "received" =>
    /\ IssuedFor(box[c].id, got[c])
    /\ got[c] \in accepted \ traded
    /\ \A m \in Records : m.secret # got[c]
    /\ \A d \in Clients \ {c} : pc[d] = "received" => got[d] # got[c]

\* TokenSurvives, with what makes the next trade harmless: the token on file is
\* accepted as long as it has no successor.
Kept ==
  \A i \in Ids :
    LET t == mailboxes[i].secret IN
    Exists(i) /\ t \in Tokens => t \in accepted \ traded \/ InHands(i, t) \/ t \in lost

\* An id never given out is nowhere, one given out once belongs to one mailbox
\* everywhere, also when the mailbox is gone.
Untouched(i) ==
  /\ cursor[i] = None
  /\ \A m \in Records : m.id # i
  /\ \A t \in Tokens, n \in Names : origin[t] # <<i, n>>

BelongsTo(i, n) ==
  /\ cursor[i] \in {None, n}
  /\ \A m \in Records : m.id = i => m.name = n
  /\ \A t \in Tokens, k \in Names : origin[t] = <<i, k>> => k = n

Owned ==
  \A i \in Ids : /\ i \notin used => Untouched(i)
                 /\ i \in used \ reused => \E n \in Names : BelongsTo(i, n)

IInv == TypeOK /\ AtHand /\ Genuine /\ Fresh /\ Kept /\ Owned /\ WaitBounded

-----------------------------------------------------------------------------

\* TypeOK in two parts: what kind of thing each variable is, and that names are
\* unique.
Kinds ==
  /\ mailboxes \in [Ids -> Rows \union {NoRow}]
  /\ cursor \in [Ids -> Names \union {None}]
  /\ issued \in 0 .. MaxToken
  /\ origin \in [Tokens -> (Ids \X Names) \union {None}]
  /\ accepted \in SUBSET Tokens
  /\ traded \in SUBSET Tokens
  /\ lost \in SUBSET Tokens
  /\ used \in SUBSET Ids
  /\ reused \in SUBSET Ids
  /\ pc \in [Clients -> {"idle", "polling", "resolving", "received", "scanning",
                         "signing", "asking"}]
  /\ job \in [Clients -> {"none", "poll", "test", "authorize"}]
  /\ todo \in [Clients -> SUBSET Mailbox]
  /\ box \in [Clients -> Mailbox \union {None}]
  /\ got \in [Clients -> Tokens \union {None}]
  /\ waited \in [Clients -> Nat]
  /\ pace \in [Clients -> Nat \ {0}]
  /\ demands \in 0 .. MaxDemands
  /\ mishaps \in 0 .. MaxMishaps

Unique ==
  \A i, j \in Ids :
    Exists(i) /\ Exists(j) /\ mailboxes[i].name = mailboxes[j].name => i = j

LEMMA TypeParts ==
  /\ TypeOK <=> Kinds /\ Unique
  /\ TypeOK' <=> Kinds' /\ Unique'
BY DEF TypeOK, Kinds, Unique

\* What a row is, and what a client reads of it.
LEMMA RowFacts ==
  ASSUME Kinds, NEW i \in Ids
  PROVE  /\ Exists(i) => /\ mailboxes[i] \in Rows
                         /\ mailboxes[i].name \in Names
                         /\ mailboxes[i].secret \in Secrets
                         /\ Loaded(i) \in Mailbox
         /\ ~ Exists(i) => mailboxes[i].name = None
BY DEF Kinds, Exists, Rows, NoRow, Loaded, Mailbox

\* A client that has a mailbox at hand.
LEMMA BoxFacts ==
  ASSUME Kinds, NEW c \in Clients, box[c] # None
  PROVE  /\ box[c] \in Mailbox
         /\ box[c].id \in Ids
         /\ box[c].name \in Names
         /\ box[c].secret \in Secrets
         /\ box[c] \in Records
<1>1. box[c] \in Mailbox
  BY DEF Kinds
<1>2. box[c] \in Records
  BY <1>1 DEF Records
<1>3. QED
  BY <1>1, <1>2 DEF Mailbox

\* The actions that only move one client along, apart from issuing and storing.
LEMMA LeaveKinds ==
  ASSUME Kinds, NEW c \in Clients, Leave(c)
  PROVE  /\ box' \in [Clients -> Mailbox \union {None}]
         /\ got' \in [Clients -> Tokens \union {None}]
         /\ job' \in [Clients -> {"none", "poll", "test", "authorize"}]
         /\ waited' \in [Clients -> Nat]
         /\ pace' \in [Clients -> Nat \ {0}]
         /\ pc' \in [Clients -> {"idle", "polling", "resolving", "received", "scanning",
                                 "signing", "asking"}]
BY MailboxesAssumption DEF Leave, Goto, Kinds

\* A token issued is a token, and goes with the id and the name at hand.
LEMMA IssueKinds ==
  ASSUME Kinds, NEW c \in Clients, box[c] # None, Issue(c, box[c].name)
  PROVE  /\ issued + 1 \in Tokens
         /\ issued' \in 0 .. MaxToken
         /\ origin' \in [Tokens -> (Ids \X Names) \union {None}]
         /\ accepted' \in SUBSET Tokens
<1>1. issued + 1 \in Tokens
  BY MailboxesAssumption DEF Issue, Kinds, Tokens
<1>2. <<box[c].id, box[c].name>> \in Ids \X Names
  BY BoxFacts
<1>3. QED
  BY <1>1, <1>2, MailboxesAssumption DEF Issue, Kinds, Tokens

-----------------------------------------------------------------------------

\* No pair of an id and a name is the absence of one.
LEMMA PairFacts == \A i \in Ids, n \in Names : <<i, n>> # None
BY MailboxesAssumption DEF Ids

\* An installation whose mailboxes have their first tokens.
LEMMA InitIInv == Init => IInv
<1> SUFFICES ASSUME Init
             PROVE  IInv
  OBVIOUS
<1>1. \A i \in Ids : /\ Exists(i) => /\ i \in Tokens
                                      /\ mailboxes[i] \in Rows
                                      /\ mailboxes[i].name \in Names
                                      /\ mailboxes[i].secret \in {i, Password}
                     /\ ~ Exists(i) => mailboxes[i].name = None
  <2> SUFFICES ASSUME NEW i \in Ids
               PROVE  /\ Exists(i) => /\ i \in Tokens
                                       /\ mailboxes[i] \in Rows
                                       /\ mailboxes[i].name \in Names
                                       /\ mailboxes[i].secret \in {i, Password}
                      /\ ~ Exists(i) => mailboxes[i].name = None
    OBVIOUS
  <2>1. CASE Exists(i)
    <3>1. mailboxes[i] \in [name : Names, secret : Secrets, enabled : {TRUE}]
      BY <2>1 DEF Init, Exists
    <3>2. mailboxes[i] \in Rows /\ mailboxes[i].name \in Names
      BY <3>1 DEF Rows
    <3>3. i \in Tokens /\ mailboxes[i].secret \in {i, Password}
      BY <2>1 DEF Init
    <3>4. QED
      BY <2>1, <3>2, <3>3
  <2>2. CASE ~ Exists(i)
    BY <2>2 DEF Exists, NoRow
  <2>3. QED
    BY <2>1, <2>2
<1>2. Kinds
  <2>1. origin \in [Tokens -> (Ids \X Names) \union {None}]
    BY <1>1 DEF Init
  <2>2. cursor \in [Ids -> Names \union {None}]
    BY <1>1 DEF Init
  <2>3. mailboxes \in [Ids -> Rows \union {NoRow}]
    BY DEF Init, Rows
  <2>4. issued \in 0 .. MaxToken /\ used \in SUBSET Ids /\ accepted \in SUBSET Tokens
    BY MailboxesAssumption DEF Init
  <2>5. QED
    BY <2>1, <2>2, <2>3, <2>4, MailboxesAssumption DEF Init, Kinds
<1>3. Unique
  BY <1>1 DEF Init, Unique, Exists
<1>4. AtHand /\ Fresh /\ WaitBounded
  BY DEF Init, AtHand, Fresh, WaitBounded
<1>5. \A m \in Records : \E i \in Ids : Exists(i) /\ m = Loaded(i)
  BY DEF Init, Records
<1>6. \A i \in Ids : Exists(i) => Loaded(i).id = i /\ Loaded(i).name = mailboxes[i].name
                                  /\ Loaded(i).secret = mailboxes[i].secret
  BY DEF Loaded
<1>7. Genuine
  <2>1. \A i \in Ids : Exists(i) => i <= issued /\ origin[i] = <<i, mailboxes[i].name>>
    BY <1>1 DEF Init, Ids
  <2>2. traded = {}
    BY DEF Init
  <2>3. QED
    <3> SUFFICES ASSUME NEW m \in Records, m.secret \in Tokens
                 PROVE  m.secret <= issued /\ \E n \in Names : origin[m.secret] = <<m.id, n>>
      BY <2>2 DEF Genuine, IssuedFor
    <3>1. PICK i \in Ids : Exists(i) /\ m = Loaded(i)
      BY <1>5
    <3>2. m.secret = i /\ m.id = i
      BY <1>1, <1>6, <3>1, MailboxesAssumption DEF Tokens
    <3>3. QED
      BY <1>1, <2>1, <3>1, <3>2
<1>8. Kept
  <2>1. \A i \in Ids : Exists(i) => i \in accepted \ traded
    BY <1>1 DEF Init
  <2>2. QED
    BY <1>1, <2>1, MailboxesAssumption DEF Kept, Tokens
<1>9. Owned
  <2>1. \A t \in Tokens : origin[t] # None => t \in Ids /\ Exists(t)
                                             /\ origin[t] = <<t, mailboxes[t].name>>
    BY DEF Init
  <2>2. \A i \in Ids : Exists(i) => BelongsTo(i, mailboxes[i].name)
    <3> SUFFICES ASSUME NEW i \in Ids, Exists(i)
                 PROVE  BelongsTo(i, mailboxes[i].name)
      OBVIOUS
    <3>1. cursor[i] = mailboxes[i].name
      BY DEF Init
    <3>2. \A m \in Records : m.id = i => m.name = mailboxes[i].name
      BY <1>5, <1>6
    <3>3. \A t \in Tokens, k \in Names : origin[t] = <<i, k>> => k = mailboxes[i].name
      <4> SUFFICES ASSUME NEW t \in Tokens, NEW k \in Names, origin[t] = <<i, k>>
                   PROVE  k = mailboxes[i].name
        OBVIOUS
      <4>1. <<t, mailboxes[t].name>> = <<i, k>>
        BY <2>1, PairFacts
      <4>2. QED
        BY <4>1
    <3>4. QED
      BY <3>1, <3>2, <3>3 DEF BelongsTo
  <2>3. \A i \in Ids : ~ Exists(i) => Untouched(i)
    <3> SUFFICES ASSUME NEW i \in Ids, ~ Exists(i)
                 PROVE  Untouched(i)
      OBVIOUS
    <3>1. cursor[i] = None
      BY <1>1 DEF Init
    <3>2. \A m \in Records : m.id # i
      BY <1>5, <1>6
    <3>3. \A t \in Tokens, n \in Names : origin[t] # <<i, n>>
      BY <2>1, PairFacts
    <3>4. QED
      BY <3>1, <3>2, <3>3 DEF Untouched
  <2>4. used = {i \in Ids : Exists(i)}
    BY DEF Init
  <2>5. QED
    BY <2>2, <2>3, <2>4, <1>1 DEF Owned
<1>10. QED
  BY <1>2, <1>3, <1>4, <1>7, <1>8, <1>9, TypeParts DEF IInv

\* Every step keeps the types, and what a client has at each place.
LEMMA TypeStep ==
  ASSUME TypeOK, AtHand, [Next]_vars
  PROVE  TypeOK' /\ AtHand'
<1>0. Kinds /\ Unique
  BY TypeParts
<1> SUFFICES Kinds' /\ Unique' /\ AtHand'
  BY TypeParts
<1> USE MailboxesAssumption
<1>1. ASSUME NEW c \in Clients, StartPoll(c)
      PROVE  Kinds' /\ Unique' /\ AtHand'
  <2>1. \A i \in Ids : Exists(i) => Loaded(i) \in Mailbox /\ Loaded(i) # None
    BY <1>0, RowFacts
  <2>2. Kinds'
    BY <1>0, <1>1, <2>1
      DEF StartPoll, Demand, EnabledIds, serverVars, histVars, boundVars, Goto, Kinds
  <2>3. Unique'
    BY <1>0, <1>1, <2>1 DEF StartPoll, Unique, Exists
  <2>4. AtHand'
    BY <1>0, <1>1, <2>1 DEF StartPoll, Goto, Kinds, AtHand
  <2>5. QED
    BY <2>2, <2>3, <2>4
<1>2. ASSUME NEW c \in Clients, StartTest(c)
      PROVE  Kinds' /\ Unique' /\ AtHand'
  <2>1. \A i \in Ids : Exists(i) => Loaded(i) \in Mailbox /\ Loaded(i) # None
    BY <1>0, RowFacts
  <2>2. Kinds'
    BY <1>0, <1>2, <2>1 DEF StartTest, Demand, serverVars, histVars, boundVars, Goto, Kinds
  <2>3. Unique'
    BY <1>0, <1>2, <2>1 DEF StartTest, Unique, Exists
  <2>4. AtHand'
    BY <1>0, <1>2, <2>1 DEF StartTest, Goto, Kinds, AtHand
  <2>5. QED
    BY <2>2, <2>3, <2>4
<1>3. ASSUME NEW c \in Clients, StartAuthorize(c)
      PROVE  Kinds' /\ Unique' /\ AtHand'
  <2>1. \A i \in Ids : Exists(i) => Loaded(i) \in Mailbox /\ Loaded(i) # None
    BY <1>0, RowFacts
  <2>2. Kinds'
    BY <1>0, <1>3, <2>1 DEF StartAuthorize, Demand, serverVars, histVars, boundVars, Goto, Kinds
  <2>3. Unique'
    BY <1>0, <1>3, <2>1 DEF StartAuthorize, Unique, Exists
  <2>4. AtHand'
    BY <1>0, <1>3, <2>1 DEF StartAuthorize, Goto, Kinds, AtHand
  <2>5. QED
    BY <2>2, <2>3, <2>4
<1>4. ASSUME NEW c \in Clients, NextMailbox(c)
      PROVE  Kinds' /\ Unique' /\ AtHand'
  <2>1. \A m \in todo[c] : m \in Mailbox /\ m # None
    BY <1>0 DEF Kinds
  <2>2. Kinds'
    BY <1>0, <1>4, <2>1 DEF NextMailbox, serverVars, histVars, boundVars, Goto, Kinds
  <2>3. Unique'
    BY <1>0, <1>4, <2>1 DEF NextMailbox, Unique, Exists
  <2>4. AtHand'
    BY <1>0, <1>4, <2>1 DEF NextMailbox, Goto, Kinds, AtHand
  <2>5. QED
    BY <2>2, <2>3, <2>4
<1>5. ASSUME NEW c \in Clients, EndPoll(c)
      PROVE  Kinds' /\ Unique' /\ AtHand'
  <2>1. Kinds'
    BY <1>0, <1>5 DEF EndPoll, serverVars, histVars, boundVars, Goto, Kinds
  <2>2. Unique'
    BY <1>0, <1>5 DEF EndPoll, Unique, Exists
  <2>3. AtHand'
    BY <1>0, <1>5 DEF EndPoll, Goto, Kinds, AtHand
  <2>4. QED
    BY <2>1, <2>2, <2>3
<1>6. ASSUME NEW c \in Clients, UsePassword(c)
      PROVE  Kinds' /\ Unique' /\ AtHand'
  <2>1. Kinds'
    BY <1>0, <1>6 DEF UsePassword, serverVars, histVars, boundVars, Goto, Kinds
  <2>2. Unique'
    BY <1>0, <1>6 DEF UsePassword, Unique, Exists
  <2>3. AtHand'
    BY <1>0, <1>6 DEF UsePassword, Goto, Kinds, AtHand
  <2>4. QED
    BY <2>1, <2>2, <2>3
<1>7. ASSUME NEW c \in Clients, Trade(c)
      PROVE  Kinds' /\ Unique' /\ AtHand'
  <2>1. box[c] # None
    BY <1>7 DEF Trade, AtHand
  <2>2. Issue(c, box[c].name) => /\ issued + 1 \in Tokens
                                 /\ issued' \in 0 .. MaxToken
                                 /\ origin' \in [Tokens -> (Ids \X Names) \union {None}]
                                 /\ accepted' \in SUBSET Tokens
    BY <1>0, <2>1, IssueKinds
  <2>3. Kinds'
    BY <1>0, <1>7, <2>1, <2>2 DEF Trade, Issue, serverVars, histVars, boundVars, Goto, Kinds
  <2>4. Unique'
    BY <1>0, <1>7, <2>1, <2>2 DEF Trade, Unique, Exists
  <2>5. AtHand'
    BY <1>0, <1>7, <2>1, <2>2 DEF Trade, Goto, Kinds, AtHand
  <2>6. QED
    BY <2>3, <2>4, <2>5
<1>8. ASSUME NEW c \in Clients, Fail(c)
      PROVE  Kinds' /\ Unique' /\ AtHand'
  <2>1. Kinds'
    BY <1>0, <1>8, LeaveKinds DEF Fail, serverVars, histVars, boundVars, Goto, Kinds
  <2>2. Unique'
    BY <1>0, <1>8 DEF Fail, Unique, Exists
  <2>3. AtHand'
    BY <1>0, <1>8 DEF Fail, Leave, Goto, Kinds, AtHand
  <2>4. QED
    BY <2>1, <2>2, <2>3
<1>9. ASSUME NEW c \in Clients, LoseAnswer(c)
      PROVE  Kinds' /\ Unique' /\ AtHand'
  <2>1. box[c] # None
    BY <1>9 DEF LoseAnswer, AtHand
  <2>2. /\ issued + 1 \in Tokens
        /\ issued' \in 0 .. MaxToken
        /\ origin' \in [Tokens -> (Ids \X Names) \union {None}]
        /\ accepted' \in SUBSET Tokens
    BY <1>0, <1>9, <2>1, IssueKinds DEF LoseAnswer
  <2>3. Kinds'
    BY <1>0, <1>9, LeaveKinds, <2>1, <2>2
      DEF LoseAnswer, Mishap, serverVars, histVars, boundVars, Goto, Kinds
  <2>4. Unique'
    BY <1>0, <1>9, <2>1, <2>2 DEF LoseAnswer, Unique, Exists
  <2>5. AtHand'
    BY <1>0, <1>9, <2>1, <2>2 DEF LoseAnswer, Leave, Goto, Kinds, AtHand
  <2>6. QED
    BY <2>3, <2>4, <2>5
<1>10. ASSUME NEW c \in Clients, StoreToken(c)
      PROVE  Kinds' /\ Unique' /\ AtHand'
  <2>1. box[c].id \in Ids /\ got[c] \in Tokens
    BY <1>0, BoxFacts, <1>10 DEF StoreToken, AtHand, Kinds
  <2>2. mailboxes' \in [Ids -> Rows \union {NoRow}]
    BY <1>0, <2>1, RowFacts, <1>10 DEF StoreToken, Kinds, Rows, Secrets
  <2>3. Kinds'
    BY <1>0, <1>10, LeaveKinds, <2>1, <2>2
      DEF StoreToken, serverVars, histVars, boundVars, Goto, Kinds
  <2>4. Unique'
    BY <1>0, <1>10, <2>1, <2>2 DEF StoreToken, Unique, Exists
  <2>5. AtHand'
    BY <1>0, <1>10, <2>1, <2>2 DEF StoreToken, Leave, Goto, Kinds, AtHand
  <2>6. QED
    BY <2>3, <2>4, <2>5
<1>11. ASSUME NEW c \in Clients, Scan(c)
      PROVE  Kinds' /\ Unique' /\ AtHand'
  <2>1. box[c].id \in Ids /\ box[c].name \in Names
    BY <1>0, BoxFacts, <1>11 DEF Scan, AtHand
  <2>2. Kinds'
    BY <1>0, <1>11, LeaveKinds, <2>1
      DEF Scan, Saved, serverVars, histVars, boundVars, Goto, Kinds
  <2>3. Unique'
    BY <1>0, <1>11, <2>1 DEF Scan, Unique, Exists
  <2>4. AtHand'
    BY <1>0, <1>11, <2>1 DEF Scan, Leave, Goto, Kinds, AtHand
  <2>5. QED
    BY <2>2, <2>3, <2>4
<1>12. ASSUME NEW c \in Clients, Wait(c)
      PROVE  Kinds' /\ Unique' /\ AtHand'
  <2>1. Kinds'
    BY <1>0, <1>12 DEF Wait, serverVars, histVars, boundVars, Goto, Kinds
  <2>2. Unique'
    BY <1>0, <1>12 DEF Wait, Unique, Exists
  <2>3. AtHand'
    BY <1>0, <1>12 DEF Wait, Goto, Kinds, AtHand
  <2>4. QED
    BY <2>1, <2>2, <2>3
<1>13. ASSUME NEW c \in Clients, NotYet(c)
      PROVE  Kinds' /\ Unique' /\ AtHand'
  <2>1. Kinds'
    BY <1>0, <1>13 DEF NotYet, serverVars, histVars, boundVars, Goto, Kinds
  <2>2. Unique'
    BY <1>0, <1>13 DEF NotYet, Unique, Exists
  <2>3. AtHand'
    BY <1>0, <1>13 DEF NotYet, Goto, Kinds, AtHand
  <2>4. QED
    BY <2>1, <2>2, <2>3
<1>14. ASSUME NEW c \in Clients, Approved(c)
      PROVE  Kinds' /\ Unique' /\ AtHand'
  <2>1. box[c] # None
    BY <1>14 DEF Approved, AtHand
  <2>2. /\ issued + 1 \in Tokens
        /\ issued' \in 0 .. MaxToken
        /\ origin' \in [Tokens -> (Ids \X Names) \union {None}]
        /\ accepted' \in SUBSET Tokens
    BY <1>0, <1>14, <2>1, IssueKinds DEF Approved
  <2>3. Kinds'
    BY <1>0, <1>14, <2>1, <2>2 DEF Approved, Issue, serverVars, histVars, boundVars, Goto, Kinds
  <2>4. Unique'
    BY <1>0, <1>14, <2>1, <2>2 DEF Approved, Unique, Exists
  <2>5. AtHand'
    BY <1>0, <1>14, <2>1, <2>2 DEF Approved, Goto, Kinds, AtHand
  <2>6. QED
    BY <2>3, <2>4, <2>5
<1>15. ASSUME NEW c \in Clients, GiveUp(c)
      PROVE  Kinds' /\ Unique' /\ AtHand'
  <2>1. Kinds'
    BY <1>0, <1>15, LeaveKinds DEF GiveUp, serverVars, histVars, boundVars, Goto, Kinds
  <2>2. Unique'
    BY <1>0, <1>15 DEF GiveUp, Unique, Exists
  <2>3. AtHand'
    BY <1>0, <1>15 DEF GiveUp, Leave, Goto, Kinds, AtHand
  <2>4. QED
    BY <2>1, <2>2, <2>3
<1>16. ASSUME NEW c \in Clients, Crash(c)
      PROVE  Kinds' /\ Unique' /\ AtHand'
  <2>1. Kinds'
    BY <1>0, <1>16 DEF Crash, Mishap, serverVars, histVars, boundVars, Goto, Kinds
  <2>2. Unique'
    BY <1>0, <1>16 DEF Crash, Unique, Exists
  <2>3. AtHand'
    BY <1>0, <1>16 DEF Crash, Goto, Kinds, AtHand
  <2>4. QED
    BY <2>1, <2>2, <2>3
<1>17. ASSUME NEW n \in Names, Add(n)
      PROVE  Kinds' /\ Unique' /\ AtHand'
  <2>1. Kinds'
    BY <1>0, <1>17 DEF Add, Demand, clientVars, serverVars, Kinds, Rows, Secrets
  <2>2. Unique'
    BY <1>0, <1>17 DEF Add, Unique, Exists, NoRow
  <2>3. AtHand'
    BY <1>0, <1>17 DEF Add, clientVars, AtHand
  <2>4. QED
    BY <2>1, <2>2, <2>3
<1>18. ASSUME NEW i \in Ids, Remove(i)
      PROVE  Kinds' /\ Unique' /\ AtHand'
  <2>1. Kinds'
    BY <1>0, <1>18 DEF Remove, Demand, clientVars, serverVars, histVars, Kinds
  <2>2. Unique'
    BY <1>0, <1>18 DEF Remove, Unique, Exists, Kinds
  <2>3. AtHand'
    BY <1>0, <1>18 DEF Remove, clientVars, AtHand
  <2>4. QED
    BY <2>1, <2>2, <2>3
<1>19. ASSUME NEW i \in Ids, NEW b \in BOOLEAN, SetEnabled(i, b)
      PROVE  Kinds' /\ Unique' /\ AtHand'
  <2>1. Kinds'
    BY <1>0, <1>19, RowFacts
      DEF SetEnabled, Demand, clientVars, serverVars, histVars, Kinds, Rows
  <2>2. Unique'
    BY <1>0, <1>19 DEF SetEnabled, Unique, Exists, Kinds
  <2>3. AtHand'
    BY <1>0, <1>19 DEF SetEnabled, clientVars, AtHand
  <2>4. QED
    BY <2>1, <2>2, <2>3
<1>20. ASSUME NEW t \in Tokens, Invalidate(t)
      PROVE  Kinds' /\ Unique' /\ AtHand'
  <2>1. Kinds'
    BY <1>0, <1>20 DEF Invalidate, clientVars, histVars, boundVars, Kinds
  <2>2. Unique'
    BY <1>0, <1>20 DEF Invalidate, Unique, Exists
  <2>3. AtHand'
    BY <1>0, <1>20 DEF Invalidate, clientVars, AtHand
  <2>4. QED
    BY <2>1, <2>2, <2>3
<1>21. ASSUME Reset
      PROVE  Kinds' /\ Unique' /\ AtHand'
  <2>1. Kinds'
    BY <1>0, <1>21 DEF Reset, Demand, clientVars, serverVars, histVars, Kinds
  <2>2. Unique'
    BY <1>0, <1>21 DEF Reset, Unique, Exists
  <2>3. AtHand'
    BY <1>0, <1>21 DEF Reset, clientVars, AtHand
  <2>4. QED
    BY <2>1, <2>2, <2>3
<1>22. ASSUME UNCHANGED vars
      PROVE  Kinds' /\ Unique' /\ AtHand'
  <2>1. Kinds'
    BY <1>0, <1>22 DEF vars, clientVars, serverVars, histVars, boundVars, Kinds
  <2>2. Unique'
    BY <1>0, <1>22 DEF vars, Unique, Exists
  <2>3. AtHand'
    BY <1>0, <1>22 DEF vars, clientVars, AtHand
  <2>4. QED
    BY <2>1, <2>2, <2>3
<1>23. QED
  BY <1>1, <1>2, <1>3, <1>4, <1>5, <1>6, <1>7, <1>8, <1>9, <1>10, <1>11, <1>12,
     <1>13, <1>14, <1>15, <1>16, <1>17, <1>18, <1>19, <1>20, <1>21, <1>22
     DEF Next, ClientStep

-----------------------------------------------------------------------------
(* What a step does to the records.                                        *)

\* Rows and what clients hold are records.
LEMMA OldRecords ==
  ASSUME Kinds
  PROVE  /\ \A i \in Ids : Exists(i) => Loaded(i) \in Records
         /\ \A d \in Clients : todo[d] \subseteq Records
         /\ \A d \in Clients : box[d] # None => box[d] \in Records
<1>1. \A i \in Ids : Exists(i) => Loaded(i) \in Mailbox
  BY RowFacts
<1>2. \A d \in Clients : todo[d] \subseteq Mailbox /\ (box[d] # None => box[d] \in Mailbox)
  BY DEF Kinds
<1>3. QED
  BY <1>1, <1>2 DEF Records

\* Clients pass records on; new ones come from rows that change.
LEMMA NoNewRecords ==
  ASSUME \A i \in Ids : Exists(i)' => Exists(i) /\ Loaded(i)' = Loaded(i),
         \A d \in Clients : todo'[d] \subseteq Records,
         \A d \in Clients : box'[d] # None => box'[d] \in Records,
         Kinds
  PROVE  Records' \subseteq Records
<1> SUFFICES ASSUME NEW m \in Records'
             PROVE  m \in Records
  OBVIOUS
<1>1. CASE \E i \in Ids : Exists(i)' /\ m = Loaded(i)'
  BY <1>1, OldRecords
<1>2. CASE \E d \in Clients : m \in todo'[d] \/ (m = box'[d] /\ m # None)
  BY <1>2
<1>3. QED
  BY <1>1, <1>2 DEF Records

\* Steps that issue, trade and store nothing.
LEMMA QuietStep ==
  ASSUME Genuine, Fresh, Kept,
         UNCHANGED serverVars, lost \subseteq lost',
         Records' \subseteq Records,
         \A i \in Ids : Exists(i)' => Exists(i) /\ mailboxes'[i].secret = mailboxes[i].secret,
         \A d \in Clients : pc'[d] = "received" => /\ pc[d] = "received"
                                                   /\ got'[d] = got[d]
                                                   /\ box'[d] = box[d]
                                                   /\ job'[d] = job[d],
         \A d \in Clients : pc[d] = "received" /\ box[d].secret \in Tokens =>
                              \/ box[d].secret \in lost'
                              \/ /\ pc'[d] = "received"
                                 /\ box'[d] = box[d]
                                 /\ job'[d] = job[d]
  PROVE  Genuine' /\ Fresh' /\ Kept'
<1>1. Genuine'
  BY DEF Genuine, IssuedFor, serverVars
<1>2. Fresh'
  BY DEF Fresh, IssuedFor, serverVars
<1>3. Kept'
  <2> SUFFICES ASSUME NEW i \in Ids, Exists(i)', mailboxes'[i].secret \in Tokens
               PROVE  \/ mailboxes'[i].secret \in accepted' \ traded'
                      \/ InHands(i, mailboxes[i].secret)'
                      \/ mailboxes'[i].secret \in lost'
    BY DEF Kept
  <2> DEFINE t == mailboxes[i].secret
  <2>1. mailboxes'[i].secret = t /\ Exists(i) /\ t \in Tokens
    OBVIOUS
  <2>2. t \in accepted \ traded \/ InHands(i, t) \/ t \in lost
    BY <2>1 DEF Kept
  <2>3. CASE InHands(i, t)
    <3>1. PICK d \in Clients : /\ pc[d] = "received"
                               /\ job[d] # "authorize"
                               /\ box[d].id = i
                               /\ box[d].secret = t
      BY <2>3 DEF InHands
    <3>2. t \in lost' \/ InHands(i, t)'
      BY <3>1, <2>1 DEF InHands
    <3>3. QED
      BY <3>2, <2>1
  <2>4. CASE t \in accepted \ traded \/ t \in lost
    BY <2>4, <2>1 DEF serverVars
  <2>5. QED
    BY <2>2, <2>3, <2>4
<1>4. QED
  BY <1>1, <1>2, <1>3

\* Ids keep to their mailboxes as long as no position and no token is new.
LEMMA QuietOwned ==
  ASSUME Owned, UNCHANGED <<cursor, origin, used, reused>>, Records' \subseteq Records
  PROVE  Owned'
<1>1. \A i \in Ids : Untouched(i) => Untouched(i)'
  BY DEF Untouched
<1>2. \A i \in Ids, n \in Names : BelongsTo(i, n) => BelongsTo(i, n)'
  BY DEF BelongsTo
<1>3. QED
  BY <1>1, <1>2 DEF Owned

\* A step of one client that issues a token, which the client then has or has
\* lost.
LEMMA IssueStep ==
  ASSUME Kinds, Genuine, Fresh, Kept, Owned,
         NEW c \in Clients, box[c] # None, Issue(c, box[c].name),
         UNCHANGED <<mailboxes, cursor, used, reused>>,
         lost \subseteq lost', Records' \subseteq Records,
         pc[c] # "received",
         pc'[c] = "received" => got'[c] = issued + 1 /\ box'[c] = box[c],
         \A d \in Clients \ {c} : /\ pc'[d] = pc[d]
                                  /\ got'[d] = got[d]
                                  /\ box'[d] = box[d]
                                  /\ job'[d] = job[d],
         \/ traded' = traded
         \/ /\ traded' = traded \union {box[c].secret}
            /\ box[c].secret \in Tokens
            /\ box[c].secret \in lost' \/ (pc'[c] = "received" /\ job'[c] # "authorize")
  PROVE  Genuine' /\ Fresh' /\ Kept' /\ Owned'
<1>1. /\ issued + 1 \in Tokens /\ issued \in Nat
      /\ issued' = issued + 1
      /\ accepted' = accepted \union {issued + 1}
      /\ origin'[issued + 1] = <<box[c].id, box[c].name>>
      /\ \A t \in Tokens : t # issued + 1 => origin'[t] = origin[t]
  <2>1. issued + 1 \in Tokens /\ issued \in Nat
    BY IssueKinds DEF Kinds
  <2>2. origin \in [Tokens -> (Ids \X Names) \union {None}]
    BY DEF Kinds
  <2>3. QED
    BY <2>1, <2>2 DEF Issue
<1>2. box[c] \in Records /\ box[c].id \in Ids /\ box[c].name \in Names
  BY BoxFacts
<1>3. \A i, t : IssuedFor(i, t) => IssuedFor(i, t)'
  BY <1>1 DEF IssuedFor, Tokens
<1>4. \A t \in traded' : t <= issued
  BY <1>2 DEF Genuine, IssuedFor
<1>5. Genuine'
  <2>1. \A m \in Records' : IssuedFor(m.id, m.secret)'
    BY <1>3 DEF Genuine
  <2>2. \A t \in traded' : t <= issued'
    <3>1. \A t \in traded' : t \in Nat
      <4>1. \A t \in Tokens : t \in Nat
        BY DEF Tokens
      <4>2. traded' \subseteq Tokens
        BY DEF Kinds
      <4>3. QED
        BY <4>1, <4>2
    <3>2. QED
      BY <3>1, <1>1, <1>4
  <2>3. QED
    BY <2>1, <2>2 DEF Genuine
<1>6. Fresh'
  <2> SUFFICES ASSUME NEW d \in Clients, pc'[d] = "received"
               PROVE  /\ IssuedFor(box[d].id, got[d])'
                      /\ got'[d] \in accepted' \ traded'
                      /\ \A m \in Records' : m.secret # got'[d]
                      /\ \A e \in Clients \ {d} : pc'[e] = "received" => got'[e] # got'[d]
    BY DEF Fresh
  <2>1. \A m \in Records : m.secret # issued + 1
    BY <1>1 DEF Genuine, IssuedFor
  <2>2. \A e \in Clients : pc[e] = "received" => got[e] # issued + 1
    <3>1. \A e \in Clients : pc[e] = "received" => got[e] \in Tokens /\ got[e] <= issued
      BY DEF Fresh, IssuedFor, Kinds
    <3>2. QED
      BY <3>1, <1>1
  <2>3. CASE d = c
    <3>1. IssuedFor(box[c].id, got[c])'
      BY <1>1, <1>2, <2>3 DEF IssuedFor
    <3>2. issued + 1 \notin traded'
      BY <1>1, <1>4
    <3>3. QED
      BY <2>1, <2>2, <2>3, <3>1, <3>2, <1>1
  <2>4. CASE d # c
    <3>1. pc[d] = "received" /\ got'[d] = got[d] /\ box'[d] = box[d]
      BY <2>4
    <3>2. IssuedFor(box[d].id, got[d])'
      BY <1>3, <3>1 DEF Fresh
    <3>3. got[d] \in accepted' \ traded'
      BY <1>1, <1>2, <3>1 DEF Fresh
    <3>4. \A e \in Clients \ {d} : pc'[e] = "received" => got'[e] # got[d]
      BY <2>2, <3>1 DEF Fresh
    <3>5. QED
      BY <3>1, <3>2, <3>3, <3>4 DEF Fresh
  <2>5. QED
    BY <2>3, <2>4
<1>7. Kept'
  <2> SUFFICES ASSUME NEW i \in Ids, Exists(i), mailboxes[i].secret \in Tokens
               PROVE  \/ mailboxes[i].secret \in accepted' \ traded'
                      \/ InHands(i, mailboxes[i].secret)'
                      \/ mailboxes[i].secret \in lost'
    BY DEF Kept, Exists
  <2> DEFINE t == mailboxes[i].secret
  <2>1. t \in accepted \ traded \/ InHands(i, t) \/ t \in lost
    BY DEF Kept
  <2>2. CASE InHands(i, t)
    <3>1. InHands(i, t)'
      BY <2>2 DEF InHands
    <3>2. QED
      BY <3>1
  <2>3. CASE t \in accepted \ traded /\ t \in traded'
    <3>1. t = box[c].secret
      BY <2>3
    <3>2. i = box[c].id
      <4>1. IssuedFor(i, t) /\ IssuedFor(box[c].id, t)
        BY <1>2, <3>1, OldRecords DEF Genuine, Loaded
      <4>2. \E n, k \in Names : <<i, n>> = <<box[c].id, k>>
        BY <4>1 DEF IssuedFor
      <4>3. QED
        BY <4>2
    <3>3. t \in lost' \/ InHands(i, t)'
      BY <2>3, <3>1, <3>2 DEF InHands
    <3>4. QED
      BY <3>3
  <2>4. CASE t \in accepted \ traded' \/ t \in lost
    BY <2>4, <1>1
  <2>5. QED
    BY <2>1, <2>2, <2>3, <2>4
<1>8. Owned'
  <2>1. ASSUME NEW i \in Ids, Untouched(i)
        PROVE  Untouched(i)'
    <3>1. box[c].id # i
      BY <1>2, <2>1 DEF Untouched
    <3>2. \A n \in Names : <<box[c].id, box[c].name>> # <<i, n>>
      BY <3>1
    <3>3. \A t \in Tokens, n \in Names : origin'[t] # <<i, n>>
      BY <1>1, <2>1, <3>2 DEF Untouched
    <3>4. QED
      BY <2>1, <3>3 DEF Untouched
  <2>2. ASSUME NEW i \in Ids, NEW n \in Names, BelongsTo(i, n)
        PROVE  BelongsTo(i, n)'
    <3>1. \A k \in Names : <<box[c].id, box[c].name>> = <<i, k>> => k = n
      BY <1>2, <2>2 DEF BelongsTo
    <3>2. \A t \in Tokens, k \in Names : origin'[t] = <<i, k>> => k = n
      BY <1>1, <2>2, <3>1 DEF BelongsTo
    <3>3. QED
      BY <2>2, <3>2 DEF BelongsTo
  <2>3. QED
    BY <2>1, <2>2 DEF Owned
<1>9. QED
  BY <1>5, <1>6, <1>7, <1>8

\* A step of one client that issues and stores nothing.
LEMMA ClientQuiet ==
  ASSUME Kinds, Genuine, Fresh, Kept, Owned,
         NEW c \in Clients,
         UNCHANGED <<mailboxes, serverVars, used, reused>>, lost \subseteq lost',
         pc'[c] # "received",
         pc[c] = "received" /\ box[c].secret \in Tokens => box[c].secret \in lost',
         todo'[c] \subseteq Records,
         box'[c] # None => box'[c] \in Records,
         \A d \in Clients \ {c} : /\ pc'[d] = pc[d]
                                  /\ got'[d] = got[d]
                                  /\ box'[d] = box[d]
                                  /\ job'[d] = job[d]
                                  /\ todo'[d] = todo[d]
  PROVE  /\ Genuine' /\ Fresh' /\ Kept'
         /\ Records' \subseteq Records
         /\ UNCHANGED cursor => Owned'
<1>1. \A i \in Ids : /\ Exists(i)' => Exists(i) /\ Loaded(i)' = Loaded(i)
                     /\ mailboxes'[i].secret = mailboxes[i].secret
  BY DEF Exists, Loaded
<1>2. Records' \subseteq Records
  <2>1. \A d \in Clients : todo'[d] \subseteq Records
    BY OldRecords
  <2>2. \A d \in Clients : box'[d] # None => box'[d] \in Records
    BY OldRecords
  <2>3. QED
    BY <1>1, <2>1, <2>2, NoNewRecords
<1>3. Genuine' /\ Fresh' /\ Kept'
  <2>1. \A d \in Clients : pc'[d] = "received" => /\ pc[d] = "received"
                                                  /\ got'[d] = got[d]
                                                  /\ box'[d] = box[d]
                                                  /\ job'[d] = job[d]
    OBVIOUS
  <2>2. \A d \in Clients : pc[d] = "received" /\ box[d].secret \in Tokens =>
                              \/ box[d].secret \in lost'
                              \/ /\ pc'[d] = "received"
                                 /\ box'[d] = box[d]
                                 /\ job'[d] = job[d]
    OBVIOUS
  <2>3. QED
    BY <1>1, <1>2, <2>1, <2>2, QuietStep
<1>4. UNCHANGED cursor => Owned'
  BY <1>2, QuietOwned DEF serverVars
<1>5. QED
  BY <1>2, <1>3, <1>4

\* A step on the rows or the positions alone.
LEMMA RowsQuiet ==
  ASSUME Kinds, Genuine, Fresh, Kept,
         UNCHANGED <<serverVars, lost, clientVars>>,
         \A i \in Ids : Exists(i)' => Exists(i) /\ Loaded(i)' = Loaded(i)
  PROVE  /\ Genuine' /\ Fresh' /\ Kept'
         /\ Records' \subseteq Records
<1>1. Records' \subseteq Records
  BY OldRecords, NoNewRecords DEF clientVars
<1>2. \A i \in Ids : Exists(i)' => Exists(i) /\ mailboxes'[i].secret = mailboxes[i].secret
  BY DEF Loaded
<1>3. QED
  BY <1>1, <1>2, QuietStep DEF clientVars

OnRecord == Genuine /\ Fresh /\ Kept /\ Owned

\* A new row says nothing of a token.
LEMMA AddStep ==
  ASSUME Kinds, Genuine, Fresh, Kept, Owned,
         NEW n \in Names, Add(n)
  PROVE  Genuine' /\ Fresh' /\ Kept' /\ Owned'
<1>1. PICK i \in Ids :
        /\ IsNewId(i)
        /\ mailboxes' = [mailboxes EXCEPT
                           ![i] = [name |-> n, enabled |-> TRUE,
                                   secret |-> IF n \in Microsoft THEN None ELSE Password]]
        /\ used' = used \union {i}
        /\ reused' = IF i \in used THEN reused \union {i} ELSE reused
  BY DEF Add
<1>2. UNCHANGED <<cursor, serverVars, lost, clientVars>>
  BY DEF Add
<1> DEFINE new == [id |-> i, name |-> n,
                   secret |-> IF n \in Microsoft THEN None ELSE Password]
<1>3. /\ Loaded(i)' = new /\ new.secret \notin Tokens /\ new.id = i /\ new.name = n
      /\ \A j \in Ids \ {i} : mailboxes'[j] = mailboxes[j]
      /\ mailboxes'[i].secret \notin Tokens
  BY <1>1, MailboxesAssumption DEF Loaded, Kinds, Tokens
<1>4. \A m \in Records' : m \in Records \/ m = new
  <2> SUFFICES ASSUME NEW m \in Records'
               PROVE  m \in Records \/ m = new
    OBVIOUS
  <2>1. CASE \E j \in Ids : Exists(j)' /\ m = Loaded(j)'
    <3>1. PICK j \in Ids : Exists(j)' /\ m = Loaded(j)'
      BY <2>1
    <3>2. CASE j = i
      BY <1>3, <3>1, <3>2
    <3>3. CASE j # i
      <4>1. Exists(j) /\ Loaded(j)' = Loaded(j)
        BY <1>3, <3>1, <3>3 DEF Exists, Loaded
      <4>2. QED
        BY <3>1, <4>1, OldRecords
    <3>4. QED
      BY <3>2, <3>3
  <2>2. CASE \E d \in Clients : m \in todo'[d] \/ (m = box'[d] /\ m # None)
    BY <1>2, <2>2, OldRecords DEF clientVars
  <2>3. QED
    BY <2>1, <2>2 DEF Records
<1>5. Genuine'
  BY <1>2, <1>3, <1>4 DEF Genuine, IssuedFor, serverVars
<1>6. Fresh'
  <2>1. \A c \in Clients : pc[c] = "received" => got[c] # new.secret
    BY <1>3 DEF Fresh, Kinds
  <2>2. QED
    BY <1>2, <1>4, <2>1 DEF Fresh, IssuedFor, serverVars, clientVars
<1>7. Kept'
  <2>1. \A j \in Ids : Exists(j)' /\ mailboxes'[j].secret \in Tokens =>
                         Exists(j) /\ mailboxes'[j].secret = mailboxes[j].secret
    BY <1>3 DEF Exists
  <2>2. QED
    BY <1>2, <2>1 DEF Kept, InHands, serverVars, clientVars
<1>8. Owned'
  <2>1. \A j \in Ids \ {i} : Untouched(j) => Untouched(j)'
    BY <1>2, <1>3, <1>4 DEF Untouched, serverVars
  <2>2. \A j \in Ids \ {i}, k \in Names : BelongsTo(j, k) => BelongsTo(j, k)'
    BY <1>2, <1>3, <1>4 DEF BelongsTo, serverVars
  <2>3. Untouched(i) => BelongsTo(i, n)'
    <3> SUFFICES ASSUME Untouched(i)
                 PROVE  BelongsTo(i, n)'
      OBVIOUS
    <3>1. cursor'[i] = None
      BY <1>2 DEF Untouched
    <3>2. \A m \in Records' : m.id = i => m.name = n
      BY <1>3, <1>4 DEF Untouched
    <3>3. \A t \in Tokens, k \in Names : origin'[t] # <<i, k>>
      BY <1>2 DEF Untouched, serverVars
    <3>4. QED
      BY <3>1, <3>2, <3>3 DEF BelongsTo
  <2>4. QED
    BY <1>1, <2>1, <2>2, <2>3 DEF Owned
<1>9. QED
  BY <1>5, <1>6, <1>7, <1>8

\* What is written is a token nothing else says anything of, and it is written
\* to the id it was issued for.
LEMMA StoreStep ==
  ASSUME Kinds, AtHand, Genuine, Fresh, Kept, Owned,
         NEW c \in Clients, StoreToken(c)
  PROVE  Genuine' /\ Fresh' /\ Kept' /\ Owned'
<1>0. PICK i, t : i = box[c].id /\ t = got[c]
  OBVIOUS
<1> DEFINE new == [id |-> i, name |-> mailboxes[i].name, secret |-> t]
<1>1. /\ pc[c] = "received" /\ box[c] # None /\ i \in Ids /\ t \in Tokens
      /\ box[c] \in Records
  BY <1>0, BoxFacts DEF StoreToken, AtHand, Kinds
<1>2. /\ UNCHANGED <<cursor, serverVars, histVars, todo>>
      /\ pc'[c] # "received"
      /\ \A d \in Clients \ {c} : /\ pc'[d] = pc[d]
                                  /\ got'[d] = got[d]
                                  /\ box'[d] = box[d]
                                  /\ job'[d] = job[d]
      /\ box'[c] # None => box'[c] = box[c]
  BY DEF StoreToken, Leave, Goto, Kinds
<1>3. /\ \A j \in Ids \ {i} : mailboxes'[j] = mailboxes[j]
      /\ Exists(i)' => /\ Exists(i)
                       /\ mailboxes'[i].secret = t
                       /\ mailboxes'[i].name = mailboxes[i].name
  <2>1. CASE Exists(i)
    <3>1. mailboxes[i] \in Rows
      BY <1>1, <2>1, RowFacts
    <3>2. mailboxes' = [mailboxes EXCEPT ![i].secret = t]
      BY <1>0, <2>1 DEF StoreToken
    <3>3. QED
      BY <1>1, <2>1, <3>1, <3>2 DEF Kinds, Rows
  <2>2. CASE ~ Exists(i)
    <3>1. mailboxes' = mailboxes
      BY <1>0, <2>2 DEF StoreToken
    <3>2. QED
      BY <2>2, <3>1 DEF Exists
  <2>3. QED
    BY <2>1, <2>2
<1>4. /\ IssuedFor(i, t)
      /\ t \in accepted \ traded
      /\ \A m \in Records : m.secret # t
      /\ \A d \in Clients \ {c} : pc[d] = "received" => got[d] # t
  BY <1>0, <1>1 DEF Fresh
<1>5. \A m \in Records' : m \in Records \/ (m = new /\ Exists(i))
  <2> SUFFICES ASSUME NEW m \in Records'
               PROVE  m \in Records \/ (m = new /\ Exists(i))
    OBVIOUS
  <2>1. CASE \E j \in Ids : Exists(j)' /\ m = Loaded(j)'
    <3>1. PICK j \in Ids : Exists(j)' /\ m = Loaded(j)'
      BY <2>1
    <3>2. CASE j = i
      <4>1. /\ Exists(i)
            /\ mailboxes'[i].secret = t
            /\ mailboxes'[i].name = mailboxes[i].name
        BY <1>3, <3>1, <3>2
      <4>2. m = [id |-> i, name |-> mailboxes'[i].name, secret |-> mailboxes'[i].secret]
        BY <3>1, <3>2 DEF Loaded
      <4>3. m = new
        BY <4>1, <4>2
      <4>4. QED
        BY <4>1, <4>3
    <3>3. CASE j # i
      <4>1. Exists(j) /\ Loaded(j)' = Loaded(j)
        BY <1>3, <3>1, <3>3 DEF Exists, Loaded
      <4>2. QED
        BY <3>1, <4>1, OldRecords
    <3>4. QED
      BY <3>2, <3>3
  <2>2. CASE \E d \in Clients : m \in todo'[d] \/ (m = box'[d] /\ m # None)
    BY <1>2, <2>2, OldRecords
  <2>3. QED
    BY <2>1, <2>2 DEF Records
<1>6. Genuine'
  <2>1. \A m \in Records' : IssuedFor(m.id, m.secret)
    BY <1>4, <1>5 DEF Genuine
  <2>2. QED
    BY <1>2, <2>1 DEF Genuine, IssuedFor, serverVars
<1>7. Fresh'
  <2> SUFFICES ASSUME NEW d \in Clients, pc'[d] = "received"
               PROVE  /\ IssuedFor(box[d].id, got[d])'
                      /\ got'[d] \in accepted' \ traded'
                      /\ \A m \in Records' : m.secret # got'[d]
                      /\ \A e \in Clients \ {d} : pc'[e] = "received" => got'[e] # got'[d]
    BY DEF Fresh
  <2>1. d # c /\ pc[d] = "received" /\ got'[d] = got[d] /\ box'[d] = box[d]
    BY <1>2
  <2>2. /\ IssuedFor(box[d].id, got[d])
        /\ got[d] \in accepted \ traded
        /\ \A m \in Records : m.secret # got[d]
        /\ \A e \in Clients \ {d} : pc[e] = "received" => got[e] # got[d]
    BY <2>1 DEF Fresh
  <2>3. IssuedFor(box[d].id, got[d])'
    BY <1>2, <2>1, <2>2 DEF IssuedFor, serverVars
  <2>4. \A m \in Records' : m.secret # got[d]
    BY <1>4, <1>5, <2>1, <2>2
  <2>5. \A e \in Clients \ {d} : pc'[e] = "received" => got'[e] # got[d]
    BY <1>2, <2>2
  <2>6. QED
    BY <1>2, <2>1, <2>2, <2>3, <2>4, <2>5 DEF serverVars
<1>8. Kept'
  <2> SUFFICES ASSUME NEW j \in Ids, Exists(j)', mailboxes'[j].secret \in Tokens
               PROVE  \/ mailboxes'[j].secret \in accepted' \ traded'
                      \/ InHands(j, mailboxes[j].secret)'
                      \/ mailboxes'[j].secret \in lost'
    BY DEF Kept
  <2>1. CASE j = i
    <3>1. mailboxes'[j].secret = t
      BY <1>3, <2>1
    <3>2. accepted' = accepted /\ traded' = traded
      BY <1>2 DEF serverVars
    <3>3. QED
      BY <1>4, <3>1, <3>2
  <2>2. CASE j # i
    <3>1. Exists(j) /\ mailboxes'[j] = mailboxes[j]
      BY <1>3, <2>2 DEF Exists
    <3>2. InHands(j, mailboxes[j].secret) => InHands(j, mailboxes[j].secret)'
      BY <1>0, <1>2, <2>2, <3>1 DEF InHands
    <3>3. QED
      BY <1>2, <3>1, <3>2 DEF Kept, serverVars, histVars
  <2>3. QED
    BY <2>1, <2>2
<1>9. Owned'
  <2>1. \A m \in Records' : m.id \in Ids => \E k \in Records : k.id = m.id /\ k.name = m.name
    <3>1. Exists(i) => /\ Loaded(i) \in Records
                       /\ Loaded(i).id = new.id
                       /\ Loaded(i).name = new.name
      BY <1>1, OldRecords DEF Loaded
    <3>2. QED
      BY <1>5, <3>1
  <2>2. \A j \in Ids : Untouched(j) => Untouched(j)'
    BY <1>2, <2>1 DEF Untouched, serverVars
  <2>3. \A j \in Ids, k \in Names : BelongsTo(j, k) => BelongsTo(j, k)'
    BY <1>2, <2>1 DEF BelongsTo, serverVars
  <2>4. QED
    BY <1>2, <2>2, <2>3 DEF Owned, histVars
<1>10. QED
  BY <1>6, <1>7, <1>8, <1>9

\* Every step keeps what the records say.
LEMMA RecordStep ==
  ASSUME IInv, [Next]_vars
  PROVE  OnRecord'
<1>0. Kinds /\ AtHand /\ Genuine /\ Fresh /\ Kept /\ Owned
  BY TypeParts DEF IInv
<1>1. ASSUME NEW c \in Clients, StartPoll(c)
      PROVE  OnRecord'
  <2>1. /\ UNCHANGED <<mailboxes, cursor, serverVars, used, reused>> /\ lost \subseteq lost'
        /\ pc'[c] # "received"
        /\ pc[c] = "received" /\ box[c].secret \in Tokens => box[c].secret \in lost'
        /\ \A d \in Clients \ {c} : /\ pc'[d] = pc[d]
                                    /\ got'[d] = got[d]
                                    /\ box'[d] = box[d]
                                    /\ job'[d] = job[d]
                                    /\ todo'[d] = todo[d]
    BY <1>1, <1>0 DEF StartPoll, EnabledIds, Goto, serverVars, histVars, Kinds
  <2>2. todo'[c] \subseteq Records /\ (box'[c] # None => box'[c] \in Records)
    BY <1>1, <1>0, OldRecords DEF StartPoll, EnabledIds, Goto, Kinds
  <2>3. QED
    BY <1>0, <2>1, <2>2, ClientQuiet DEF OnRecord
<1>2. ASSUME NEW c \in Clients, StartTest(c)
      PROVE  OnRecord'
  <2>1. /\ UNCHANGED <<mailboxes, cursor, serverVars, used, reused>> /\ lost \subseteq lost'
        /\ pc'[c] # "received"
        /\ pc[c] = "received" /\ box[c].secret \in Tokens => box[c].secret \in lost'
        /\ \A d \in Clients \ {c} : /\ pc'[d] = pc[d]
                                    /\ got'[d] = got[d]
                                    /\ box'[d] = box[d]
                                    /\ job'[d] = job[d]
                                    /\ todo'[d] = todo[d]
    BY <1>2, <1>0 DEF StartTest, Goto, serverVars, histVars, Kinds
  <2>2. todo'[c] \subseteq Records /\ (box'[c] # None => box'[c] \in Records)
    BY <1>2, <1>0, OldRecords DEF StartTest, Goto, Kinds
  <2>3. QED
    BY <1>0, <2>1, <2>2, ClientQuiet DEF OnRecord
<1>3. ASSUME NEW c \in Clients, StartAuthorize(c)
      PROVE  OnRecord'
  <2>1. /\ UNCHANGED <<mailboxes, cursor, serverVars, used, reused>> /\ lost \subseteq lost'
        /\ pc'[c] # "received"
        /\ pc[c] = "received" /\ box[c].secret \in Tokens => box[c].secret \in lost'
        /\ \A d \in Clients \ {c} : /\ pc'[d] = pc[d]
                                    /\ got'[d] = got[d]
                                    /\ box'[d] = box[d]
                                    /\ job'[d] = job[d]
                                    /\ todo'[d] = todo[d]
    BY <1>3, <1>0 DEF StartAuthorize, Goto, serverVars, histVars, Kinds
  <2>2. todo'[c] \subseteq Records /\ (box'[c] # None => box'[c] \in Records)
    BY <1>3, <1>0, OldRecords DEF StartAuthorize, Goto, Kinds
  <2>3. QED
    BY <1>0, <2>1, <2>2, ClientQuiet DEF OnRecord
<1>4. ASSUME NEW c \in Clients, NextMailbox(c)
      PROVE  OnRecord'
  <2>1. /\ UNCHANGED <<mailboxes, cursor, serverVars, used, reused>> /\ lost \subseteq lost'
        /\ pc'[c] # "received"
        /\ pc[c] = "received" /\ box[c].secret \in Tokens => box[c].secret \in lost'
        /\ \A d \in Clients \ {c} : /\ pc'[d] = pc[d]
                                    /\ got'[d] = got[d]
                                    /\ box'[d] = box[d]
                                    /\ job'[d] = job[d]
                                    /\ todo'[d] = todo[d]
    BY <1>4, <1>0 DEF NextMailbox, Goto, serverVars, histVars, Kinds
  <2>2. todo'[c] \subseteq Records /\ (box'[c] # None => box'[c] \in Records)
    BY <1>4, <1>0, OldRecords DEF NextMailbox, Goto, Kinds
  <2>3. QED
    BY <1>0, <2>1, <2>2, ClientQuiet DEF OnRecord
<1>5. ASSUME NEW c \in Clients, EndPoll(c)
      PROVE  OnRecord'
  <2>1. /\ UNCHANGED <<mailboxes, cursor, serverVars, used, reused>> /\ lost \subseteq lost'
        /\ pc'[c] # "received"
        /\ pc[c] = "received" /\ box[c].secret \in Tokens => box[c].secret \in lost'
        /\ \A d \in Clients \ {c} : /\ pc'[d] = pc[d]
                                    /\ got'[d] = got[d]
                                    /\ box'[d] = box[d]
                                    /\ job'[d] = job[d]
                                    /\ todo'[d] = todo[d]
    BY <1>5, <1>0 DEF EndPoll, Goto, serverVars, histVars, Kinds
  <2>2. todo'[c] \subseteq Records /\ (box'[c] # None => box'[c] \in Records)
    BY <1>5, <1>0, OldRecords DEF EndPoll, Goto, Kinds
  <2>3. QED
    BY <1>0, <2>1, <2>2, ClientQuiet DEF OnRecord
<1>6. ASSUME NEW c \in Clients, UsePassword(c)
      PROVE  OnRecord'
  <2>1. /\ UNCHANGED <<mailboxes, cursor, serverVars, used, reused>> /\ lost \subseteq lost'
        /\ pc'[c] # "received"
        /\ pc[c] = "received" /\ box[c].secret \in Tokens => box[c].secret \in lost'
        /\ \A d \in Clients \ {c} : /\ pc'[d] = pc[d]
                                    /\ got'[d] = got[d]
                                    /\ box'[d] = box[d]
                                    /\ job'[d] = job[d]
                                    /\ todo'[d] = todo[d]
    BY <1>6, <1>0 DEF UsePassword, Goto, serverVars, histVars, Kinds
  <2>2. todo'[c] \subseteq Records /\ (box'[c] # None => box'[c] \in Records)
    BY <1>6, <1>0, OldRecords DEF UsePassword, Goto, Kinds
  <2>3. QED
    BY <1>0, <2>1, <2>2, ClientQuiet DEF OnRecord
<1>7. ASSUME NEW c \in Clients, Fail(c)
      PROVE  OnRecord'
  <2>1. /\ UNCHANGED <<mailboxes, cursor, serverVars, used, reused>> /\ lost \subseteq lost'
        /\ pc'[c] # "received"
        /\ pc[c] = "received" /\ box[c].secret \in Tokens => box[c].secret \in lost'
        /\ \A d \in Clients \ {c} : /\ pc'[d] = pc[d]
                                    /\ got'[d] = got[d]
                                    /\ box'[d] = box[d]
                                    /\ job'[d] = job[d]
                                    /\ todo'[d] = todo[d]
    BY <1>7, <1>0 DEF Fail, Leave, Goto, serverVars, histVars, Kinds
  <2>2. todo'[c] \subseteq Records /\ (box'[c] # None => box'[c] \in Records)
    BY <1>7, <1>0, OldRecords DEF Fail, Leave, Goto, Kinds
  <2>3. QED
    BY <1>0, <2>1, <2>2, ClientQuiet DEF OnRecord
<1>8. ASSUME NEW c \in Clients, Wait(c)
      PROVE  OnRecord'
  <2>1. /\ UNCHANGED <<mailboxes, cursor, serverVars, used, reused>> /\ lost \subseteq lost'
        /\ pc'[c] # "received"
        /\ pc[c] = "received" /\ box[c].secret \in Tokens => box[c].secret \in lost'
        /\ \A d \in Clients \ {c} : /\ pc'[d] = pc[d]
                                    /\ got'[d] = got[d]
                                    /\ box'[d] = box[d]
                                    /\ job'[d] = job[d]
                                    /\ todo'[d] = todo[d]
    BY <1>8, <1>0 DEF Wait, Goto, serverVars, histVars, Kinds
  <2>2. todo'[c] \subseteq Records /\ (box'[c] # None => box'[c] \in Records)
    BY <1>8, <1>0, OldRecords DEF Wait, Goto, Kinds
  <2>3. QED
    BY <1>0, <2>1, <2>2, ClientQuiet DEF OnRecord
<1>9. ASSUME NEW c \in Clients, NotYet(c)
      PROVE  OnRecord'
  <2>1. /\ UNCHANGED <<mailboxes, cursor, serverVars, used, reused>> /\ lost \subseteq lost'
        /\ pc'[c] # "received"
        /\ pc[c] = "received" /\ box[c].secret \in Tokens => box[c].secret \in lost'
        /\ \A d \in Clients \ {c} : /\ pc'[d] = pc[d]
                                    /\ got'[d] = got[d]
                                    /\ box'[d] = box[d]
                                    /\ job'[d] = job[d]
                                    /\ todo'[d] = todo[d]
    BY <1>9, <1>0 DEF NotYet, Goto, serverVars, histVars, Kinds
  <2>2. todo'[c] \subseteq Records /\ (box'[c] # None => box'[c] \in Records)
    BY <1>9, <1>0, OldRecords DEF NotYet, Goto, Kinds
  <2>3. QED
    BY <1>0, <2>1, <2>2, ClientQuiet DEF OnRecord
<1>10. ASSUME NEW c \in Clients, GiveUp(c)
      PROVE  OnRecord'
  <2>1. /\ UNCHANGED <<mailboxes, cursor, serverVars, used, reused>> /\ lost \subseteq lost'
        /\ pc'[c] # "received"
        /\ pc[c] = "received" /\ box[c].secret \in Tokens => box[c].secret \in lost'
        /\ \A d \in Clients \ {c} : /\ pc'[d] = pc[d]
                                    /\ got'[d] = got[d]
                                    /\ box'[d] = box[d]
                                    /\ job'[d] = job[d]
                                    /\ todo'[d] = todo[d]
    BY <1>10, <1>0 DEF GiveUp, Leave, Goto, serverVars, histVars, Kinds
  <2>2. todo'[c] \subseteq Records /\ (box'[c] # None => box'[c] \in Records)
    BY <1>10, <1>0, OldRecords DEF GiveUp, Leave, Goto, Kinds
  <2>3. QED
    BY <1>0, <2>1, <2>2, ClientQuiet DEF OnRecord
<1>11. ASSUME NEW c \in Clients, Crash(c)
      PROVE  OnRecord'
  <2>1. /\ UNCHANGED <<mailboxes, cursor, serverVars, used, reused>> /\ lost \subseteq lost'
        /\ pc'[c] # "received"
        /\ pc[c] = "received" /\ box[c].secret \in Tokens => box[c].secret \in lost'
        /\ \A d \in Clients \ {c} : /\ pc'[d] = pc[d]
                                    /\ got'[d] = got[d]
                                    /\ box'[d] = box[d]
                                    /\ job'[d] = job[d]
                                    /\ todo'[d] = todo[d]
    BY <1>11, <1>0 DEF Crash, Mishap, Goto, serverVars, histVars, Kinds
  <2>2. todo'[c] \subseteq Records /\ (box'[c] # None => box'[c] \in Records)
    BY <1>11, <1>0, OldRecords DEF Crash, Mishap, Goto, Kinds
  <2>3. QED
    BY <1>0, <2>1, <2>2, ClientQuiet DEF OnRecord
<1>12. ASSUME NEW c \in Clients, Trade(c)
       PROVE  OnRecord'
  <2>1. /\ box[c] # None /\ job[c] # "authorize" /\ pc[c] = "resolving"
        /\ UNCHANGED <<mailboxes, cursor, lost, used, reused, job, todo, box>>
        /\ \A d \in Clients \ {c} : pc'[d] = pc[d] /\ got'[d] = got[d]
        /\ box[c].secret \in Tokens
    BY <1>0, <1>12 DEF Trade, AtHand, histVars, Goto, Kinds
  <2>2. Records' \subseteq Records
    BY <1>0, <2>1, OldRecords, NoNewRecords DEF Exists, Loaded
  <2>3. CASE Issue(c, box[c].name) /\ traded' = traded \union {box[c].secret}
             /\ got' = [got EXCEPT ![c] = issued + 1] /\ Goto(c, "received")
    <3>1. /\ pc'[c] = "received" /\ got'[c] = issued + 1
          /\ box'[c] = box[c] /\ job'[c] # "authorize"
      BY <1>0, <2>1, <2>3 DEF Goto, Kinds
    <3>2. QED
      BY <1>0, <2>1, <2>2, <2>3, <3>1, IssueStep DEF OnRecord
  <2>4. CASE Goto(c, "scanning") /\ UNCHANGED <<serverVars, got>>
    <3>1. pc'[c] # "received" /\ pc[c] # "received"
      BY <1>0, <2>1, <2>4 DEF Goto, Kinds
    <3>2. todo'[c] \subseteq Records /\ (box'[c] # None => box'[c] \in Records)
      BY <1>0, <2>1, OldRecords
    <3>3. QED
      BY <1>0, <2>1, <2>4, <3>1, <3>2, ClientQuiet DEF OnRecord
  <2>5. QED
    BY <1>12, <2>3, <2>4 DEF Trade
<1>13. ASSUME NEW c \in Clients, LoseAnswer(c)
       PROVE  OnRecord'
  <2>1. /\ box[c] # None /\ pc[c] # "received" /\ pc'[c] # "received"
        /\ UNCHANGED <<mailboxes, cursor, used, reused, todo>>
        /\ \A d \in Clients \ {c} : /\ pc'[d] = pc[d]
                                    /\ got'[d] = got[d]
                                    /\ box'[d] = box[d]
                                    /\ job'[d] = job[d]
        /\ box[c].secret \in Tokens
    BY <1>0, <1>13 DEF LoseAnswer, Leave, AtHand, Goto, Kinds
  <2>2. \A d \in Clients : box'[d] # None => box'[d] \in Records
    BY <1>0, <1>13, OldRecords DEF LoseAnswer, Leave, Kinds
  <2>3. Records' \subseteq Records
    BY <1>0, <2>1, <2>2, OldRecords, NoNewRecords DEF Exists, Loaded
  <2>4. /\ Issue(c, box[c].name) /\ lost' = lost \union {box[c].secret}
        /\ traded' = traded \union {box[c].secret}
    BY <1>13 DEF LoseAnswer
  <2>5. QED
    BY <1>0, <2>1, <2>3, <2>4, IssueStep DEF OnRecord
<1>14. ASSUME NEW c \in Clients, Approved(c)
       PROVE  OnRecord'
  <2>1. /\ box[c] # None /\ pc[c] # "received" /\ pc'[c] = "received"
        /\ got'[c] = issued + 1 /\ box'[c] = box[c]
        /\ UNCHANGED <<mailboxes, cursor, traded, lost, used, reused, todo, box, job>>
        /\ \A d \in Clients \ {c} : pc'[d] = pc[d] /\ got'[d] = got[d]
    BY <1>0, <1>14 DEF Approved, AtHand, histVars, Goto, Kinds
  <2>2. Records' \subseteq Records
    BY <1>0, <2>1, OldRecords, NoNewRecords DEF Exists, Loaded
  <2>3. Issue(c, box[c].name)
    BY <1>14 DEF Approved
  <2>4. QED
    BY <1>0, <2>1, <2>2, <2>3, IssueStep DEF OnRecord
<1>15. ASSUME NEW c \in Clients, Scan(c)
       PROVE  OnRecord'
  <2>1. /\ box[c] # None /\ pc[c] # "received" /\ pc'[c] # "received"
        /\ UNCHANGED <<mailboxes, serverVars, lost, used, reused, todo>>
        /\ box'[c] = None
        /\ \A d \in Clients \ {c} : /\ pc'[d] = pc[d]
                                    /\ got'[d] = got[d]
                                    /\ box'[d] = box[d]
                                    /\ job'[d] = job[d]
    BY <1>0, <1>15 DEF Scan, Leave, AtHand, histVars, Goto, Kinds
  <2>2. todo'[c] \subseteq Records
    BY <1>0, <2>1, OldRecords
  <2>3. Genuine' /\ Fresh' /\ Kept' /\ Records' \subseteq Records
    BY <1>0, <2>1, <2>2, ClientQuiet
  <2>4. Owned'
    <3>1. box[c] \in Records /\ box[c].id \in Ids
      BY <1>0, <2>1, BoxFacts
    <3>2. \A i \in Ids : cursor'[i] = cursor[i] \/ (i = box[c].id /\ cursor'[i] = box[c].name)
      BY <1>0, <1>15 DEF Scan, Saved, Kinds
    <3>3. \A i \in Ids : Untouched(i) => Untouched(i)'
      BY <2>1, <2>3, <3>1, <3>2 DEF Untouched, serverVars
    <3>4. \A i \in Ids, n \in Names : BelongsTo(i, n) => BelongsTo(i, n)'
      BY <2>1, <2>3, <3>1, <3>2 DEF BelongsTo, serverVars
    <3>5. QED
      BY <1>0, <2>1, <3>3, <3>4 DEF Owned
  <2>5. QED
    BY <2>3, <2>4 DEF OnRecord
<1>16. ASSUME Reset
       PROVE  OnRecord'
  <2>1. Genuine' /\ Fresh' /\ Kept' /\ Records' \subseteq Records
    BY <1>0, <1>16, RowsQuiet DEF Reset, histVars, Exists, Loaded
  <2>2. /\ \A i \in Ids : cursor'[i] = None
        /\ UNCHANGED <<origin, used, reused>>
    BY <1>16 DEF Reset, histVars, serverVars
  <2>3. \A i \in Ids : Untouched(i) => Untouched(i)'
    BY <2>1, <2>2 DEF Untouched
  <2>4. \A i \in Ids, n \in Names : BelongsTo(i, n) => BelongsTo(i, n)'
    BY <2>1, <2>2 DEF BelongsTo
  <2>5. QED
    BY <1>0, <2>1, <2>2, <2>3, <2>4 DEF Owned, OnRecord
<1>17. ASSUME NEW i \in Ids, Remove(i)
       PROVE  OnRecord'
  <2>1. \A j \in Ids : Exists(j)' => Exists(j) /\ Loaded(j)' = Loaded(j)
    BY <1>0, <1>17 DEF Remove, Exists, Loaded, Kinds
  <2>2. UNCHANGED <<serverVars, histVars, clientVars, cursor>>
    BY <1>17 DEF Remove
  <2>3. Genuine' /\ Fresh' /\ Kept' /\ Records' \subseteq Records
    BY <1>0, <2>1, <2>2, RowsQuiet DEF histVars
  <2>4. Owned'
    BY <1>0, <2>2, <2>3, QuietOwned DEF histVars, serverVars
  <2>5. QED
    BY <2>3, <2>4 DEF OnRecord
<1>18. ASSUME NEW i \in Ids, NEW b \in BOOLEAN, SetEnabled(i, b)
       PROVE  OnRecord'
  <2>1. \A j \in Ids : Exists(j)' => Exists(j) /\ Loaded(j)' = Loaded(j)
    BY <1>0, <1>18, RowFacts DEF SetEnabled, Exists, Loaded, Kinds, Rows
  <2>2. UNCHANGED <<serverVars, histVars, clientVars, cursor>>
    BY <1>18 DEF SetEnabled
  <2>3. Genuine' /\ Fresh' /\ Kept' /\ Records' \subseteq Records
    BY <1>0, <2>1, <2>2, RowsQuiet DEF histVars
  <2>4. Owned'
    BY <1>0, <2>2, <2>3, QuietOwned DEF histVars, serverVars
  <2>5. QED
    BY <2>3, <2>4 DEF OnRecord
<1>19. ASSUME NEW t \in Tokens, Invalidate(t)
       PROVE  OnRecord'
  <2>1. /\ UNCHANGED <<mailboxes, cursor, issued, origin, traded, histVars, clientVars>>
        /\ accepted' = accepted \ {t} /\ t \in traded
    BY <1>19 DEF Invalidate
  <2>2. Records' \subseteq Records
    BY <1>0, <2>1, OldRecords, NoNewRecords DEF Exists, Loaded, clientVars
  <2>3. Genuine'
    BY <1>0, <2>1, <2>2 DEF Genuine, IssuedFor
  <2>4. Fresh'
    BY <1>0, <2>1, <2>2 DEF Fresh, IssuedFor, clientVars
  <2>5. Kept'
    BY <1>0, <2>1 DEF Kept, InHands, Exists, clientVars, histVars
  <2>6. Owned'
    BY <1>0, <2>1, <2>2, QuietOwned DEF histVars
  <2>7. QED
    BY <2>3, <2>4, <2>5, <2>6 DEF OnRecord
<1>20. ASSUME UNCHANGED vars
       PROVE  OnRecord'
  <2>1. Genuine' /\ Fresh' /\ Kept' /\ Records' \subseteq Records
    BY <1>0, <1>20, RowsQuiet DEF vars, histVars, Exists, Loaded
  <2>2. QED
    BY <1>0, <1>20, <2>1, QuietOwned DEF vars, histVars, serverVars, OnRecord
<1>21. ASSUME NEW n \in Names, Add(n)
       PROVE  OnRecord'
  BY <1>0, <1>21, AddStep DEF OnRecord
<1>22. ASSUME NEW c \in Clients, StoreToken(c)
       PROVE  OnRecord'
  BY <1>0, <1>22, StoreStep DEF OnRecord
<1>23. QED
  BY <1>1, <1>2, <1>3, <1>4, <1>5, <1>6, <1>7, <1>8, <1>9, <1>10, <1>11, <1>12, <1>13,
     <1>14, <1>15, <1>16, <1>17, <1>18, <1>19, <1>20, <1>21, <1>22 DEF IInv, Next, ClientStep

\* Only a sleep brings a client to the next question; who is asking has its wait
\* unchanged.
LEMMA WaitStep ==
  ASSUME Kinds, WaitBounded, [Next]_vars
  PROVE  WaitBounded'
<1> DEFINE Still == \A d \in Clients : pc'[d] = "asking" =>
                      pc[d] = "asking" /\ waited'[d] = waited[d] /\ pace'[d] = pace[d]
<1>1. ASSUME NEW c \in Clients, Wait(c)
      PROVE  WaitBounded'
  <2> SUFFICES ASSUME NEW d \in Clients, pc'[d] = "asking"
               PROVE  waited'[d] < Deadline + pace'[d]
    BY DEF WaitBounded
  <2>1. CASE d = c
    <3>1. waited[c] < Deadline /\ waited'[c] = waited[c] + pace[c] /\ pace'[c] = pace[c]
      BY <1>1 DEF Wait, Kinds
    <3>2. waited[c] \in Nat /\ pace[c] \in Nat /\ Deadline \in Nat
      BY MailboxesAssumption DEF Kinds
    <3>3. QED
      BY <2>1, <3>1, <3>2
  <2>2. CASE d # c
    BY <1>1, <2>2 DEF Wait, Goto, Kinds, WaitBounded
  <2>3. QED
    BY <2>1, <2>2
<1>2. Still => WaitBounded'
  BY DEF WaitBounded
<1>3. ASSUME NEW c \in Clients, StartPoll(c)
      PROVE  Still
  BY <1>3 DEF StartPoll, Goto, Kinds
<1>4. ASSUME NEW c \in Clients, StartTest(c)
      PROVE  Still
  BY <1>4 DEF StartTest, Goto, Kinds
<1>5. ASSUME NEW c \in Clients, StartAuthorize(c)
      PROVE  Still
  BY <1>5 DEF StartAuthorize, Goto, Kinds
<1>6. ASSUME NEW c \in Clients, NextMailbox(c)
      PROVE  Still
  BY <1>6 DEF NextMailbox, Goto, Kinds
<1>7. ASSUME NEW c \in Clients, EndPoll(c)
      PROVE  Still
  BY <1>7 DEF EndPoll, Goto, Kinds
<1>8. ASSUME NEW c \in Clients, UsePassword(c)
      PROVE  Still
  BY <1>8 DEF UsePassword, Goto, Kinds
<1>9. ASSUME NEW c \in Clients, Trade(c)
      PROVE  Still
  BY <1>9 DEF Trade, Goto, Kinds
<1>10. ASSUME NEW c \in Clients, Fail(c)
      PROVE  Still
  BY <1>10 DEF Fail, Leave, Goto, Kinds
<1>11. ASSUME NEW c \in Clients, LoseAnswer(c)
      PROVE  Still
  BY <1>11 DEF LoseAnswer, Leave, Goto, Kinds
<1>12. ASSUME NEW c \in Clients, StoreToken(c)
      PROVE  Still
  BY <1>12 DEF StoreToken, Leave, Goto, Kinds
<1>13. ASSUME NEW c \in Clients, Scan(c)
      PROVE  Still
  BY <1>13 DEF Scan, Leave, Goto, Kinds
<1>14. ASSUME NEW c \in Clients, NotYet(c)
      PROVE  Still
  BY <1>14 DEF NotYet, Goto, Kinds
<1>15. ASSUME NEW c \in Clients, Approved(c)
      PROVE  Still
  BY <1>15 DEF Approved, Goto, Kinds
<1>16. ASSUME NEW c \in Clients, GiveUp(c)
      PROVE  Still
  BY <1>16 DEF GiveUp, Leave, Goto, Kinds
<1>17. ASSUME NEW c \in Clients, Crash(c)
      PROVE  Still
  BY <1>17 DEF Crash, Goto, Kinds
<1>18. ASSUME NEW m \in Names, Add(m)
      PROVE  Still
  BY <1>18 DEF Add, clientVars, Kinds
<1>19. ASSUME NEW i \in Ids, Remove(i) \/ \E b \in BOOLEAN : SetEnabled(i, b)
      PROVE  Still
  BY <1>19 DEF Remove, SetEnabled, clientVars, Kinds
<1>20. ASSUME (\E t \in Tokens : Invalidate(t)) \/ Reset \/ UNCHANGED vars
      PROVE  Still
  BY <1>20 DEF Invalidate, Reset, vars, clientVars, Kinds
<1>21. QED
  BY <1>1, <1>2, <1>3, <1>4, <1>5, <1>6, <1>7, <1>8, <1>9, <1>10,
     <1>11, <1>12, <1>13, <1>14, <1>15, <1>16, <1>17, <1>18, <1>19, <1>20 DEF Next, ClientStep

\* Every step keeps the invariant.
LEMMA NextIInv ==
  ASSUME IInv, [Next]_vars
  PROVE  IInv'
<1>1. TypeOK' /\ AtHand'
  BY TypeStep DEF IInv
<1>2. OnRecord'
  BY RecordStep
<1>3. WaitBounded'
  BY TypeParts, WaitStep DEF IInv
<1>4. QED
  BY <1>1, <1>2, <1>3 DEF IInv, OnRecord

\* The tokens on file live, as long as those without a successor do.
LEMMA KeptSurvives ==
  ASSUME Kept
  PROVE  TokenSurvives
BY DEF Kept, TokenSurvives

\* What belongs to one mailbox everywhere does so in its row.
LEMMA OwnedOwnState ==
  ASSUME Kinds, Genuine, Owned
  PROVE  OwnState
<1> SUFFICES ASSUME NEW i \in Ids \ reused, Exists(i)
             PROVE  /\ cursor[i] \in {None, mailboxes[i].name}
                    /\ mailboxes[i].secret \in Tokens =>
                         origin[mailboxes[i].secret] = <<i, mailboxes[i].name>>
  BY DEF OwnState
<1>1. /\ Loaded(i) \in Records
      /\ Loaded(i).id = i
      /\ Loaded(i).name = mailboxes[i].name
      /\ Loaded(i).secret = mailboxes[i].secret
  BY OldRecords DEF Loaded
<1>2. PICK n \in Names : BelongsTo(i, n)
  BY <1>1 DEF Owned, Untouched
<1>3. mailboxes[i].name = n
  BY <1>1, <1>2 DEF BelongsTo
<1>4. ASSUME mailboxes[i].secret \in Tokens
      PROVE  origin[mailboxes[i].secret] = <<i, n>>
  <2>1. IssuedFor(i, mailboxes[i].secret)
    BY <1>1 DEF Genuine
  <2>2. QED
    BY <1>2, <1>4, <2>1 DEF IssuedFor, BelongsTo
<1>5. QED
  BY <1>2, <1>3, <1>4 DEF BelongsTo

\* The invariant holds in every state.
THEOREM Invariance == Spec => []IInv
<1>1. Init => IInv
  BY InitIInv
<1>2. IInv /\ [Next]_vars => IInv'
  BY NextIInv
<1>3. QED
  BY <1>1, <1>2, PTL DEF Spec

\* The variables keep their types and the names stay unique, however many
\* clients and mailboxes there are.
THEOREM TypeCorrect == Spec => []TypeOK
<1>1. IInv => TypeOK
  BY DEF IInv
<1>2. QED
  BY <1>1, Invariance, PTL

\* Rotated tokens are never dropped (resolve_credentials, update_mailbox_secret):
\* the token on file is accepted, or its successor is in a client's hands or
\* was lost with an answer or a process, whatever overlaps.
THEOREM AlwaysTokenSurvives == Spec => []TokenSurvives
<1>1. IInv => TokenSurvives
  BY KeptSurvives DEF IInv
<1>2. QED
  BY <1>1, Invariance, PTL

\* No mailbox ever has the position or the token of another one, unless its row
\* id was given out before (remove_mailbox leaves the position).
THEOREM AlwaysOwnState == Spec => []OwnState
<1>1. IInv => OwnState
  BY TypeParts, OwnedOwnState DEF IInv
<1>2. QED
  BY <1>1, Invariance, PTL

\* poll_device_code never asks later than one interval after the deadline, for
\* every deadline and interval and however often it is slowed down.
THEOREM AlwaysWaitBounded == Spec => []WaitBounded
<1>1. IInv => WaitBounded
  BY DEF IInv
<1>2. QED
  BY <1>1, Invariance, PTL
=============================================================================
