---------------------------- MODULE SourcesProofs ----------------------------
(***************************************************************************)
(* Proofs about Sources, for any feeds, contents, limits, registry and     *)
(* number of pollers, and any number of crashes, removals and resets.      *)
(***************************************************************************)
EXTENDS Sources, TLAPS

AtFeed(p) == pc[p].at \in {"asked", "answered"}

At(p, f, n) == AtFeed(p) /\ pc[p].feed = f /\ pc[p].n = n

\* No position, saved or in the hands of a poller, is past what is published.
PositionsInRange ==
  /\ \A f \in Feeds : published[f] <= Len(Content[f])
  /\ \A f \in Feeds : position[f] <= published[f]
  /\ \A p \in Pollers : AtFeed(p) => pc[p].n <= published[pc[p].feed]

\* The positions a poller works with claim no more than the saved ones may.
InFlightCovered ==
  \A p \in Pollers, f \in Feeds, n \in Nat :
    At(p, f, n) => \A i \in Covered(f, n) : Accounted(f, i)

Inv == TypeOK /\ PositionsInRange /\ NothingSkipped /\ InFlightCovered

-----------------------------------------------------------------------------
(* The sets the module is built from                                       *)

\* A poller at a feed has that feed and a position.
LEMMA PCForms ==
  ASSUME NEW q \in PCs
  PROVE  /\ q.at \in {"idle", "reading", "storing", "asked", "answered"}
         /\ q.at \in {"asked", "answered"} => q.feed \in Feeds /\ q.n \in Nat
BY DEF PCs

\* What a feed publishes is a finite sequence of sets of codes.
LEMMA ContentType ==
  ASSUME NEW f \in Feeds
  PROVE  /\ Content[f] \in Seq(SUBSET Codes)
         /\ Len(Content[f]) \in Nat
         /\ Items(f) = 1 .. Len(Content[f])
         /\ \A i \in Items(f) : Content[f][i] \in SUBSET Codes
BY SourcesAssumption DEF Items

\* A feed delivers codes under a scope a code can be stored with.
LEMMA CodesOfType ==
  ASSUME NEW f \in Feeds, NEW I \in SUBSET Items(f)
  PROVE  CodesOf(f, I) \in SUBSET Discovered
<1>1. (UNION {Content[f][i] : i \in I}) \in SUBSET Codes
  BY ContentType
<1>2. ScopeOf(f) \in Scopes \ {Absent}
  BY SourcesAssumption, RepoAssumption DEF ScopeOf, Scopes
<1>3. QED
  BY <1>1, <1>2 DEF CodesOf, Discovered

\* Every index a source can have is one of the registry.
LEMMA RegistryType ==
  /\ Len(Registry) \in Nat
  /\ DOMAIN Registry = 1 .. Len(Registry)
  /\ \A n \in 1 .. Len(Registry) : Registry[n] \in SUBSET Feeds
BY SourcesAssumption

\* What a feed answers is published, and there is no item that is not.
LEMMA NewType ==
  ASSUME TypeOK, PositionsInRange, NEW f \in Feeds, NEW n \in Nat
  PROVE  /\ New(f, n) \in SUBSET Items(f)
         /\ Reached(f, n) \in Nat
         /\ Reached(f, n) <= published[f]
<1>1. published[f] \in Nat /\ published[f] <= Len(Content[f]) /\ Limit \in Nat
  BY SourcesAssumption DEF TypeOK, PositionsInRange
<1>2. New(f, n) \in SUBSET Items(f)
  BY <1>1, ContentType DEF New
<1>3. Reached(f, n) \in Nat /\ Reached(f, n) <= published[f]
  BY <1>1 DEF Reached
<1>4. QED
  BY <1>2, <1>3

-----------------------------------------------------------------------------
(* Type correctness                                                        *)

\* The parts of TypeOK that speak of the pollers.
PollTypeOK ==
  /\ pc \in [Pollers -> PCs]
  /\ source \in [Pollers -> 0 .. Len(Registry)]
  /\ left \in [Pollers -> SUBSET Feeds]
  /\ found \in [Pollers -> SUBSET Discovered]
  /\ \A p \in Pollers : pc[p].at = "idle" <=> source[p] = 0
  /\ \A p \in Pollers : pc[p].at = "idle" => left[p] = {} /\ found[p] = {}

\* Entering a source, or ending the poll, leaves a poller in good order.
LEMMA EnterType ==
  ASSUME PollTypeOK, NEW p \in Pollers, NEW n \in Nat \ {0}, Enter(p, n),
         found' \in [Pollers -> SUBSET Discovered],
         \A q \in Pollers \ {p} : found'[q] = found[q],
         n > Len(Registry) \/ found[p] = {} => found'[p] = {}
  PROVE  PollTypeOK'
<1>1. CASE n <= Len(Registry)
  <2>1. n \in 1 .. Len(Registry) /\ FeedsOf(n) \in SUBSET Feeds
    BY <1>1, RegistryType DEF FeedsOf
  <2>2. [at |-> "reading"] \in PCs
    BY DEF PCs
  <2>3. /\ pc' = [pc EXCEPT ![p] = [at |-> "reading"]]
        /\ source' = [source EXCEPT ![p] = n]
        /\ left' = [left EXCEPT ![p] = FeedsOf(n)]
    BY <1>1 DEF Enter, Goto
  <2>4. QED
    BY <2>1, <2>2, <2>3 DEF PollTypeOK
<1>2. CASE ~(n <= Len(Registry))
  <2>1. [at |-> "idle"] \in PCs
    BY DEF PCs
  <2>2. /\ pc' = [pc EXCEPT ![p] = [at |-> "idle"]]
        /\ source' = [source EXCEPT ![p] = 0]
        /\ left' = [left EXCEPT ![p] = {}]
    BY <1>2 DEF Enter, Goto
  <2>3. found'[p] = {}
    BY <1>2, RegistryType
  <2>4. QED
    BY <2>1, <2>2, <2>3, RegistryType DEF PollTypeOK
<1>3. QED
  BY <1>1, <1>2

\* A poll that is given up leaves its poller idle and empty-handed.
LEMMA StopType ==
  ASSUME PollTypeOK, NEW p \in Pollers, Stop(p)
  PROVE  PollTypeOK'
<1>1. found' = [found EXCEPT ![p] = {}] /\ Enter(p, Len(Registry) + 1)
  BY DEF Stop
<1>2. found' \in [Pollers -> SUBSET Discovered] /\ found'[p] = {}
  BY <1>1 DEF PollTypeOK
<1>3. Len(Registry) + 1 \in Nat \ {0}
  BY RegistryType
<1>4. \A q \in Pollers \ {p} : found'[q] = found[q]
  BY <1>1 DEF PollTypeOK
<1>5. QED
  BY <1>1, <1>2, <1>3, <1>4, EnterType

\* add_code leaves the tables well-formed.
LEMMA AddCodeType ==
  ASSUME RepoTypeOK, NEW c \in Codes, NEW scope \in Scopes \ {Absent}, AddCode(c, scope)
  PROVE  RepoTypeOK'
BY DEF AddCode, RepoTypeOK

\* So does the removal of an account.
LEMMA RemoveType ==
  ASSUME RepoTypeOK, NEW a \in Accounts, RemoveAccount(a)
  PROVE  RepoTypeOK'
BY DEF RemoveAccount, RepoTypeOK, Scopes

\* The other variables, apart from what StopType says.
OtherTypeOK ==
  /\ RepoTypeOK
  /\ published \in [Feeds -> Nat]
  /\ down \in SUBSET Feeds
  /\ position \in [Feeds -> Nat]
  /\ passedOver \in [Feeds -> SUBSET Nat]
  /\ dropped \in SUBSET Discovered
  /\ upsets \in 0 .. MaxUpsets

\* Together they are TypeOK, before a step and after it.
LEMMA TypeParts ==
  /\ TypeOK <=> PollTypeOK /\ OtherTypeOK
  /\ TypeOK' <=> PollTypeOK' /\ OtherTypeOK'
BY DEF TypeOK, PollTypeOK, OtherTypeOK

\* A poller that moves on within a source.
LEMMA GotoType ==
  ASSUME PollTypeOK, NEW p \in Pollers, NEW q \in PCs, pc[p].at # "idle", q.at # "idle",
         Goto(p, q), source' = source,
         left' \in [Pollers -> SUBSET Feeds], found' \in [Pollers -> SUBSET Discovered],
         \A r \in Pollers \ {p} : left'[r] = left[r] /\ found'[r] = found[r]
  PROVE  PollTypeOK'
BY DEF PollTypeOK, Goto

\* Nothing is read or published at first.
LEMMA TypeInit == Init => TypeOK /\ PositionsInRange
<1> SUFFICES ASSUME Init
             PROVE  TypeOK /\ PositionsInRange
  OBVIOUS
<1> USE DEF Init
<1>1. RepoTypeOK
  BY DEF RepoTypeOK, AccountRow, NoAccount, Scopes
<1>2. [at |-> "idle"] \in PCs
  BY DEF PCs
<1>3. PollTypeOK
  BY <1>2, RegistryType DEF PollTypeOK
<1>4. OtherTypeOK
  BY <1>1, SourcesAssumption DEF OtherTypeOK
<1>5. PositionsInRange
  BY ContentType DEF PositionsInRange, AtFeed
<1>6. QED
  BY <1>3, <1>4, <1>5, TypeParts

\* Every step keeps the types.
LEMMA TypeStep ==
  ASSUME TypeOK, PositionsInRange, [Next]_vars
  PROVE  TypeOK'
<1> USE SourcesAssumption
<1>0. PollTypeOK /\ OtherTypeOK
  BY TypeParts
<1>a. ASSUME UNCHANGED <<repoVars, published, down, position, passedOver, dropped, upsets>>, PollTypeOK'
      PROVE  TypeOK'
  BY <1>0, <1>a, TypeParts DEF OtherTypeOK, RepoTypeOK, repoVars
<1>b. ASSUME UNCHANGED pollVars, OtherTypeOK'
      PROVE  TypeOK'
  BY <1>0, <1>b, TypeParts DEF PollTypeOK, pollVars
<1>1. ASSUME NEW p \in Pollers, StartPoll(p)
      PROVE  TypeOK'
  <2>1. found' = found /\ found[p] = {} /\ 1 \in Nat \ {0}
    BY <1>0, <1>1 DEF StartPoll, PollTypeOK
  <2>2. PollTypeOK'
    BY <1>0, <1>1, <2>1, EnterType DEF StartPoll, PollTypeOK, Upset
  <2>3. OtherTypeOK'
    BY <1>0, <1>1 DEF StartPoll, Upset, OtherTypeOK, RepoTypeOK, repoVars
  <2>4. QED
    BY <2>2, <2>3, TypeParts
<1>2. ASSUME NEW p \in Pollers, Ask(p)
      PROVE  TypeOK'
  <2>1. PICK f \in left[p] : /\ Goto(p, [at |-> "asked", feed |-> f, n |-> position[f]])
                             /\ left' = [left EXCEPT ![p] = @ \ {f}]
    BY <1>2 DEF Ask
  <2>2. [at |-> "asked", feed |-> f, n |-> position[f]] \in PCs
    BY <1>0, <2>1 DEF PCs, PollTypeOK, OtherTypeOK
  <2>3. PollTypeOK'
    BY <1>0, <1>2, <2>1, <2>2, GotoType DEF Ask, PollTypeOK
  <2>4. QED
    BY <1>2, <1>a, <2>3 DEF Ask
<1>3. ASSUME NEW p \in Pollers, NEW f \in Feeds, Answer(p, f)
      PROVE  TypeOK'
  <2> DEFINE new == New(f, pc[p].n)
             q == IF new = {} /\ f \notin Mailboxes
                  THEN [at |-> "reading"]
                  ELSE [at |-> "answered", feed |-> f, n |-> Reached(f, pc[p].n),
                        from |-> pc[p].n]
  <2>1. pc[p].at = "asked" /\ pc[p].feed = f /\ pc[p].n \in Nat
    BY <1>0, <1>3, PCForms DEF Answer, PollTypeOK
  <2>2. q \in PCs
    BY <2>1, NewType DEF PCs
  <2>3. CodesOf(f, new) \in SUBSET Discovered
    BY <2>1, NewType, CodesOfType
  <2>4. found' = [found EXCEPT ![p] = @ \union CodesOf(f, new)] /\ Goto(p, q)
    BY <1>3 DEF Answer
  <2>5. PollTypeOK'
    <3> HIDE DEF q, new
    <3>1. q.at # "idle"
      BY DEF q
    <3>2. /\ found' \in [Pollers -> SUBSET Discovered]
          /\ \A r \in Pollers \ {p} : found'[r] = found[r]
      BY <1>0, <2>3, <2>4 DEF PollTypeOK
    <3>3. QED
      BY <1>0, <1>3, <2>1, <2>2, <2>4, <3>1, <3>2, GotoType DEF Answer, PollTypeOK
  <2>6. {i \in Items(f) : i + Limit <= published[f]} \in SUBSET Nat
    BY ContentType
  <2>7. passedOver' \in [Feeds -> SUBSET Nat]
    BY <1>0, <1>3, <2>6 DEF Answer, OtherTypeOK
  <2>8. OtherTypeOK'
    BY <1>0, <1>3, <2>7 DEF Answer, OtherTypeOK, RepoTypeOK, repoVars
  <2>9. QED
    BY <2>5, <2>8, TypeParts
<1>4. ASSUME NEW p \in Pollers, Fail(p)
      PROVE  TypeOK'
  BY <1>0, <1>4, <1>a, GotoType DEF Fail, PCs, PollTypeOK
<1>5. ASSUME NEW p \in Pollers, Save(p)
      PROVE  TypeOK'
  <2>1. pc[p].at = "answered" /\ pc[p].feed \in Feeds /\ pc[p].n \in Nat
    BY <1>0, <1>5, PCForms DEF Save, PollTypeOK
  <2>2. position' \in [Feeds -> Nat]
    BY <1>0, <1>5, <2>1 DEF Save, OtherTypeOK
  <2>3. PollTypeOK'
    BY <1>0, <1>5, <2>1, GotoType DEF Save, PCs, PollTypeOK
  <2>4. OtherTypeOK'
    BY <1>0, <1>5, <2>2 DEF Save, OtherTypeOK, RepoTypeOK, repoVars
  <2>5. QED
    BY <2>3, <2>4, TypeParts
<1>6. ASSUME NEW p \in Pollers, AllRead(p)
      PROVE  TypeOK'
  BY <1>0, <1>6, <1>a, GotoType DEF AllRead, PCs, PollTypeOK
<1>7. ASSUME NEW p \in Pollers, Store(p)
      PROVE  TypeOK'
  <2>1. PICK d \in found[p] : /\ AddCode(d[1], d[2])
                              /\ found' = [found EXCEPT ![p] = @ \ {d}]
    BY <1>7 DEF Store
  <2>2. d[1] \in Codes /\ d[2] \in Scopes \ {Absent}
    BY <1>0, <2>1 DEF PollTypeOK, Discovered
  <2>3. RepoTypeOK'
    BY <1>0, <2>1, <2>2, AddCodeType DEF OtherTypeOK
  <2>4. PollTypeOK'
    BY <1>0, <1>7, <2>1 DEF Store, PollTypeOK
  <2>5. QED
    BY <1>0, <1>7, <2>3, <2>4, TypeParts DEF Store, OtherTypeOK
<1>8. ASSUME NEW p \in Pollers, Stop(p)
      PROVE  PollTypeOK' /\ dropped' \in SUBSET Discovered
  BY <1>0, <1>8, StopType DEF Stop, PollTypeOK, OtherTypeOK
<1>9. ASSUME NEW p \in Pollers, StoreRaises(p)
      PROVE  TypeOK'
  BY <1>0, <1>8, <1>9, TypeParts DEF StoreRaises, OtherTypeOK, RepoTypeOK, repoVars
<1>10. ASSUME NEW p \in Pollers, NextSource(p)
       PROVE  TypeOK'
  <2>1. source[p] + 1 \in Nat \ {0}
    BY <1>0, RegistryType DEF PollTypeOK
  <2>2. QED
    BY <1>0, <1>10, <1>a, <2>1, EnterType DEF NextSource, PollTypeOK
<1>11. ASSUME NEW f \in Feeds, Publish(f)
       PROVE  TypeOK'
  BY <1>0, <1>11, <1>b DEF Publish, OtherTypeOK, RepoTypeOK, repoVars
<1>12. ASSUME NEW p \in Pollers, Crash(p)
       PROVE  TypeOK'
  BY <1>0, <1>8, <1>12, TypeParts DEF Crash, Upset, OtherTypeOK, RepoTypeOK, repoVars
<1>13. ASSUME NEW a \in Accounts, Remove(a)
       PROVE  TypeOK'
  <2>1. RepoTypeOK'
    BY <1>0, <1>13, RemoveType DEF Remove, OtherTypeOK
  <2>2. ({c \in Codes : codes[c] = a} \X Accounts) \in SUBSET Discovered
    BY RepoAssumption DEF Discovered, Scopes
  <2>3. QED
    BY <1>0, <1>13, <1>b, <2>1, <2>2 DEF Remove, Upset, OtherTypeOK
<1>14. ASSUME NEW n \in DOMAIN Registry, Reset(n)
       PROVE  TypeOK'
  BY <1>0, <1>14, <1>b DEF Reset, Upset, OtherTypeOK, RepoTypeOK, repoVars
<1>15. CASE UNCHANGED vars
  BY <1>0, <1>15, <1>a DEF vars, pollVars, PollTypeOK
<1>16. QED
  BY <1>1, <1>2, <1>3, <1>4, <1>5, <1>6, <1>7, <1>9, <1>10, <1>11, <1>12, <1>13,
     <1>14, <1>15 DEF Next, PollStep

\* No step moves a position past what is published.
LEMMA RangeStep ==
  ASSUME TypeOK, PositionsInRange, [Next]_vars
  PROVE  PositionsInRange'
<1> USE SourcesAssumption
<1>0. PollTypeOK /\ OtherTypeOK
  BY TypeParts
<1>a. ASSUME UNCHANGED <<published, position>>,
             NEW p \in Pollers, NEW q, Goto(p, q), q.at \notin {"asked", "answered"}
      PROVE  PositionsInRange'
  BY <1>0, <1>a DEF PositionsInRange, AtFeed, Goto, PollTypeOK
<1>b. ASSUME NEW p \in Pollers, NEW n, Enter(p, n), UNCHANGED <<published, position>>
      PROVE  PositionsInRange'
  BY <1>b, <1>a DEF Enter
<1>1. ASSUME NEW p \in Pollers, Ask(p)
      PROVE  PositionsInRange'
  <2>1. PICK f \in Feeds : Goto(p, [at |-> "asked", feed |-> f, n |-> position[f]])
    BY <1>0, <1>1 DEF Ask, PollTypeOK
  <2>2. QED
    BY <1>0, <1>1, <2>1 DEF Ask, PositionsInRange, AtFeed, Goto, PollTypeOK
<1>2. ASSUME NEW p \in Pollers, NEW f \in Feeds, Answer(p, f)
      PROVE  PositionsInRange'
  <2>1. pc[p].n \in Nat
    BY <1>0, <1>2, PCForms DEF Answer, PollTypeOK
  <2>2. CASE Goto(p, [at |-> "reading"])
    BY <1>2, <1>a, <2>2 DEF Answer
  <2>3. CASE Goto(p, [at |-> "answered", feed |-> f, n |-> Reached(f, pc[p].n),
                        from |-> pc[p].n])
    <3>1. Reached(f, pc[p].n) <= published[f] /\ UNCHANGED <<published, position>>
      BY <1>2, <2>1, NewType DEF Answer
    <3>2. pc'[p].feed = f /\ pc'[p].n = Reached(f, pc[p].n)
      BY <1>0, <2>3 DEF Goto, PollTypeOK
    <3>3. \A q \in Pollers \ {p} : pc'[q] = pc[q]
      BY <1>0, <2>3 DEF Goto, PollTypeOK
    <3>4. QED
      BY <3>1, <3>2, <3>3 DEF PositionsInRange, AtFeed
  <2>4. QED
    BY <1>2, <2>2, <2>3 DEF Answer
<1>3. ASSUME NEW p \in Pollers, Save(p)
      PROVE  PositionsInRange'
  <2>1. pc[p].feed \in Feeds /\ pc[p].n \in Nat /\ pc[p].n <= published[pc[p].feed]
    BY <1>0, <1>3, PCForms DEF Save, PollTypeOK, PositionsInRange, AtFeed
  <2>2. \A f \in Feeds : position'[f] <= published[f]
    BY <1>0, <1>3, <2>1 DEF Save, PositionsInRange, OtherTypeOK
  <2>3. QED
    BY <1>0, <1>3, <2>2 DEF Save, PositionsInRange, AtFeed, Goto, PollTypeOK
<1>4. ASSUME NEW f \in Feeds, Publish(f)
      PROVE  PositionsInRange'
  <2>1. /\ \A g \in Feeds : published[g] <= published'[g] /\ published'[g] \in Nat
        /\ \A g \in Feeds : published'[g] <= Len(Content[g])
    BY <1>0, <1>4, ContentType DEF Publish, PositionsInRange, OtherTypeOK
  <2>2. \A g \in Feeds : position'[g] <= published'[g]
    BY <1>0, <1>4, <2>1 DEF Publish, PositionsInRange, OtherTypeOK
  <2>3. ASSUME NEW p \in Pollers, AtFeed(p)'
        PROVE  (pc[p].n <= published[pc[p].feed])'
    <3>1. AtFeed(p) /\ pc' = pc
      BY <1>4, <2>3 DEF Publish, pollVars, AtFeed
    <3>2. pc[p].feed \in Feeds /\ pc[p].n \in Nat
      BY <1>0, <3>1, PCForms DEF AtFeed, PollTypeOK
    <3>3. pc[p].n <= published[pc[p].feed]
      BY <3>1 DEF PositionsInRange
    <3>4. published[pc[p].feed] \in Nat
      BY <1>0, <3>2 DEF OtherTypeOK
    <3>5. QED
      BY <2>1, <3>1, <3>2, <3>3, <3>4
  <2>4. QED
    BY <2>1, <2>2, <2>3 DEF PositionsInRange
<1>5. ASSUME NEW n \in DOMAIN Registry, Reset(n)
      PROVE  PositionsInRange'
  BY <1>0, <1>5 DEF Reset, PositionsInRange, AtFeed, pollVars, OtherTypeOK
<1>6. CASE UNCHANGED <<published, position, pc>>
  BY <1>6 DEF PositionsInRange, AtFeed
<1>7. ASSUME NEW p \in Pollers, StartPoll(p) \/ StoreRaises(p) \/ NextSource(p) \/ Crash(p)
      PROVE  PositionsInRange'
  BY <1>7, <1>b DEF StartPoll, StoreRaises, NextSource, Crash, Stop
<1>8. ASSUME NEW p \in Pollers, Fail(p) \/ AllRead(p)
      PROVE  PositionsInRange'
  BY <1>8, <1>a DEF Fail, AllRead
<1>9. ASSUME NEW p \in Pollers, Store(p)
      PROVE  PositionsInRange'
  BY <1>9, <1>6 DEF Store
<1>10. ASSUME NEW a \in Accounts, Remove(a)
       PROVE  PositionsInRange'
  BY <1>10, <1>6 DEF Remove, pollVars
<1>11. CASE UNCHANGED vars
  BY <1>11, <1>6 DEF vars, pollVars
<1>12. QED
  BY <1>1, <1>2, <1>3, <1>4, <1>5, <1>7, <1>8, <1>9, <1>10, <1>11 DEF Next, PollStep

\* The types of every variable, for any registry and any contents.
THEOREM TypeCorrect == Spec => []TypeOK
<1>1. TypeOK /\ PositionsInRange /\ [Next]_vars => (TypeOK /\ PositionsInRange)'
  BY TypeStep, RangeStep
<1>2. QED
  BY <1>1, TypeInit, PTL DEF Spec

-----------------------------------------------------------------------------
(* What a position covers is accounted for                                 *)

Known(d) == OnFile(d) \/ InHands(d) \/ d \in dropped

\* Only the removal of an account takes a code off file.
LEMMA FileStep ==
  ASSUME TypeOK, [Next]_vars, NEW d \in Discovered, OnFile(d)
  PROVE  (OnFile(d) \/ d \in dropped)'
<1>0. /\ PollTypeOK /\ OtherTypeOK
      /\ d[1] \in Codes /\ d[2] \in Scopes \ {Absent} /\ d = <<d[1], d[2]>>
  BY TypeParts DEF Discovered
<1>1. CASE UNCHANGED codes
  BY <1>1 DEF OnFile
<1>2. ASSUME NEW c \in Codes, NEW scope \in Scopes \ {Absent}, AddCode(c, scope)
      PROVE  OnFile(d)'
  BY <1>0, <1>2, RepoAssumption DEF AddCode, OnFile, OtherTypeOK, RepoTypeOK
<1>3. ASSUME NEW p \in Pollers, Store(p)
      PROVE  OnFile(d)'
  <2>1. PICK e \in Discovered : AddCode(e[1], e[2])
    BY <1>0, <1>3 DEF Store, PollTypeOK
  <2>2. e[1] \in Codes /\ e[2] \in Scopes \ {Absent}
    BY DEF Discovered
  <2>3. QED
    BY <1>2, <2>1, <2>2
<1>4. ASSUME NEW a \in Accounts, Remove(a)
      PROVE  (OnFile(d) \/ d \in dropped)'
  <2>1. CASE d[2] = Public
    BY <1>0, <1>4, <2>1, RepoAssumption DEF Remove, RemoveAccount, OnFile
  <2>2. CASE d[2] \in Accounts /\ codes[d[1]] # a
    BY <1>0, <1>4, <2>2, RepoAssumption DEF Remove, RemoveAccount, OnFile
  <2>3. CASE d[2] \in Accounts /\ codes[d[1]] = a
    BY <1>0, <1>4, <2>3 DEF Remove
  <2>4. QED
    BY <1>0, <2>1, <2>2, <2>3 DEF Scopes
<1>5. QED
  BY <1>1, <1>3, <1>4
     DEF Next, PollStep, vars, repoVars, StartPoll, Ask, Answer, Fail, Save, AllRead,
         StoreRaises, NextSource, Publish, Crash, Reset

\* A code in the hands of a poller is stored or known to be dropped.
LEMMA HandsStep ==
  ASSUME TypeOK, [Next]_vars, NEW d \in Discovered, InHands(d)
  PROVE  Known(d)'
<1>0. PollTypeOK
  BY TypeParts
<1>1. CASE UNCHANGED found
  BY <1>1 DEF InHands, Known
<1>2. ASSUME NEW p \in Pollers, NEW f \in Feeds, Answer(p, f)
      PROVE  Known(d)'
  BY <1>0, <1>2 DEF Answer, InHands, Known, PollTypeOK
<1>3. ASSUME NEW p \in Pollers, Store(p)
      PROVE  Known(d)'
  <2>1. PICK e \in found[p] : /\ AddCode(e[1], e[2])
                              /\ found' = [found EXCEPT ![p] = @ \ {e}]
    BY <1>3 DEF Store
  <2>2. e[1] \in Codes /\ e[2] \in Scopes \ {Absent} /\ codes \in [Codes -> Scopes]
    BY <1>0, <2>1 DEF PollTypeOK, Discovered, TypeOK, RepoTypeOK
  <2>3. OnFile(e)'
    BY <2>1, <2>2, RepoAssumption DEF AddCode, OnFile, Scopes
  <2>4. d # e => InHands(d)'
    BY <1>0, <2>1 DEF InHands, PollTypeOK
  <2>5. QED
    BY <2>3, <2>4 DEF Known
<1>4. ASSUME NEW p \in Pollers, Stop(p)
      PROVE  Known(d)'
  BY <1>0, <1>4 DEF Stop, InHands, Known, PollTypeOK
<1>5. QED
  BY <1>1, <1>2, <1>3, <1>4
     DEF Next, PollStep, vars, pollVars, StartPoll, Ask, Fail, Save, AllRead,
         StoreRaises, NextSource, Publish, Crash, Remove, Reset

\* Nothing that is accounted for is forgotten later.
LEMMA AccountedStep ==
  ASSUME TypeOK, [Next]_vars, NEW f \in Feeds, NEW i \in Items(f), Accounted(f, i)
  PROVE  Accounted(f, i)'
<1>1. CASE i \in passedOver[f]
  <2>1. ASSUME NEW p \in Pollers, NEW g \in Feeds, Answer(p, g)
        PROVE  i \in passedOver'[f]
    BY <1>1, <2>1 DEF Answer, TypeOK
  <2>2. i \in passedOver'[f]
    BY <1>1, <2>1 DEF Next, PollStep, vars, StartPoll, Ask, Fail, Save, AllRead, Store,
                      StoreRaises, NextSource, Publish, Crash, Remove, Reset
  <2>3. QED
    BY <2>2 DEF Accounted
<1>2. CASE \A d \in CodesOf(f, {i}) : Known(d)
  <2>1. ASSUME NEW d \in CodesOf(f, {i})
        PROVE  Known(d)'
    <3>1. d \in Discovered
      BY CodesOfType
    <3>2. dropped \subseteq dropped'
      BY DEF Next, PollStep, vars, pollVars, StartPoll, Ask, Answer, Fail, Save, AllRead,
             Store, StoreRaises, NextSource, Publish, Crash, Remove, Reset, Stop
    <3>3. QED
      BY <1>2, <3>1, <3>2, FileStep, HandsStep DEF Known
  <2>2. QED
    BY <2>1 DEF Accounted, Known, CodesOf, ScopeOf
<1>3. QED
  BY <1>1, <1>2 DEF Accounted, Known

\* A position within the items of a feed covers some of them.
LEMMA CoveredType ==
  ASSUME TypeOK, PositionsInRange, NEW f \in Feeds, NEW n \in Nat, n <= published[f]
  PROVE  Covered(f, n) \in SUBSET Items(f)
<1>1. Items(f) = 1 .. Len(Content[f]) /\ Len(Content[f]) \in Nat
  BY ContentType
<1>2. published[f] \in Nat /\ published[f] <= Len(Content[f])
  BY DEF TypeOK, PositionsInRange
<1>3. ({n} \ {0}) \in SUBSET Items(f) /\ (1 .. n) \in SUBSET Items(f)
  BY <1>1, <1>2
<1>4. QED
  BY <1>3 DEF Covered

\* What an answer's position adds to the old one is in the answer, or older
\* than a first look at a channel.
LEMMA ReachedCovers ==
  ASSUME TypeOK, PositionsInRange, NEW f \in Feeds, NEW n \in Nat,
         f \in Pages => published[f] # 0,
         NEW i \in Covered(f, Reached(f, n))
  PROVE  \/ i \in Covered(f, n)
         \/ i \in New(f, n)
         \/ f \in Channels /\ n = 0 /\ i \in Items(f) /\ i + Limit <= published[f]
<1>1. published[f] \in Nat /\ published[f] <= Len(Content[f]) /\ Limit \in Nat \ {0}
  BY SourcesAssumption DEF TypeOK, PositionsInRange
<1>2. CASE f \in Pages
  BY <1>1, <1>2 DEF Covered, Reached, New
<1>3. CASE f \notin Pages /\ f \in Channels /\ n = 0
  BY <1>1, <1>3, ContentType DEF Covered, Reached, New
<1>4. CASE f \notin Pages /\ ~(f \in Channels /\ n = 0)
  BY <1>1, <1>4 DEF Covered, Reached, New
<1>5. QED
  BY <1>2, <1>3, <1>4

\* The invariant holds of a new installation.
LEMMA InvInit == Init => Inv
<1> SUFFICES ASSUME Init
             PROVE  Inv
  OBVIOUS
<1>1. \A f \in Feeds : Covered(f, position[f]) = {}
  BY DEF Init, Covered
<1>2. InFlightCovered
  BY DEF Init, InFlightCovered, AtFeed, At
<1>3. QED
  BY <1>1, <1>2, TypeInit DEF Inv, NothingSkipped

\* Nothing that a position up to what is published covers is forgotten.
LEMMA CoveredStep ==
  ASSUME TypeOK, PositionsInRange, [Next]_vars,
         NEW f \in Feeds, NEW n \in Nat, n <= published[f],
         \A i \in Covered(f, n) : Accounted(f, i)
  PROVE  \A i \in Covered(f, n) : Accounted(f, i)'
BY CoveredType, AccountedStep

\* A saved position is an old one, none, or one a poller had in hands.
LEMMA SavedStep ==
  ASSUME Inv, [Next]_vars
  PROVE  NothingSkipped'
<1>0. TypeOK /\ PositionsInRange /\ PollTypeOK /\ OtherTypeOK
  BY TypeParts DEF Inv
<1>1. ASSUME NEW f \in Feeds
      PROVE  \A i \in Covered(f, position[f]) : Accounted(f, i)'
  BY <1>0, <1>1, CoveredStep DEF Inv, NothingSkipped, PositionsInRange, OtherTypeOK
<1>2. CASE UNCHANGED position
  BY <1>1, <1>2 DEF NothingSkipped, Covered
<1>3. ASSUME NEW p \in Pollers, Save(p)
      PROVE  NothingSkipped'
  <2>1. PICK f \in Feeds, n \in Nat : At(p, f, n) /\ n <= published[f]
    BY <1>0, <1>3, PCForms DEF Save, PollTypeOK, PositionsInRange, AtFeed, At
  <2>2. \A i \in Covered(f, n) : Accounted(f, i)'
    BY <1>0, <2>1, CoveredStep DEF Inv, InFlightCovered
  <2>3. CASE position' = [position EXCEPT ![pc[p].feed] = pc[p].n]
    <3>1. position'[f] = n /\ \A g \in Feeds \ {f} : position'[g] = position[g]
      BY <1>0, <2>1, <2>3 DEF OtherTypeOK, At
    <3>2. ASSUME NEW g \in Feeds
          PROVE  \A i \in Covered(g, position'[g]) : Accounted(g, i)'
      BY <1>1, <2>2, <3>1
    <3>3. QED
      BY <3>2 DEF NothingSkipped, Covered
  <2>4. QED
    BY <1>2, <1>3, <2>3 DEF Save
<1>4. ASSUME NEW n \in DOMAIN Registry, Reset(n)
      PROVE  NothingSkipped'
  <2>1. \A f \in Feeds : position'[f] = position[f] \/ position'[f] = 0
    BY <1>4 DEF Reset
  <2>2. \A f \in Feeds : Covered(f, 0) = {}
    BY DEF Covered
  <2>3. QED
    BY <1>1, <2>1, <2>2 DEF NothingSkipped, Covered
<1>5. QED
  BY <1>2, <1>3, <1>4
     DEF Next, PollStep, vars, StartPoll, Ask, Answer, Fail, AllRead, Store, StoreRaises,
         NextSource, Publish, Crash, Remove

\* A poller takes up a saved position, and an answer moves it over the items
\* it delivers and those it passes over.
LEMMA InFlightStep ==
  ASSUME Inv, [Next]_vars
  PROVE  InFlightCovered'
<1> DEFINE Kept(q) == pc'[q] = pc[q] \/ ~AtFeed(q)'
           Good(q) == \A g \in Feeds, m \in Nat :
                        At(q, g, m)' => \A i \in Covered(g, m) : Accounted(g, i)'
<1>0. TypeOK /\ PositionsInRange /\ PollTypeOK /\ OtherTypeOK
  BY TypeParts DEF Inv
<1>1. ASSUME NEW q \in Pollers, Kept(q)
      PROVE  Good(q)
  <2>1. ASSUME NEW g \in Feeds, NEW m \in Nat, At(q, g, m)'
        PROVE  \A i \in Covered(g, m) : Accounted(g, i)'
    <3>1. At(q, g, m) /\ m <= published[g]
      BY <1>0, <1>1, <2>1 DEF At, AtFeed, PositionsInRange
    <3>2. QED
      BY <1>0, <3>1, CoveredStep DEF Inv, InFlightCovered
  <2>2. QED
    BY <2>1
<1>2. ASSUME NEW p \in Pollers, NEW w, Goto(p, w), w.at \notin {"asked", "answered"}
      PROVE  \A q \in Pollers : Kept(q)
  BY <1>0, <1>2 DEF Goto, PollTypeOK, AtFeed
<1>3. ASSUME NEW p \in Pollers, Ask(p)
      PROVE  \A q \in Pollers : Good(q)
  <2>1. PICK f \in Feeds : Goto(p, [at |-> "asked", feed |-> f, n |-> position[f]])
    BY <1>0, <1>3 DEF Ask, PollTypeOK
  <2>2. pc'[p].feed = f /\ pc'[p].n = position[f] /\ \A q \in Pollers \ {p} : Kept(q)
    BY <1>0, <2>1 DEF Goto, PollTypeOK
  <2>3. \A i \in Covered(f, position[f]) : Accounted(f, i)'
    BY <1>0, CoveredStep DEF Inv, NothingSkipped, PositionsInRange, OtherTypeOK
  <2>4. QED
    BY <1>1, <2>2, <2>3 DEF At
<1>4. ASSUME NEW p \in Pollers, NEW f \in Feeds, Answer(p, f),
             Goto(p, [at |-> "answered", feed |-> f, n |-> Reached(f, pc[p].n),
                        from |-> pc[p].n])
      PROVE  \A q \in Pollers : Good(q)
  <2> DEFINE n == pc[p].n
  <2>1. At(p, f, n) /\ n \in Nat /\ n <= published[f]
    BY <1>0, <1>4, PCForms DEF Answer, PollTypeOK, PositionsInRange, AtFeed, At
  <2>2. pc'[p].feed = f /\ pc'[p].n = Reached(f, n) /\ \A q \in Pollers \ {p} : Kept(q)
    BY <1>0, <1>4 DEF Goto, PollTypeOK
  <2>3. \A i \in Covered(f, n) : Accounted(f, i)'
    BY <1>0, <2>1, CoveredStep DEF Inv, InFlightCovered
  <2>4. \A i \in New(f, n) : Accounted(f, i)'
    <3>1. CodesOf(f, New(f, n)) \subseteq found'[p]
      BY <1>0, <1>4 DEF Answer, PollTypeOK
    <3>2. \A i \in New(f, n) : CodesOf(f, {i}) \subseteq CodesOf(f, New(f, n))
      BY DEF CodesOf
    <3>3. \A i \in New(f, n) : \A d \in CodesOf(f, {i}) : InHands(d)'
      BY <3>1, <3>2 DEF InHands
    <3>4. QED
      BY <3>3 DEF Accounted, CodesOf, ScopeOf
  <2>5. ASSUME f \in Channels, n = 0, NEW i \in Items(f), i + Limit <= published[f]
        PROVE  Accounted(f, i)'
    <3>1. i \in passedOver'[f]
      BY <1>0, <1>4, <2>5 DEF Answer, OtherTypeOK
    <3>2. QED
      BY <3>1 DEF Accounted
  <2>6. f \in Pages => published[f] # 0
    BY <1>4 DEF Answer
  <2>7. \A i \in Covered(f, Reached(f, n)) : Accounted(f, i)'
    BY <1>0, <2>1, <2>3, <2>4, <2>5, <2>6, ReachedCovers
  <2>8. QED
    BY <1>1, <2>2, <2>7 DEF At
<1>5. ASSUME NEW p \in Pollers, NEW f \in Feeds, Answer(p, f)
      PROVE  \A q \in Pollers : Good(q)
  BY <1>1, <1>2, <1>4, <1>5 DEF Answer
<1>6. ASSUME NEW p \in Pollers, NEW m, Enter(p, m)
      PROVE  \A q \in Pollers : Good(q)
  BY <1>1, <1>2, <1>6 DEF Enter
<1>7. ASSUME UNCHANGED pc
      PROVE  \A q \in Pollers : Good(q)
  BY <1>1, <1>7
<1>8. \A q \in Pollers : Good(q)
  BY <1>1, <1>2, <1>3, <1>5, <1>6, <1>7
     DEF Next, PollStep, vars, pollVars, StartPoll, Fail, Save, AllRead, Store, StoreRaises,
         Stop, NextSource, Publish, Crash, Remove, Reset
<1>9. QED
  BY <1>8 DEF InFlightCovered, At, AtFeed, Covered

\* Together they are an inductive invariant.
LEMMA InvStep == Inv /\ [Next]_vars => Inv'
BY TypeStep, RangeStep, SavedStep, InFlightStep DEF Inv

\* The codes of every item a position covers are on file, on their way there,
\* or among those the model names as lost: no overlap of polls, no order of
\* answers, no backlog, removal or reset makes a poll skip an item silently.
THEOREM NoItemSkipped == Spec => []NothingSkipped
<1>1. Inv => NothingSkipped
  BY DEF Inv
<1>2. QED
  BY <1>1, InvInit, InvStep, PTL DEF Spec

\* A code offered to every account is never taken back to one of them, and a
\* personal code stays with its account until it is offered to all or goes
\* with it, whatever the order in which the sources deliver it.
THEOREM ScopesOnlyWiden == Spec => NeverNarrowed
<1> DEFINE Widens == \A c \in Codes :
                       /\ codes[c] = Public => codes'[c] = Public
                       /\ codes[c] \in Accounts => codes'[c] \in {codes[c], Public, Absent}
<1>1. ASSUME TypeOK, [Next]_vars
      PROVE  Widens \/ UNCHANGED vars
  <2>0. PollTypeOK /\ codes \in [Codes -> Scopes]
    BY <1>1, TypeParts DEF OtherTypeOK, RepoTypeOK
  <2>1. CASE UNCHANGED codes
    BY <2>1
  <2>2. ASSUME NEW p \in Pollers, Store(p)
        PROVE  Widens
    <3>1. PICK e \in Discovered : AddCode(e[1], e[2])
      BY <2>0, <2>2 DEF Store, PollTypeOK
    <3>2. QED
      BY <2>0, <3>1, RepoAssumption DEF AddCode
  <2>3. ASSUME NEW a \in Accounts, Remove(a)
        PROVE  Widens
    BY <2>0, <2>3, RepoAssumption DEF Remove, RemoveAccount
  <2>4. QED
    BY <1>1, <2>1, <2>2, <2>3
       DEF Next, PollStep, vars, repoVars, StartPoll, Ask, Answer, Fail, Save, AllRead,
           StoreRaises, NextSource, Publish, Crash, Reset
<1>2. QED
  BY <1>1, TypeCorrect, PTL DEF NeverNarrowed, Spec

\* Only a channel is ever read without position behind its oldest messages.
LEMMA OnlyChannelsPassOver ==
  Spec => [](\A f \in Mailboxes : passedOver[f] = {})
<1> DEFINE P == \A f \in Mailboxes : passedOver[f] = {}
<1>1. Init => P
  BY DEF Init, Feeds
<1>2. ASSUME TypeOK, P, [Next]_vars
      PROVE  P'
  <2>1. ASSUME NEW p \in Pollers, NEW f \in Feeds, Answer(p, f)
        PROVE  P'
    BY <1>2, <2>1, SourcesAssumption DEF Answer, TypeOK, Feeds
  <2>2. QED
    BY <1>2, <2>1
       DEF Next, PollStep, vars, StartPoll, Ask, Fail, Save, AllRead, Store, StoreRaises,
           NextSource, Publish, Crash, Remove, Reset
<1>3. QED
  BY <1>1, <1>2, TypeCorrect, PTL DEF Spec

\* What a mailbox's position covers is on file or in the hands of a poll, as long
\* as no poll dies or is given up with codes in hand: `lost_codes` shows that the
\* condition is needed.
THEOREM ExtractedUnlessDropped == Spec /\ [](dropped = {}) => []ExtractedIsOnFile
<1>1. ASSUME NothingSkipped, \A f \in Mailboxes : passedOver[f] = {}, dropped = {}
      PROVE  ExtractedIsOnFile
  BY <1>1 DEF NothingSkipped, Accounted, ExtractedIsOnFile, Feeds
<1>2. QED
  BY <1>1, NoItemSkipped, OnlyChannelsPassOver, PTL

-----------------------------------------------------------------------------
(* A poll gets done                                                        *)

LEMMA StageFacts ==
  ASSUME NEW p \in Pollers
  PROVE  /\ pc[p].at = "asked" => Stage(p) = 3
         /\ pc[p].at = "answered" => Stage(p) = 2
         /\ pc[p].at = "reading" => Stage(p) = 1
         /\ pc'[p].at = "answered" => Stage(p)' = 2
         /\ pc'[p].at = "reading" => Stage(p)' = 1
         /\ pc'[p].at = "storing" => Stage(p)' = 0
BY DEF Stage

\* Entering a later source, or none, is an advance.
LEMMA EnterAdvances ==
  ASSUME PollTypeOK, NEW p \in Pollers, NEW n \in Nat, n > source[p], Enter(p, n)
  PROVE  Closer(p)
<1>1. CASE n <= Len(Registry)
  BY <1>1 DEF Enter, Closer, PollTypeOK
<1>2. CASE ~(n <= Len(Registry))
  BY <1>2 DEF Enter, Goto, Closer, PollTypeOK
<1>3. QED
  BY <1>1, <1>2

LEMMA StopAdvances ==
  ASSUME PollTypeOK, NEW p \in Pollers, Stop(p)
  PROVE  Closer(p)
<1>1. Len(Registry) + 1 \in Nat /\ Len(Registry) + 1 > source[p]
  BY RegistryType DEF PollTypeOK
<1>2. QED
  BY <1>1, EnterAdvances DEF Stop

LEMMA PollStepAdvances ==
  ASSUME TypeOK, NEW p \in Pollers, PollStep(p)
  PROVE  Closer(p)
<1> USE StageFacts DEF Closer
<1>0. PollTypeOK
  BY TypeParts
<1> USE DEF PollTypeOK
<1>1. CASE Ask(p)
  BY <1>0, <1>1 DEF Ask, Smaller
<1>2. ASSUME NEW f \in Feeds, Answer(p, f)
      PROVE  Closer(p)
  <2>1. pc[p].at = "asked" /\ pc'[p].at \in {"reading", "answered"}
    BY <1>0, <1>2 DEF Answer, Goto
  <2>2. source' = source /\ left' = left
    BY <1>2 DEF Answer
  <2>3. Stage(p) = 3 /\ Stage(p)' \in {1, 2}
    BY <2>1
  <2>4. QED
    BY <2>2, <2>3
<1>3. CASE Fail(p)
  BY <1>0, <1>3 DEF Fail, Goto
<1>4. CASE Save(p)
  BY <1>0, <1>4 DEF Save, Goto
<1>5. CASE AllRead(p)
  BY <1>0, <1>5 DEF AllRead, Goto
<1>6. CASE Store(p)
  BY <1>0, <1>6 DEF Store, Smaller
<1>7. CASE StoreRaises(p)
  BY <1>0, <1>7, StopAdvances DEF StoreRaises
<1>8. CASE NextSource(p)
  <2>1. source[p] + 1 \in Nat /\ source[p] + 1 > source[p]
    BY <1>0, RegistryType
  <2>2. QED
    BY <1>0, <1>8, <2>1, EnterAdvances DEF NextSource
<1>9. QED
  BY <1>1, <1>2, <1>3, <1>4, <1>5, <1>6, <1>7, <1>8 DEF PollStep

\* A poll is over after a number of steps known when it starts, whoever fails
\* and whatever is published meanwhile.
THEOREM PollsGetDone == Spec => PollAdvances
<1> DEFINE Still(p) == UNCHANGED <<pc[p], source[p], left[p], found[p]>>
<1>1. ASSUME TypeOK, [Next]_vars, NEW p \in Pollers, pc[p].at # "idle"
      PROVE  Closer(p) \/ Still(p)
  <2>0. PollTypeOK
    BY <1>1, TypeParts
  <2>1. CASE PollStep(p)
    BY <1>1, <2>1, PollStepAdvances
  <2>2. ASSUME NEW q \in Pollers \ {p}, NEW w, Goto(q, w)
        PROVE  pc'[p] = pc[p]
    BY <2>0, <2>2 DEF Goto, PollTypeOK
  <2>3. ASSUME NEW q \in Pollers \ {p}, NEW n, Enter(q, n)
        PROVE  UNCHANGED <<pc[p], source[p], left[p]>>
    BY <2>0, <2>2, <2>3 DEF Enter, PollTypeOK
  <2>4. ASSUME NEW q \in Pollers \ {p}, StartPoll(q) \/ PollStep(q) \/ Crash(q)
        PROVE  Still(p)
    <3>1. UNCHANGED <<pc[p], source[p], left[p]>>
      <4>1. CASE StartPoll(q) \/ StoreRaises(q) \/ NextSource(q) \/ Crash(q)
        BY <2>3, <4>1 DEF StartPoll, StoreRaises, NextSource, Crash, Stop
      <4>2. CASE Ask(q) \/ Fail(q) \/ Save(q) \/ AllRead(q) \/ Store(q)
        BY <2>0, <2>2, <4>2 DEF Ask, Fail, Save, AllRead, Store, PollTypeOK
      <4>3. ASSUME NEW f \in Feeds, Answer(q, f)
            PROVE  UNCHANGED <<pc[p], source[p], left[p]>>
        BY <2>0, <2>2, <4>3 DEF Answer, PollTypeOK
      <4>4. QED
        BY <2>4, <4>1, <4>2, <4>3 DEF PollStep
    <3>2. UNCHANGED found[p]
      BY <2>0, <2>4 DEF PollStep, StartPoll, Ask, Answer, Fail, Save, AllRead, Store,
           StoreRaises, NextSource, Stop, Crash, PollTypeOK
    <3>3. QED
      BY <3>1, <3>2
  <2>5. CASE Crash(p)
    BY <2>0, <2>5, StopAdvances DEF Crash
  <2>6. ~StartPoll(p)
    BY <1>1 DEF StartPoll
  <2>7. CASE \/ \E f \in Feeds : Publish(f)
             \/ \E a \in Accounts : Remove(a)
             \/ \E n \in DOMAIN Registry : Reset(n)
             \/ UNCHANGED vars
    BY <2>7 DEF Publish, Remove, Reset, vars, pollVars
  <2>8. QED
    BY <1>1, <2>1, <2>4, <2>5, <2>6, <2>7 DEF Next
<1>2. TypeOK /\ [Next]_vars
        => [\A p \in Pollers : pc[p].at # "idle" => Closer(p) \/ Still(p)]_vars
  BY <1>1
<1>3. QED
  BY <1>2, TypeCorrect, PTL DEF Spec, PollAdvances

-----------------------------------------------------------------------------
(* Resets hold between polls                                               *)

\* What `icr source reset` asks of its user: polls do not overlap, and it is
\* not used while one is under way.
PollsAlone == \A p, q \in Pollers : pc[p].at # "idle" /\ pc[q].at # "idle" => p = q
ResetIdle ==
  \A n \in DOMAIN Registry : Reset(n) => \A p \in Pollers : pc[p].at = "idle"
ResetsBetweenPolls == [][ResetIdle]_vars

\* What a poll at a feed started from is still the feed's saved position.
StartIsSaved ==
  \A p \in Pollers :
    /\ pc[p].at = "asked" => pc[p].n = position[pc[p].feed]
    /\ pc[p].at = "answered" => pc[p].from = position[pc[p].feed]

\* A step that leaves the positions alone and takes no poller to a feed.
LEMMA StartKept ==
  ASSUME StartIsSaved, position' = position,
         \A p \in Pollers : pc'[p] = pc[p] \/ pc'[p].at \notin {"asked", "answered"}
  PROVE  StartIsSaved'
BY DEF StartIsSaved

\* Where Goto and Enter may take a poller, and that the others stay.
LEMMA Moves ==
  ASSUME PollTypeOK, NEW p \in Pollers
  PROVE  /\ \A w : Goto(p, w) => pc'[p] = w /\ \A q \in Pollers \ {p} : pc'[q] = pc[q]
         /\ \A n \in Nat : Enter(p, n) => /\ pc'[p].at \in {"reading", "idle"}
                                          /\ \A q \in Pollers \ {p} : pc'[q] = pc[q]
<1>1. \A w : Goto(p, w) => pc'[p] = w /\ \A q \in Pollers \ {p} : pc'[q] = pc[q]
  BY DEF Goto, PollTypeOK
<1>2. QED
  BY <1>1 DEF Enter

LEMMA StartStep ==
  ASSUME TypeOK, StartIsSaved, PollsAlone, [Next]_vars,
         \A n \in DOMAIN Registry : Reset(n) => \A p \in Pollers : pc[p].at = "idle"
  PROVE  StartIsSaved'
<1>0. PollTypeOK
  BY TypeParts
<1>1. ASSUME NEW p \in Pollers, Ask(p)
      PROVE  StartIsSaved'
  <2>1. PICK f \in left[p] : Goto(p, [at |-> "asked", feed |-> f, n |-> position[f]])
    BY <1>1 DEF Ask
  <2>2. position' = position
    BY <1>1 DEF Ask
  <2>3. QED
    BY <1>0, <2>1, <2>2, Moves DEF StartIsSaved
<1>2. ASSUME NEW p \in Pollers, NEW f \in Feeds, Answer(p, f)
      PROVE  StartIsSaved'
  <2>1. /\ pc[p].at = "asked" /\ pc[p].feed = f
        /\ position' = position
        /\ \/ Goto(p, [at |-> "reading"])
           \/ Goto(p, [at |-> "answered", feed |-> f, n |-> Reached(f, pc[p].n),
                       from |-> pc[p].n])
    BY <1>2 DEF Answer
  <2>2. \/ pc'[p].at = "reading"
        \/ pc'[p].at = "answered" /\ pc'[p].feed = f /\ pc'[p].from = position[f]
    BY <1>0, <2>1, Moves DEF StartIsSaved
  <2>3. \A q \in Pollers \ {p} : pc'[q] = pc[q]
    BY <1>0, <2>1, Moves
  <2>4. QED
    BY <2>1, <2>2, <2>3 DEF StartIsSaved
<1>3. ASSUME NEW p \in Pollers, Save(p)
      PROVE  StartIsSaved'
  <2>1. pc[p].at = "answered" /\ pc'[p].at = "reading"
    BY <1>0, <1>3, Moves DEF Save
  <2>2. \A q \in Pollers \ {p} : pc'[q].at = "idle"
    BY <1>0, <1>3, <2>1, Moves DEF Save, PollsAlone
  <2>3. QED
    BY <2>1, <2>2 DEF StartIsSaved
<1>4. ASSUME NEW p \in Pollers, Fail(p) \/ AllRead(p) \/ Store(p)
      PROVE  StartIsSaved'
  BY <1>0, <1>4, Moves, StartKept DEF Fail, AllRead, Store
<1>5. ASSUME NEW p \in Pollers, StartPoll(p) \/ StoreRaises(p) \/ NextSource(p) \/ Crash(p)
      PROVE  StartIsSaved'
  <2>1. position' = position
    BY <1>5 DEF StartPoll, StoreRaises, NextSource, Crash
  <2>2. \E n \in Nat : Enter(p, n)
    BY <1>0, <1>5, RegistryType DEF StartPoll, StoreRaises, NextSource, Crash, Stop, PollTypeOK
  <2>3. QED
    BY <1>0, <2>1, <2>2, Moves, StartKept
<1>6. ASSUME NEW n \in DOMAIN Registry, Reset(n)
      PROVE  StartIsSaved'
  BY <1>6 DEF Reset, pollVars, StartIsSaved
<1>7. CASE \/ \E f \in Feeds : Publish(f)
           \/ \E a \in Accounts : Remove(a)
           \/ UNCHANGED vars
  BY <1>7, StartKept DEF Publish, Remove, vars, pollVars
<1>8. QED
  BY <1>1, <1>2, <1>3, <1>4, <1>5, <1>6, <1>7 DEF Next, PollStep

\* `icr source reset`, used between polls that do not overlap, does what its
\* documentation says: the position comes back only by a read without one.
THEOREM ResetsHold == Spec /\ []PollsAlone /\ ResetsBetweenPolls => ResetHolds
<1>1. Init => StartIsSaved
  BY DEF Init, StartIsSaved
<1>2. TypeOK /\ StartIsSaved /\ PollsAlone /\ [Next]_vars /\ [ResetIdle]_vars => StartIsSaved'
  <2>1. CASE UNCHANGED vars
    BY <2>1 DEF vars, pollVars, StartIsSaved
  <2>2. CASE ResetIdle
    BY <2>2, StartStep DEF ResetIdle
  <2>3. QED
    BY <2>1, <2>2
<1>3. ASSUME TypeOK, StartIsSaved, [Next]_vars, NEW f \in Feeds,
             position[f] = 0, position'[f] # 0
      PROVE  \E p \in Pollers : /\ pc[p].at = "answered" /\ pc[p].feed = f
                                /\ pc[p].from = 0
  <2>1. PICK p \in Pollers : Save(p)
    BY <1>3 DEF Next, PollStep, StartPoll, Ask, Answer, Fail, AllRead, Store, StoreRaises,
         NextSource, Crash, Publish, Remove, Reset, vars, TypeOK
  <2>2. pc[p].at = "answered" /\ position' = [position EXCEPT ![pc[p].feed] = pc[p].n]
    BY <1>3, <2>1 DEF Save
  <2>3. pc[p].feed = f
    BY <1>3, <2>2 DEF TypeOK
  <2>4. QED
    BY <1>3, <2>2, <2>3 DEF StartIsSaved
<1>4. TypeOK /\ StartIsSaved /\ [Next]_vars
        => [\A f \in Feeds : position[f] = 0 /\ position'[f] # 0
              => \E p \in Pollers : /\ pc[p].at = "answered" /\ pc[p].feed = f
                                     /\ pc[p].from = 0]_vars
  BY <1>3
<1>5. QED
  BY <1>1, <1>2, <1>4, TypeCorrect, PTL DEF Spec, ResetHolds, ResetsBetweenPolls
=============================================================================
