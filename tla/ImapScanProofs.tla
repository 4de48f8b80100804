---------------------------- MODULE ImapScanProofs ----------------------------
(***************************************************************************)
(* Proofs about ImapScan, for any folders, messages, limits and number of  *)
(* readers, and any number of failures and recreated folders.              *)
(***************************************************************************)
EXTENDS ImapScan, FiniteSetTheorems, TLAPS

InFolder(r) == pc[r].at \in {"status", "listed"}

\* UIDs ascend within a folder, and 1 is the first UIDVALIDITY.
UidsAscend ==
  /\ \A m \in Messages : uid[m] < uidnext[Home[m]]
  /\ \A m \in expunged : uid[m] = 0
  /\ \A f \in Folders : uidvalidity[f] # 1 => "renumbered" \in mishaps[f]

\* A position of folder f is not ahead of the folder.
NotAhead(c, f) ==
  /\ c.uidvalidity <= uidvalidity[f]
  /\ c.uidvalidity = uidvalidity[f] => c.uid < uidnext[f]

PositionsInRange ==
  /\ \A f \in Folders : NotAhead(cursor[f], f)
  /\ \A r \in Readers, f \in Folders : NotAhead(cursors[r][f], f)
  /\ \A r \in Readers : InFolder(r) =>
       LET f == pc[r].folder IN
         /\ pc[r].uidvalidity <= uidvalidity[f]
         /\ pc[r].uidvalidity = uidvalidity[f] => pc[r].uidnext <= uidnext[f]

\* What the positions of an unfinished scan claim it has found, or another one.
ScanCovered ==
  \A r \in Readers : pc[r].at # "idle" =>
    \A m \in Matching :
      Claimed(cursors[r][Home[m]], m) => m \in delivered \union read[r] \/ Excused(m)

\* A listing that was not capped is complete up to UIDNEXT, and one that was
\* is up to its last message, as far as it was asked for.
ListingComplete ==
  \A r \in Readers : pc[r].at = "listed" =>
    /\ \A h \in pc[r].hits :
         /\ Home[h] = pc[r].folder
         /\ uid[h] = 0 => h \in expunged /\ "short" \in mishaps[pc[r].folder]
    /\ pc[r].uidvalidity = uidvalidity[pc[r].folder] =>
         \A m \in In(pc[r].folder) \intersect Matching :
           \/ m \in pc[r].hits
           \/ uid[m] <= Floor(r)
           \/ Excused(m)
           \/ /\ \A h \in pc[r].hits : uid[h] < uid[m]
              /\ Cardinality(pc[r].hits) = Limit \/ pc[r].uidnext <= uid[m]

Inv ==
  /\ TypeOK /\ UidsAscend /\ PositionsInRange
  /\ NothingStranded /\ ScanCovered /\ ListingComplete

-----------------------------------------------------------------------------
(* The sets the module is built from                                       *)

\* A reader in a folder has that folder and what STATUS said of it.
LEMMA PCForms ==
  ASSUME NEW q \in PCs
  PROVE  /\ q.at \in {"idle", "between", "status", "listed"}
         /\ q.at \in {"status", "listed"} =>
              q.folder \in Folders /\ q.uidvalidity \in Nat /\ q.uidnext \in Nat
         /\ q.at = "listed" => q.hits \in SUBSET Matching
BY DEF PCs

\* What a folder holds can be counted.
LEMMA InCount ==
  ASSUME NEW f \in Folders, NEW S \in SUBSET In(f)
  PROVE  /\ Cardinality(S) \in Nat
         /\ Cardinality(S) <= Cardinality(In(f))
         /\ Cardinality(In(f)) \in Nat
<1>1. In(f) \subseteq Messages
  BY DEF In
<1>2. IsFiniteSet(In(f))
  BY <1>1, ImapAssumption, FS_Subset
<1>3. QED
  BY <1>2, FS_Subset, FS_CardinalityType

\* A position a positioned read starts from, and the floor otherwise.
LEMMA FloorType ==
  ASSUME TypeOK, NEW r \in Readers, InFolder(r)
  PROVE  /\ Floor(r) \in Nat
         /\ Floor(r) # 0 => /\ cursors[r][pc[r].folder].uidvalidity = pc[r].uidvalidity
                            /\ cursors[r][pc[r].folder].uid = Floor(r)
<1>1. pc[r].folder \in Folders
  BY PCForms DEF InFolder, TypeOK
<1>2. cursors[r][pc[r].folder] \in FolderCursor
  BY <1>1 DEF TypeOK
<1>3. QED
  BY <1>2 DEF Floor, Positioned, FolderCursor, NoCursor

\* What a fetch may claim is a number.
LEMMA ClaimsType ==
  ASSUME TypeOK, NEW r \in Readers, pc[r].at = "listed", NEW n \in Claims(r),
         \A k \in Claims(r) : k <= n
  PROVE  n \in Nat
<1>1. Floor(r) \in Nat /\ Floor(r) \in Claims(r)
  BY FloorType DEF Claims, InFolder
<1>2. pc[r].uidnext \in Nat /\ \A m \in Kept(r) : uid[m] \in Nat
  BY PCForms, ImapAssumption DEF TypeOK, Kept, Fetched
<1>3. n \in Int
  BY <1>1, <1>2 DEF Claims
<1>4. QED
  BY <1>1, <1>3

-----------------------------------------------------------------------------
(* Type correctness                                                        *)

\* Nothing has arrived and nothing is claimed at first.
LEMMA InvInit == Init => Inv
<1> SUFFICES ASSUME Init
             PROVE  Inv
  OBVIOUS
<1> USE ImapAssumption DEF Init
<1>1. TypeOK
  BY DEF TypeOK, PCs, FolderCursor
<1>2. UidsAscend /\ PositionsInRange
  BY DEF UidsAscend, PositionsInRange, NotAhead, NoCursor, InFolder
<1>3. NothingStranded /\ ScanCovered /\ ListingComplete
  BY DEF NothingStranded, Claimed, NoCursor, ScanCovered, ListingComplete
<1>4. QED
  BY <1>1, <1>2, <1>3 DEF Inv

\* Every step keeps the types.
LEMMA TypeStep ==
  ASSUME TypeOK, [Next]_vars
  PROVE  TypeOK'
<1> USE ImapAssumption DEF TypeOK, serverVars, Goto
<1>1. ASSUME NEW m \in Messages, Arrive(m)
      PROVE  TypeOK'
  BY <1>1 DEF Arrive
<1>2. ASSUME NEW m \in Messages, Expunge(m)
      PROVE  TypeOK'
  BY <1>2 DEF Expunge
<1>3. ASSUME NEW f \in Folders, Renumber(f)
      PROVE  TypeOK'
  <2>1. \A m \in Messages : {k \in In(f) : uid[k] <= uid[m]} \in SUBSET In(f)
    OBVIOUS
  <2>2. uid' \in [Messages -> Nat]
    BY <1>3, <2>1, InCount DEF Renumber
  <2>3. uidnext' \in [Folders -> Nat \ {0}]
    BY <1>3, InCount DEF Renumber
  <2>4. QED
    BY <1>3, <2>2, <2>3 DEF Renumber
<1>4. ASSUME NEW r \in Readers, StartScan(r)
      PROVE  TypeOK'
  BY <1>4 DEF StartScan, PCs
<1>5. ASSUME NEW r \in Readers, NEW f \in Folders, Status(r, f)
      PROVE  TypeOK'
  <2>1. PICK n \in {1, uidnext[f]} :
          Goto(r, [at |-> "status", folder |-> f, uidvalidity |-> uidvalidity[f], uidnext |-> n])
    BY <1>5 DEF Status
  <2>2. [at |-> "status", folder |-> f, uidvalidity |-> uidvalidity[f], uidnext |-> n] \in PCs
    BY <2>1 DEF PCs
  <2>3. QED
    BY <1>5, <2>1, <2>2 DEF Status
<1>6. ASSUME NEW r \in Readers, NEW f \in Folders, StatusRefused(r, f)
      PROVE  TypeOK'
  <2>1. [at |-> "status", folder |-> f, uidvalidity |-> 0, uidnext |-> 1] \in PCs
    BY DEF PCs
  <2>2. QED
    BY <1>6, <2>1 DEF StatusRefused, Fault
<1>7. ASSUME NEW r \in Readers, Search(r)
      PROVE  TypeOK'
  <2>1. PICK H \in SUBSET Wanted(r) :
          Goto(r, [at |-> "listed", folder |-> pc[r].folder, hits |-> H,
                   uidvalidity |-> pc[r].uidvalidity, uidnext |-> pc[r].uidnext])
    BY <1>7 DEF Search
  <2>2. H \in SUBSET Matching
    BY <2>1 DEF Wanted
  <2>3. [at |-> "listed", folder |-> pc[r].folder, hits |-> H,
         uidvalidity |-> pc[r].uidvalidity, uidnext |-> pc[r].uidnext] \in PCs
    BY <1>7, <2>2, PCForms DEF Search, PCs
  <2>4. QED
    BY <1>7, <2>1, <2>3 DEF Search
<1>8. ASSUME NEW r \in Readers, Fetch(r)
      PROVE  TypeOK'
  <2>1. PICK n \in Claims(r) : /\ \A k \in Claims(r) : k <= n
                               /\ cursors' = Advanced(r, n)
    BY <1>8 DEF Fetch
  <2>2. n \in Nat /\ pc[r].folder \in Folders /\ pc[r].uidvalidity \in Nat
    BY <1>8, <2>1, ClaimsType, PCForms DEF Fetch
  <2>3. cursors' \in [Readers -> [Folders -> FolderCursor]]
    BY <2>1, <2>2 DEF Advanced, FolderCursor
  <2>4. Kept(r) \in SUBSET Matching
    BY <1>8, PCForms DEF Fetch, Kept, Fetched
  <2>5. QED
    BY <1>8, <2>3, <2>4 DEF Fetch, PCs
<1>9. ASSUME NEW r \in Readers, SkipFolder(r) \/ Save(r) \/ GiveUp(r)
      PROVE  TypeOK'
  <2>1. [at |-> "between"] \in PCs /\ [at |-> "idle"] \in PCs
    BY DEF PCs
  <2>2. cursor' \in [Folders -> FolderCursor] /\ delivered' \in SUBSET Matching
    BY <1>9 DEF SkipFolder, Save, GiveUp
  <2>3. todo' \in [Readers -> SUBSET Folders] /\ faults' \in 0 .. MaxFaults
    BY <1>9 DEF SkipFolder, Save, GiveUp, Fault
  <2>4. QED
    BY <1>9, <2>1, <2>2, <2>3 DEF SkipFolder, Save, GiveUp
<1>10. CASE UNCHANGED vars
  BY <1>10 DEF vars
<1>11. QED
  BY <1>1, <1>2, <1>3, <1>4, <1>5, <1>6, <1>7, <1>8, <1>9, <1>10 DEF Next, ScanStep

\* The types of every variable.
THEOREM TypeCorrect == Spec => []TypeOK
<1>1. Init => TypeOK
  BY InvInit DEF Inv
<1>2. QED
  BY <1>1, TypeStep, PTL DEF Spec

-----------------------------------------------------------------------------
(* UIDs and positions                                                      *)

\* UIDs go on ascending.
LEMMA UidStep ==
  ASSUME TypeOK, UidsAscend, [Next]_vars
  PROVE  UidsAscend'
<1> USE ImapAssumption DEF TypeOK, UidsAscend
<1>1. ASSUME NEW m \in Messages, Arrive(m)
      PROVE  UidsAscend'
  BY <1>1 DEF Arrive
<1>2. ASSUME NEW m \in Messages, Expunge(m)
      PROVE  UidsAscend'
  BY <1>2 DEF Expunge
<1>3. ASSUME NEW f \in Folders, Renumber(f)
      PROVE  UidsAscend'
  <2>1. ASSUME NEW m \in Messages
        PROVE  uid'[m] < uidnext'[Home[m]]
    <3>1. CASE m \in In(f)
      <4>1. /\ Cardinality({k \in In(f) : uid[k] <= uid[m]}) \in Nat
            /\ Cardinality({k \in In(f) : uid[k] <= uid[m]}) <= Cardinality(In(f))
            /\ Cardinality(In(f)) \in Nat
        BY InCount
      <4>2. Home[m] = f
        BY <3>1 DEF In
      <4>3. QED
        BY <1>3, <3>1, <4>1, <4>2 DEF Renumber
    <3>2. CASE m \notin In(f) /\ Home[m] = f
      <4>1. uid[m] = 0 /\ Cardinality(In(f)) \in Nat
        BY <3>2, InCount DEF In
      <4>2. QED
        BY <1>3, <3>2, <4>1 DEF Renumber
    <3>3. CASE Home[m] # f
      BY <1>3, <3>3 DEF Renumber, In
    <3>4. QED
      BY <3>1, <3>2, <3>3
  <2>2. \A m \in expunged' : uid'[m] = 0
    BY <1>3 DEF Renumber, In
  <2>3. \A g \in Folders : uidvalidity'[g] # 1 => "renumbered" \in mishaps'[g]
    BY <1>3 DEF Renumber
  <2>4. QED
    BY <2>1, <2>2, <2>3
<1>4. ASSUME NEW r \in Readers, NEW f \in Folders, StatusRefused(r, f)
      PROVE  UidsAscend'
  BY <1>4 DEF StatusRefused, serverVars
<1>5. CASE UNCHANGED <<serverVars, mishaps>>
  BY <1>5 DEF serverVars
<1>6. QED
  BY <1>1, <1>2, <1>3, <1>4, <1>5
     DEF Next, ScanStep, vars, StartScan, Status, Search, Fetch, SkipFolder, Save, GiveUp

\* A folder is recreated, or it keeps its UIDVALIDITY and counts on.
LEMMA FolderStep ==
  ASSUME TypeOK, [Next]_vars, NEW f \in Folders
  PROVE  /\ \/ uidvalidity'[f] = uidvalidity[f] /\ uidnext[f] <= uidnext'[f]
            \/ uidvalidity'[f] = uidvalidity[f] + 1
         /\ uidnext[f] \in Nat /\ uidnext'[f] \in Nat /\ uidvalidity[f] \in Nat
<1> USE ImapAssumption DEF TypeOK
<1>1. ASSUME NEW m \in Messages, Arrive(m)
      PROVE  uidvalidity' = uidvalidity /\ uidnext[f] <= uidnext'[f]
  BY <1>1 DEF Arrive
<1>2. ASSUME NEW g \in Folders, Renumber(g)
      PROVE  \/ uidvalidity'[f] = uidvalidity[f] /\ uidnext'[f] = uidnext[f]
             \/ uidvalidity'[f] = uidvalidity[f] + 1
  BY <1>2 DEF Renumber
<1>3. \/ UNCHANGED <<uidnext, uidvalidity>>
      \/ \E m \in Messages : Arrive(m)
      \/ \E g \in Folders : Renumber(g)
  BY DEF Next, ScanStep, vars, serverVars, Expunge, StartScan, Status, StatusRefused,
         Search, Fetch, SkipFolder, Save, GiveUp
<1>4. \/ uidvalidity'[f] = uidvalidity[f] /\ uidnext[f] <= uidnext'[f]
      \/ uidvalidity'[f] = uidvalidity[f] + 1
  BY <1>1, <1>2, <1>3
<1>5. uidnext'[f] \in Nat
  BY TypeStep
<1>6. QED
  BY <1>4, <1>5

\* A position that is not ahead of its folder stays so.
LEMMA NotAheadStep ==
  ASSUME TypeOK, [Next]_vars,
         NEW f \in Folders, NEW c \in FolderCursor, NotAhead(c, f)
  PROVE  NotAhead(c, f)'
<1>1. c.uidvalidity \in Nat /\ c.uid \in Nat
  BY DEF FolderCursor, NoCursor
<1>2. QED
  BY <1>1, FolderStep DEF NotAhead

\* The position a fetch takes is not ahead of its folder either.
LEMMA ClaimNotAhead ==
  ASSUME TypeOK, UidsAscend, PositionsInRange, ListingComplete,
         NEW r \in Readers, pc[r].at = "listed", NEW n \in Claims(r)
  PROVE  pc[r].uidvalidity = uidvalidity[pc[r].folder] => n < uidnext[pc[r].folder]
<1> DEFINE f == pc[r].folder
<1>0. /\ f \in Folders /\ pc[r].uidnext \in Nat /\ InFolder(r)
      /\ pc[r].hits \in SUBSET Messages
  BY PCForms, ImapAssumption DEF TypeOK, InFolder
<1>1. SUFFICES ASSUME pc[r].uidvalidity = uidvalidity[f]
               PROVE  n < uidnext[f]
  OBVIOUS
<1>2. uidnext[f] \in Nat \ {0} /\ pc[r].uidnext <= uidnext[f]
  BY <1>0, <1>1 DEF PositionsInRange, TypeOK
<1>3. CASE n = Floor(r)
  BY <1>0, <1>1, <1>2, <1>3, FloorType DEF PositionsInRange, NotAhead
<1>4. CASE \E m \in Kept(r) : n = uid[m]
  BY <1>0, <1>4 DEF Kept, Fetched, ListingComplete, UidsAscend
<1>5. CASE n = pc[r].uidnext - 1
  BY <1>0, <1>2, <1>5
<1>6. QED
  BY <1>3, <1>4, <1>5 DEF Claims

\* No position gets ahead of its folder.
LEMMA RangeStep ==
  ASSUME TypeOK, UidsAscend, PositionsInRange, ListingComplete, [Next]_vars
  PROVE  PositionsInRange'
<1>0. ASSUME NEW c \in FolderCursor, NEW f \in Folders, NotAhead(c, f)
      PROVE  NotAhead(c, f)'
  BY <1>0, NotAheadStep
<1>1. \A f \in Folders : NotAhead(cursor[f], f)'
  <2>1. ASSUME NEW f \in Folders
        PROVE  \/ cursor'[f] = cursor[f]
               \/ \E r \in Readers : cursor'[f] = cursors[r][f]
    BY DEF Next, ScanStep, vars, Arrive, Expunge, Renumber, StartScan, Status,
           StatusRefused, Search, Fetch, SkipFolder, Save, GiveUp
  <2>2. ASSUME NEW f \in Folders, NEW c \in FolderCursor, NotAhead(c, f), cursor'[f] = c
        PROVE  NotAhead(cursor[f], f)'
    BY <1>0, <2>2 DEF NotAhead
  <2>3. QED
    BY <2>1, <2>2 DEF PositionsInRange, TypeOK
<1>2. \A r \in Readers, f \in Folders : NotAhead(cursors[r][f], f)'
  <2>1. ASSUME NEW r \in Readers, NEW f \in Folders, NEW c \in FolderCursor,
               NotAhead(c, f), cursors'[r][f] = c
        PROVE  NotAhead(cursors[r][f], f)'
    BY <1>0, <2>1 DEF NotAhead
  <2>2. CASE UNCHANGED cursors
    BY <2>1, <2>2 DEF PositionsInRange, TypeOK
  <2>3. ASSUME NEW q \in Readers, StartScan(q)
        PROVE  \A r \in Readers, f \in Folders : NotAhead(cursors[r][f], f)'
    <3>1. \A r \in Readers : cursors'[r] = cursors[r] \/ cursors'[r] = cursor
      BY <2>3 DEF StartScan, TypeOK
    <3>2. QED
      BY <2>1, <3>1 DEF PositionsInRange, TypeOK
  <2>4. ASSUME NEW q \in Readers, Fetch(q)
        PROVE  \A r \in Readers, f \in Folders : NotAhead(cursors[r][f], f)'
    <3>1. PICK n \in Claims(q) : /\ \A k \in Claims(q) : k <= n
                                 /\ cursors' = Advanced(q, n)
      BY <2>4 DEF Fetch
    <3>2. /\ n \in Nat /\ pc[q].folder \in Folders /\ pc[q].uidvalidity \in Nat
          /\ pc[q].uidvalidity <= uidvalidity[pc[q].folder]
      BY <2>4, <3>1, ClaimsType, PCForms DEF Fetch, PositionsInRange, InFolder, TypeOK
    <3>3. pc[q].uidvalidity = uidvalidity[pc[q].folder] => n < uidnext[pc[q].folder]
      BY <2>4, <3>1, ClaimNotAhead DEF Fetch
    <3>4. UNCHANGED <<uidvalidity, uidnext>>
      BY <2>4 DEF Fetch, serverVars
    <3>5. ASSUME NEW r \in Readers, NEW f \in Folders
          PROVE  \/ cursors'[r][f] = cursors[r][f]
                 \/ /\ f = pc[q].folder
                    /\ cursors'[r][f] = [uidvalidity |-> pc[q].uidvalidity, uid |-> n]
      BY <3>1, <3>2 DEF Advanced, TypeOK
    <3>6. QED
      BY <3>2, <3>3, <3>4, <3>5 DEF NotAhead, PositionsInRange
  <2>5. QED
    BY <2>2, <2>3, <2>4
       DEF Next, ScanStep, vars, Arrive, Expunge, Renumber, Status, StatusRefused, Search,
           SkipFolder, Save, GiveUp
<1>3. ASSUME NEW r \in Readers, InFolder(r)'
      PROVE  /\ (pc[r].uidvalidity <= uidvalidity[pc[r].folder])'
             /\ (pc[r].uidvalidity = uidvalidity[pc[r].folder]
                   => pc[r].uidnext <= uidnext[pc[r].folder])'
  <2>1. ASSUME InFolder(r), NEW f \in Folders, NEW v \in Nat, NEW n \in Nat,
               pc[r].folder = f, pc[r].uidvalidity = v, pc[r].uidnext = n,
               pc'[r].folder = f, pc'[r].uidvalidity = v, pc'[r].uidnext = n
        PROVE  /\ pc'[r].uidvalidity <= uidvalidity'[pc'[r].folder]
               /\ pc'[r].uidvalidity = uidvalidity'[pc'[r].folder]
                    => pc'[r].uidnext <= uidnext'[pc'[r].folder]
    BY <2>1, FolderStep DEF PositionsInRange
  <2>2. CASE pc'[r] = pc[r]
    BY <1>3, <2>1, <2>2, PCForms DEF InFolder, TypeOK
  <2>3. CASE Search(r)
    <3>1. InFolder(r) /\ pc[r] \in PCs
      BY <2>3 DEF Search, InFolder, TypeOK
    <3>2. /\ pc'[r].folder = pc[r].folder /\ pc'[r].uidvalidity = pc[r].uidvalidity
          /\ pc'[r].uidnext = pc[r].uidnext
      BY <2>3 DEF Search, Goto, TypeOK
    <3>3. QED
      BY <2>1, <3>1, <3>2, PCForms DEF InFolder
  <2>4. ASSUME NEW f \in Folders, Status(r, f) \/ StatusRefused(r, f)
        PROVE  /\ pc'[r].uidvalidity <= uidvalidity'[pc'[r].folder]
               /\ pc'[r].uidvalidity = uidvalidity'[pc'[r].folder]
                    => pc'[r].uidnext <= uidnext'[pc'[r].folder]
    BY <2>4 DEF Status, StatusRefused, Goto, serverVars, TypeOK
  <2>5. QED
    <3>1. ASSUME NEW q \in Readers, NEW w, Goto(q, w), q # r
          PROVE  pc'[r] = pc[r]
      BY <3>1 DEF Goto, TypeOK
    <3>2. ASSUME NEW w, Goto(r, w), w.at \in {"idle", "between"}
          PROVE  FALSE
      BY <1>3, <3>2 DEF Goto, InFolder, TypeOK
    <3>3. ASSUME NEW q \in Readers, ScanStep(q)
          PROVE  \/ pc'[r] = pc[r] \/ Search(r)
                 \/ \E f \in Folders : Status(r, f) \/ StatusRefused(r, f)
      BY <3>1, <3>2, <3>3 DEF ScanStep, StartScan, Status, StatusRefused, Search, Fetch,
                              SkipFolder, Save, GiveUp
    <3>4. QED
      BY <2>2, <2>3, <2>4, <3>3 DEF Next, vars, Arrive, Expunge, Renumber
<1>4. QED
  BY <1>1, <1>2, <1>3 DEF PositionsInRange

-----------------------------------------------------------------------------
(* What a position claims has been found                                   *)

\* A mishap is remembered.
LEMMA MishapsStay ==
  ASSUME TypeOK, [Next]_vars, NEW f \in Folders
  PROVE  mishaps[f] \subseteq mishaps'[f]
<1>1. \/ UNCHANGED mishaps
      \/ \E g \in Folders : \E x : mishaps' = [mishaps EXCEPT ![g] = @ \union {x}]
  BY ImapAssumption
     DEF Next, ScanStep, vars, Arrive, Expunge, Renumber, StartScan, Status,
         StatusRefused, Search, Fetch, SkipFolder, Save, GiveUp
<1>2. QED
  BY <1>1 DEF TypeOK

\* What excuses a message goes on doing so.
LEMMA ExcusedStep ==
  ASSUME TypeOK, [Next]_vars, NEW m \in Messages, Excused(m)
  PROVE  Excused(m)'
BY MishapsStay, ImapAssumption DEF Excused

\* A message that arrives is past every position, and a recreated folder voids
\* them all: no step makes an old position claim more.
LEMMA NoNewClaim ==
  ASSUME TypeOK, UidsAscend, [Next]_vars,
         NEW m \in Messages, NEW c \in FolderCursor, NotAhead(c, Home[m]), Claimed(c, m)'
  PROVE  Claimed(c, m)
<1> USE ImapAssumption DEF TypeOK, Claimed, NotAhead
<1>0. c.uidvalidity \in Nat /\ c.uid \in Nat /\ Home[m] \in Folders
  BY DEF FolderCursor, NoCursor
<1>1. ASSUME NEW k \in Messages, Arrive(k)
      PROVE  Claimed(c, m)
  <2>1. CASE m = k
    BY <1>0, <1>1, <2>1 DEF Arrive
  <2>2. CASE m # k
    BY <1>1, <2>2 DEF Arrive
  <2>3. QED
    BY <2>1, <2>2
<1>2. ASSUME NEW k \in Messages, Expunge(k)
      PROVE  Claimed(c, m)
  BY <1>2 DEF Expunge
<1>3. ASSUME NEW f \in Folders, Renumber(f)
      PROVE  Claimed(c, m)
  <2>1. CASE Home[m] = f
    BY <1>0, <1>3, <2>1 DEF Renumber
  <2>2. CASE Home[m] # f
    <3>1. uid'[m] = uid[m] /\ uidvalidity'[Home[m]] = uidvalidity[Home[m]]
      BY <1>0, <1>3, <2>2 DEF Renumber, In
    <3>2. QED
      BY <3>1
  <2>3. QED
    BY <2>1, <2>2
<1>4. CASE UNCHANGED serverVars
  BY <1>4 DEF serverVars
<1>5. QED
  BY <1>1, <1>2, <1>3, <1>4
     DEF Next, ScanStep, vars, StartScan, Status, StatusRefused, Search, Fetch,
         SkipFolder, Save, GiveUp

\* Saved positions claim what finished scans have returned.
LEMMA StrandedStep ==
  ASSUME Inv, [Next]_vars
  PROVE  NothingStranded'
<1>0. TypeOK /\ UidsAscend /\ PositionsInRange /\ NothingStranded /\ ScanCovered
  BY DEF Inv
<1>1. SUFFICES ASSUME NEW m \in Matching, Claimed(cursor[Home[m]], m)'
               PROVE  (m \in delivered \/ Excused(m))'
  BY DEF NothingStranded
<1>2. m \in Messages /\ Home[m] \in Folders
  BY ImapAssumption
<1>3. ASSUME NEW c \in FolderCursor, NotAhead(c, Home[m]), cursor'[Home[m]] = c
      PROVE  Claimed(c, m)
  <2>1. Claimed(c, m)'
    BY <1>1, <1>3 DEF Claimed
  <2>2. QED
    BY <1>0, <1>2, <1>3, <2>1, NoNewClaim
<1>4. CASE cursor' = cursor
  <2>1. Claimed(cursor[Home[m]], m)
    BY <1>0, <1>2, <1>3, <1>4 DEF PositionsInRange, TypeOK
  <2>2. delivered \subseteq delivered'
    BY DEF Next, ScanStep, vars, Arrive, Expunge, Renumber, StartScan, Status,
           StatusRefused, Search, Fetch, SkipFolder, Save, GiveUp
  <2>3. QED
    BY <1>0, <1>2, <2>1, <2>2, ExcusedStep DEF NothingStranded
<1>5. ASSUME NEW r \in Readers, Save(r)
      PROVE  (m \in delivered \/ Excused(m))'
  <2>1. Claimed(cursors[r][Home[m]], m)
    BY <1>0, <1>2, <1>3, <1>5 DEF Save, PositionsInRange, TypeOK
  <2>2. m \in delivered \union read[r] \/ Excused(m)
    BY <1>0, <1>5, <2>1 DEF Save, ScanCovered
  <2>3. QED
    BY <1>0, <1>2, <1>5, <2>2, ExcusedStep DEF Save
<1>6. QED
  BY <1>4, <1>5
     DEF Next, ScanStep, vars, Arrive, Expunge, Renumber, StartScan, Status,
         StatusRefused, Search, Fetch, SkipFolder, GiveUp

\* The new position of a fetch claims what it has found, whatever happened
\* between its requests.
LEMMA FetchCovers ==
  ASSUME Inv, NEW r \in Readers, pc[r].at = "listed", NEW n \in Claims(r),
         pc[r].uidvalidity = uidvalidity[pc[r].folder],
         NEW m \in Matching, Home[m] = pc[r].folder, uid[m] # 0, uid[m] <= n
  PROVE  m \in delivered \union read[r] \union Kept(r) \/ Excused(m)
<1> DEFINE f == pc[r].folder
<1>0. /\ TypeOK /\ ScanCovered /\ ListingComplete
      /\ f \in Folders /\ pc[r].uidnext \in Nat /\ InFolder(r)
      /\ pc[r].hits \in SUBSET Matching /\ m \in Messages /\ uid[m] \in Nat
  BY PCForms, ImapAssumption DEF Inv, TypeOK, InFolder
<1>1. Floor(r) \in Nat
  BY <1>0, FloorType
<1>2. CASE uid[m] <= Floor(r)
  <2>1. Claimed(cursors[r][f], m)
    BY <1>0, <1>1, <1>2, FloorType DEF Claimed
  <2>2. QED
    BY <1>0, <2>1 DEF ScanCovered
<1>3. CASE m \in pc[r].hits /\ ~(uid[m] <= Floor(r))
  BY <1>0, <1>1, <1>3 DEF Kept, Fetched
<1>4. CASE /\ "short" \notin mishaps[f]
           /\ ~(uid[m] <= Floor(r))
           /\ \A h \in pc[r].hits : uid[h] < uid[m]
           /\ Cardinality(pc[r].hits) = Limit \/ pc[r].uidnext <= uid[m]
  <2>1. Fetched(r) = pc[r].hits
    BY <1>0, <1>4 DEF Fetched, ListingComplete
  <2>2. n # Floor(r)
    BY <1>1, <1>4
  <2>3. \A k \in Kept(r) : uid[k] # n
    BY <1>0, <1>4, <2>1, ImapAssumption DEF Kept, TypeOK
  <2>4. ~(Cardinality(Fetched(r)) >= Limit) /\ n = pc[r].uidnext - 1
    BY <2>2, <2>3 DEF Claims
  <2>5. QED
    BY <1>0, <1>4, <2>1, <2>4, ImapAssumption
<1>5. CASE "short" \in mishaps[f]
  BY <1>5 DEF Excused
<1>6. m \in In(f) \intersect Matching
  BY <1>0 DEF In
<1>7. QED
  BY <1>0, <1>2, <1>3, <1>4, <1>5, <1>6 DEF ListingComplete

\* The positions of a scan claim what it has found.
LEMMA ScanStepCovers ==
  ASSUME Inv, [Next]_vars
  PROVE  ScanCovered'
<1>0. /\ TypeOK /\ UidsAscend /\ PositionsInRange /\ NothingStranded /\ ScanCovered
      /\ ListingComplete
  BY DEF Inv
<1>1. SUFFICES ASSUME NEW r \in Readers, pc'[r].at # "idle", NEW m \in Matching,
                      Claimed(cursors[r][Home[m]], m)'
               PROVE  (m \in delivered \union read[r] \/ Excused(m))'
  BY DEF ScanCovered
<1>2. m \in Messages /\ Home[m] \in Folders
  BY ImapAssumption
<1>3. ASSUME NEW c \in FolderCursor, NotAhead(c, Home[m]), cursors'[r][Home[m]] = c
      PROVE  Claimed(c, m)
  <2>1. Claimed(c, m)'
    BY <1>1, <1>3 DEF Claimed
  <2>2. QED
    BY <1>0, <1>2, <1>3, <2>1, NoNewClaim
<1>4. delivered \subseteq delivered'
  BY DEF Next, ScanStep, vars, Arrive, Expunge, Renumber, StartScan, Status,
         StatusRefused, Search, Fetch, SkipFolder, Save, GiveUp
<1>5. CASE cursors'[r] = cursors[r] /\ read[r] \subseteq read'[r] /\ pc[r].at # "idle"
  <2>1. Claimed(cursors[r][Home[m]], m)
    BY <1>0, <1>2, <1>3, <1>5 DEF PositionsInRange, TypeOK
  <2>2. QED
    BY <1>0, <1>2, <1>4, <1>5, <2>1, ExcusedStep DEF ScanCovered
<1>6. CASE StartScan(r)
  <2>1. cursors'[r] = cursor /\ UNCHANGED delivered
    BY <1>0, <1>6 DEF StartScan, TypeOK
  <2>2. Claimed(cursor[Home[m]], m)
    BY <1>0, <1>2, <1>3, <2>1 DEF PositionsInRange, TypeOK
  <2>3. QED
    BY <1>0, <1>2, <2>1, <2>2, ExcusedStep DEF NothingStranded
<1>7. CASE Fetch(r)
  <2>1. PICK n \in Claims(r) : /\ \A k \in Claims(r) : k <= n
                               /\ cursors' = Advanced(r, n)
    BY <1>7 DEF Fetch
  <2>2. /\ pc[r].at = "listed" /\ pc[r].folder \in Folders /\ pc[r].uidvalidity \in Nat
        /\ read'[r] = read[r] \union Kept(r) /\ UNCHANGED <<serverVars, delivered>>
    BY <1>0, <1>7, PCForms DEF Fetch, TypeOK
  <2>3. CASE cursors'[r][Home[m]] = cursors[r][Home[m]]
    <3>1. Claimed(cursors[r][Home[m]], m)
      BY <1>0, <1>2, <1>3, <2>3 DEF PositionsInRange, TypeOK
    <3>2. QED
      BY <1>0, <1>2, <2>2, <3>1, ExcusedStep DEF ScanCovered
  <2>4. CASE /\ Home[m] = pc[r].folder
             /\ cursors'[r][Home[m]] = [uidvalidity |-> pc[r].uidvalidity, uid |-> n]
    <3>1. pc[r].uidvalidity = uidvalidity[pc[r].folder] /\ uid[m] # 0 /\ uid[m] <= n
      BY <1>1, <2>2, <2>4 DEF Claimed, serverVars
    <3>2. m \in delivered \union read[r] \union Kept(r) \/ Excused(m)
      BY <2>1, <2>2, <2>4, <3>1, FetchCovers
    <3>3. QED
      BY <1>0, <1>2, <2>2, <3>2, ExcusedStep
  <2>5. QED
    BY <1>0, <1>2, <2>1, <2>2, <2>3, <2>4 DEF Advanced, TypeOK
<1>8. ASSUME NEW q \in Readers, ScanStep(q), q # r
      PROVE  cursors'[r] = cursors[r] /\ read[r] \subseteq read'[r] /\ pc[r].at # "idle"
  <2>1. pc'[r] = pc[r]
    BY <1>0, <1>8 DEF ScanStep, StartScan, Status, StatusRefused, Search, Fetch, SkipFolder,
                      Save, GiveUp, Goto, TypeOK
  <2>2. cursors'[r] = cursors[r] /\ read'[r] = read[r]
    BY <1>0, <1>8 DEF ScanStep, StartScan, Status, StatusRefused, Search, Fetch, Advanced,
                      SkipFolder, Save, GiveUp, TypeOK
  <2>3. QED
    BY <1>1, <2>1, <2>2
<1>9. CASE \/ Search(r) \/ SkipFolder(r) \/ GiveUp(r) \/ Save(r)
           \/ \E f \in Folders : Status(r, f) \/ StatusRefused(r, f)
  BY <1>1, <1>5, <1>9 DEF Search, SkipFolder, Save, GiveUp, Status, StatusRefused, Goto
<1>10. QED
  BY <1>1, <1>5, <1>6, <1>7, <1>8, <1>9
     DEF Next, ScanStep, vars, Arrive, Expunge, Renumber

-----------------------------------------------------------------------------
(* A listing stays as good as it was                                       *)

\* The part of ListingComplete about one reader.
ListingOf(r) ==
  /\ \A h \in pc[r].hits :
       /\ Home[h] = pc[r].folder
       /\ uid[h] = 0 => h \in expunged /\ "short" \in mishaps[pc[r].folder]
  /\ pc[r].uidvalidity = uidvalidity[pc[r].folder] =>
       \A m \in In(pc[r].folder) \intersect Matching :
         \/ m \in pc[r].hits
         \/ uid[m] <= Floor(r)
         \/ Excused(m)
         \/ /\ \A h \in pc[r].hits : uid[h] < uid[m]
            /\ Cardinality(pc[r].hits) = Limit \/ pc[r].uidnext <= uid[m]

\* A search lists what is there: what it leaves out is before the position,
\* outside the rescan window of a recreated folder, or beyond the limit.
LEMMA SearchLists ==
  ASSUME Inv, NEW r \in Readers, Search(r)
  PROVE  ListingOf(r)'
<1> DEFINE f == pc[r].folder
<1>0. /\ TypeOK /\ UidsAscend /\ PositionsInRange /\ InFolder(r)
      /\ f \in Folders /\ pc[r].uidvalidity \in Nat
  BY PCForms DEF Inv, TypeOK, Search, InFolder
<1>1. PICK H \in SUBSET Wanted(r) :
        /\ IsCapped(H, Wanted(r))
        /\ Goto(r, [at |-> "listed", folder |-> f, hits |-> H,
                    uidvalidity |-> pc[r].uidvalidity, uidnext |-> pc[r].uidnext])
  BY DEF Search
<1>2. /\ pc'[r].folder = f /\ pc'[r].hits = H
      /\ pc'[r].uidvalidity = pc[r].uidvalidity /\ pc'[r].uidnext = pc[r].uidnext
  BY <1>0, <1>1 DEF Goto, TypeOK
<1>3. UNCHANGED <<uid, expunged, uidnext, uidvalidity, cursors, mishaps>>
  BY DEF Search, serverVars
<1>4. Floor(r)' = Floor(r)
  BY <1>2, <1>3 DEF Floor, Positioned
<1>5. \A h \in H : Home[h] = f /\ uid[h] # 0
  BY <1>1 DEF Wanted, In
<1>6. ASSUME NEW m \in In(f) \intersect Matching, pc[r].uidvalidity = uidvalidity[f]
      PROVE  \/ m \in H
             \/ uid[m] <= Floor(r)
             \/ Excused(m)
             \/ (\A h \in H : uid[h] < uid[m]) /\ Cardinality(H) = Limit
  <2>1. CASE m \in Wanted(r)
    BY <1>1, <2>1 DEF IsCapped
  <2>2. CASE m \notin Wanted(r) /\ Positioned(r)
    <3>1. m \in Messages /\ uid[m] \in Nat /\ Floor(r) \in Nat
      BY <1>0, FloorType DEF In, TypeOK
    <3>2. QED
      BY <1>6, <2>2, <3>1 DEF Wanted
  <2>3. CASE m \notin Wanted(r) /\ ~Positioned(r)
    <3>1. m \in Old /\ cursors[r][f] # NoCursor
      BY <1>6, <2>3 DEF Wanted
    <3>2. /\ cursors[r][f].uidvalidity \in Nat \ {0}
          /\ cursors[r][f].uidvalidity <= uidvalidity[f]
          /\ uidvalidity[f] \in Nat \ {0}
      BY <1>0, <3>1 DEF TypeOK, FolderCursor, PositionsInRange, NotAhead
    <3>3. cursors[r][f].uidvalidity # uidvalidity[f]
      BY <1>6, <2>3, <3>2 DEF Positioned
    <3>4. "renumbered" \in mishaps[f]
      BY <1>0, <3>2, <3>3 DEF UidsAscend
    <3>5. QED
      BY <3>1, <3>4 DEF Excused, In
  <2>4. QED
    BY <2>1, <2>2, <2>3
<1>7. ASSUME NEW m, Excused(m)
      PROVE  Excused(m)'
  BY <1>3, <1>7 DEF Excused
<1>8. ASSUME NEW m \in In(f) \intersect Matching, pc[r].uidvalidity = uidvalidity[f]
      PROVE  \/ m \in H
             \/ uid[m] <= Floor(r)
             \/ Excused(m)'
             \/ (\A h \in H : uid[h] < uid[m]) /\ Cardinality(H) = Limit
  BY <1>6, <1>7, <1>8
<1>9. In(pc[r].folder)' = In(f)
  BY <1>2, <1>3 DEF In
<1> HIDE DEF f
<1>10. QED
  BY <1>2, <1>3, <1>4, <1>5, <1>8, <1>9 DEF ListingOf

\* A reader that stays where it is keeps a listing of that kind, whatever
\* happens to the mailbox.
LEMMA ListingKept ==
  ASSUME Inv, [Next]_vars, NEW r \in Readers, pc[r].at = "listed", pc'[r] = pc[r],
         cursors'[r] = cursors[r]
  PROVE  ListingOf(r)'
<1> DEFINE f == pc[r].folder
           H == pc[r].hits
<1>0. /\ TypeOK /\ UidsAscend /\ PositionsInRange /\ InFolder(r)
      /\ f \in Folders /\ pc[r].uidvalidity \in Nat /\ pc[r].uidnext \in Nat
      /\ H \in SUBSET Messages /\ ListingOf(r)
  BY PCForms, ImapAssumption DEF Inv, TypeOK, InFolder, ListingComplete, ListingOf
<1>1. Floor(r)' = Floor(r)
  BY DEF Floor, Positioned
<1>2. ASSUME NEW m \in Messages, Excused(m)
      PROVE  Excused(m)'
  BY <1>0, <1>2, ExcusedStep
<1> DEFINE Good ==
        /\ \A h \in H : uid'[h] = 0 => h \in expunged' /\ "short" \in mishaps'[f]
        /\ pc[r].uidvalidity = uidvalidity'[f] =>
             \A m \in Messages \intersect Matching : Home[m] = f /\ uid'[m] # 0 =>
               \/ m \in H
               \/ uid'[m] <= Floor(r)
               \/ Excused(m)'
               \/ /\ \A h \in H : uid'[h] < uid'[m]
                  /\ Cardinality(H) = Limit \/ pc[r].uidnext <= uid'[m]
<1> HIDE DEF f, H
<1>3. /\ \A h \in H : /\ Home[h] = f
                      /\ uid[h] = 0 => h \in expunged /\ "short" \in mishaps[f]
      /\ pc[r].uidvalidity = uidvalidity[f] =>
           \A m \in In(f) \intersect Matching :
             \/ m \in H
             \/ uid[m] <= Floor(r)
             \/ Excused(m)
             \/ /\ \A h \in H : uid[h] < uid[m]
                /\ Cardinality(H) = Limit \/ pc[r].uidnext <= uid[m]
  BY <1>0 DEF ListingOf, f, H
<1>4. SUFFICES Good
  BY <1>1, <1>3 DEF ListingOf, In, f, H
<1>5. ASSUME NEW k \in Messages, Arrive(k)
      PROVE  Good
  <2>1. /\ uid' = [uid EXCEPT ![k] = uidnext[Home[k]]]
        /\ UNCHANGED <<expunged, uidvalidity, mishaps>> /\ uid[k] = 0 /\ k \notin expunged
    BY <1>5 DEF Arrive
  <2>2. k \notin H
    BY <1>3, <2>1
  <2>3. \A h \in H : uid'[h] = uid[h]
    BY <1>0, <2>1, <2>2 DEF TypeOK, H
  <2>4. ASSUME Home[k] = f, pc[r].uidvalidity = uidvalidity[f]
        PROVE  (\A h \in H : uid'[h] < uid'[k]) /\ pc[r].uidnext <= uid'[k]
    BY <1>0, <1>3, <2>1, <2>3, <2>4 DEF TypeOK, UidsAscend, PositionsInRange, H, f
  <2>5. \A m \in Messages \ {k} : uid'[m] = uid[m]
    BY <1>0, <2>1 DEF TypeOK
  <2>6. QED
    BY <1>2, <1>3, <2>1, <2>3, <2>4, <2>5 DEF In
<1>6. ASSUME NEW k \in Messages, Expunge(k)
      PROVE  Good
  <2>1. /\ uid' = [uid EXCEPT ![k] = 0] /\ expunged' = expunged \union {k}
        /\ UNCHANGED uidvalidity
    BY <1>6 DEF Expunge
  <2>2. uid'[k] = 0 /\ \A m \in Messages \ {k} : uid'[m] = uid[m]
    BY <1>0, <2>1 DEF TypeOK
  <2>3. mishaps[f] \subseteq mishaps'[f]
    BY <1>0, MishapsStay DEF f
  <2>4. k \in H => "short" \in mishaps'[f]
    BY <1>0, <1>3, <1>6 DEF Expunge, Listed, TypeOK, H, f
  <2>5. \A h \in H : uid'[h] = 0 => h \in expunged' /\ "short" \in mishaps'[f]
    BY <1>0, <1>3, <2>1, <2>2, <2>3, <2>4 DEF H, f
  <2>6. \A m \in Messages : uid'[m] \in Nat /\ (uid'[m] # 0 => uid'[m] = uid[m])
    BY <1>0, <2>2 DEF TypeOK
  <2>7. ASSUME NEW m \in Messages, uid'[m] # 0, \A h \in H : uid[h] < uid[m]
        PROVE  \A h \in H : uid'[h] < uid'[m]
    BY <1>0, <2>2, <2>6, <2>7 DEF H
  <2>8. QED
    BY <1>2, <1>3, <2>1, <2>5, <2>6, <2>7 DEF In
<1>7. ASSUME NEW g \in Folders, Renumber(g)
      PROVE  uid' = [m \in Messages |-> IF Home[m] = f THEN uid[m] ELSE uid'[m]]
             /\ UNCHANGED expunged /\ uidvalidity'[f] = uidvalidity[f]
             /\ mishaps[f] \subseteq mishaps'[f]
  <2>1. g # f
    BY <1>7 DEF Renumber, Listed, f
  <2>2. QED
    BY <1>0, <1>7, <2>1 DEF Renumber, In, TypeOK
<1>8. CASE \E g \in Folders : Renumber(g)
  <2>1. /\ \A m \in Messages : Home[m] = f => uid'[m] = uid[m]
        /\ UNCHANGED expunged /\ uidvalidity'[f] = uidvalidity[f]
        /\ mishaps[f] \subseteq mishaps'[f]
    BY <1>7, <1>8
  <2>2. H \subseteq Messages
    BY <1>0 DEF H
  <2>3. QED
    BY <1>2, <1>3, <2>1, <2>2 DEF In
<1>9. CASE UNCHANGED serverVars
  <2>1. mishaps[f] \subseteq mishaps'[f]
    BY <1>0, MishapsStay DEF f
  <2>2. QED
    BY <1>2, <1>3, <1>9, <2>1 DEF In, serverVars
<1>10. QED
  BY <1>5, <1>6, <1>8, <1>9
     DEF Next, ScanStep, vars, StartScan, Status, StatusRefused, Search, Fetch, SkipFolder,
         Save, GiveUp

\* Every step leaves every listing good: a search makes one, and nothing else
\* a reader does while it holds one changes it.
LEMMA ListingStep ==
  ASSUME Inv, [Next]_vars
  PROVE  ListingComplete'
<1>0. TypeOK
  BY DEF Inv
<1>1. SUFFICES ASSUME NEW r \in Readers, pc'[r].at = "listed"
               PROVE  ListingOf(r)'
  BY DEF ListingComplete, ListingOf
<1>2. CASE Search(r)
  BY <1>2, SearchLists
<1>3. ASSUME NEW q \in Readers, ScanStep(q), ~Search(r)
      PROVE  pc'[r] = pc[r] /\ cursors'[r] = cursors[r]
  <2>1. CASE q = r
    BY <1>0, <1>1, <1>3, <2>1
       DEF ScanStep, StartScan, Status, StatusRefused, Fetch, SkipFolder, Save, GiveUp,
           Goto, TypeOK
  <2>2. CASE q # r
    <3>1. pc'[r] = pc[r]
      BY <1>0, <1>3, <2>2
         DEF ScanStep, StartScan, Status, StatusRefused, Search, Fetch, SkipFolder, Save,
             GiveUp, Goto, TypeOK
    <3>2. cursors'[r] = cursors[r]
      BY <1>0, <1>3, <2>2
         DEF ScanStep, StartScan, Status, StatusRefused, Search, Fetch, Advanced,
             SkipFolder, Save, GiveUp, TypeOK
    <3>3. QED
      BY <3>1, <3>2
  <2>3. QED
    BY <2>1, <2>2
<1>4. CASE pc'[r] = pc[r] /\ cursors'[r] = cursors[r]
  BY <1>1, <1>4, ListingKept
<1>5. QED
  BY <1>2, <1>3, <1>4 DEF Next, vars, Arrive, Expunge, Renumber

-----------------------------------------------------------------------------
(* The invariant                                                           *)

\* The parts of Inv are preserved together.
LEMMA InvStep == Inv /\ [Next]_vars => Inv'
<1>1. Inv => TypeOK
  BY DEF Inv
<1>2. QED
  BY <1>1, TypeStep, UidStep, RangeStep, StrandedStep, ScanStepCovers, ListingStep DEF Inv

\* However scans overlap, fail and are given up, and whatever arrives, is
\* expunged or renumbered meanwhile, a saved position passes no matching
\* message that no scan has returned, but for the two cases Excused names:
\* what _advance and _window_for are there for.
THEOREM NoMailStranded == Spec => []NothingStranded
<1>1. Inv => NothingStranded
  BY DEF Inv
<1>2. QED
  BY <1>1, InvInit, InvStep, PTL DEF Spec

\* A folder under its first UIDVALIDITY has not been recreated.
FirstNumbering == \A f \in Folders : uidvalidity[f] = 1 => "renumbered" \notin mishaps[f]

LEMMA NumberingStep ==
  ASSUME TypeOK, FirstNumbering, [Next]_vars
  PROVE  FirstNumbering'
<1> USE ImapAssumption DEF TypeOK, FirstNumbering
<1>1. ASSUME NEW f \in Folders, Renumber(f)
      PROVE  FirstNumbering'
  BY <1>1 DEF Renumber
<1>2. ASSUME NEW m \in Messages, Expunge(m)
      PROVE  FirstNumbering'
  BY <1>2 DEF Expunge
<1>3. ASSUME NEW r \in Readers, NEW f \in Folders, StatusRefused(r, f)
      PROVE  FirstNumbering'
  BY <1>3 DEF StatusRefused, serverVars
<1>4. CASE UNCHANGED <<uidvalidity, mishaps>>
  BY <1>4
<1>5. QED
  BY <1>1, <1>2, <1>3, <1>4
     DEF Next, ScanStep, vars, serverVars, Arrive, StartScan, Status, Search, Fetch,
         SkipFolder, Save, GiveUp

\* _advance keeps its promise, a capped read only claims what it actually read,
\* where no read loses messages between search and fetch: one that does makes a
\* capped read look complete, so the condition is needed.
THEOREM CappedReadsClaimTheirs ==
  Spec /\ [](\A f \in Folders : "short" \notin mishaps[f]) => []RemainderPickedUp
<1>1. Init => FirstNumbering
  BY DEF Init, FirstNumbering
<1>2. ASSUME NothingStranded, FirstNumbering, \A f \in Folders : "short" \notin mishaps[f]
      PROVE  RemainderPickedUp
  BY <1>2, ImapAssumption DEF NothingStranded, FirstNumbering, RemainderPickedUp, Excused
<1>3. QED
  BY <1>1, <1>2, TypeCorrect, NumberingStep, NoMailStranded, PTL DEF Spec

-----------------------------------------------------------------------------
(* Nothing is read twice                                                   *)

\* Neither a recreated folder nor a refused STATUS has befallen the folder.
Clean(f) == mishaps[f] \subseteq {"short"}

\* A scan with position c will not find m: it is gone, or the position is past it.
Passed(c, m) == m \in expunged \/ Claimed(c, m)

\* With one reader the positions pass all that has been read, and so no scan
\* comes upon it again.
ReadPassed ==
  \A r \in Readers : Readers = {r} =>
    /\ \A m \in delivered : Clean(Home[m]) => Passed(cursor[Home[m]], m)
    /\ pc[r].at # "idle" =>
         /\ \A m \in delivered \union read[r] :
              Clean(Home[m]) => Passed(cursors[r][Home[m]], m)
         /\ \A m \in read[r] : Clean(Home[m]) => m \notin delivered
    /\ InFolder(r) /\ Clean(pc[r].folder) => pc[r].uidvalidity = uidvalidity[pc[r].folder]

\* What was clean stays so only if it was clean before, and keeps its numbers.
LEMMA CleanBefore ==
  ASSUME TypeOK, [Next]_vars, NEW f \in Folders, Clean(f)'
  PROVE  Clean(f) /\ uidvalidity'[f] = uidvalidity[f]
<1>1. Clean(f)
  BY MishapsStay DEF Clean
<1>2. ASSUME NEW g \in Folders, Renumber(g)
      PROVE  uidvalidity'[f] = uidvalidity[f]
  <2>1. g # f
    BY <1>2 DEF Renumber, Clean, TypeOK
  <2>2. QED
    BY <1>2, <2>1 DEF Renumber, TypeOK
<1>3. QED
  BY <1>1, <1>2
     DEF Next, ScanStep, vars, serverVars, Arrive, Expunge, StartScan, Status,
         StatusRefused, Search, Fetch, SkipFolder, Save, GiveUp

\* What a position has passed stays behind it.
LEMMA PassedStep ==
  ASSUME TypeOK, [Next]_vars, NEW m \in Messages, NEW c, Passed(c, m), Clean(Home[m])'
  PROVE  Passed(c, m)'
<1>0. Home[m] \in Folders /\ uidvalidity'[Home[m]] = uidvalidity[Home[m]]
  BY ImapAssumption, CleanBefore
<1>1. ASSUME NEW k \in Messages, Arrive(k)
      PROVE  Passed(c, m)'
  BY <1>1 DEF Arrive, Passed, Claimed, TypeOK
<1>2. ASSUME NEW k \in Messages, Expunge(k)
      PROVE  Passed(c, m)'
  BY <1>2 DEF Expunge, Passed, Claimed, TypeOK
<1>3. ASSUME NEW g \in Folders, Renumber(g)
      PROVE  Passed(c, m)'
  <2>1. g # Home[m]
    BY <1>0, <1>3 DEF Renumber, Clean, TypeOK
  <2>2. uid'[m] = uid[m] /\ UNCHANGED expunged
    BY <1>3, <2>1 DEF Renumber, In, TypeOK
  <2>3. QED
    BY <1>0, <2>2 DEF Passed, Claimed
<1>4. CASE UNCHANGED serverVars
  BY <1>4 DEF serverVars, Passed, Claimed
<1>5. QED
  BY <1>1, <1>2, <1>3, <1>4
     DEF Next, ScanStep, vars, StartScan, Status, StatusRefused, Search, Fetch,
         SkipFolder, Save, GiveUp

\* A fetch from a clean folder keeps only what no scan has returned, and moves
\* the position past it and past all the position had passed.
LEMMA FetchPasses ==
  ASSUME Inv, ReadPassed, NEW r \in Readers, Readers = {r}, Fetch(r),
         NEW m \in delivered \union read[r] \union Kept(r), Clean(Home[m])
  PROVE  /\ Passed(cursors'[r][Home[m]], m)
         /\ m \in Kept(r) => m \notin delivered
<1> DEFINE f == pc[r].folder
<1>0. /\ TypeOK /\ UidsAscend /\ ListingComplete /\ pc[r].at = "listed" /\ InFolder(r)
      /\ f \in Folders /\ pc[r].hits \in SUBSET Matching /\ pc[r].uidvalidity \in Nat
  BY PCForms DEF Inv, Fetch, TypeOK, InFolder
<1>1. /\ m \in Messages /\ Home[m] \in Folders /\ uid[m] \in Nat
      /\ m \in Kept(r) => Home[m] = f /\ uid[m] # 0 /\ uid[m] > Floor(r)
  BY <1>0, ImapAssumption DEF TypeOK, Kept, Fetched, ListingComplete
<1>2. PICK n \in Claims(r) : /\ \A k \in Claims(r) : k <= n
                             /\ cursors' = Advanced(r, n)
  BY DEF Fetch
<1>3. n \in Nat /\ Floor(r) \in Nat
  BY <1>0, <1>2, ClaimsType, FloorType
<1>4. m \in delivered \union read[r] => Passed(cursors[r][Home[m]], m)
  BY <1>0 DEF ReadPassed
<1>5. CASE Home[m] # f
  <2>1. cursors'[r][Home[m]] = cursors[r][Home[m]]
    BY <1>0, <1>1, <1>2, <1>5 DEF Advanced, TypeOK
  <2>2. QED
    BY <1>1, <1>4, <1>5, <2>1
<1>6. CASE Home[m] = f
  <2>1. pc[r].uidvalidity = uidvalidity[f] /\ pc[r].uidvalidity # 0
    BY <1>0, <1>6 DEF ReadPassed, TypeOK
  <2>2. Claimed(cursors[r][f], m) => uid[m] <= Floor(r) /\ uid[m] # 0
    BY <1>6, <2>1 DEF Claimed, Floor, Positioned
  <2>3. m \in expunged => uid[m] = 0
    BY <1>0 DEF UidsAscend
  <2>4. m \in Kept(r) => m \notin delivered
    BY <1>1, <1>3, <1>4, <1>6, <2>2, <2>3 DEF Passed
  <2>5. m \in expunged \/ (uid[m] # 0 /\ uid[m] <= n)
    <3>1. Floor(r) <= n /\ (m \in Kept(r) => uid[m] <= n)
      BY <1>2 DEF Claims
    <3>2. CASE m \in Kept(r)
      BY <1>1, <3>1, <3>2
    <3>3. CASE m \notin Kept(r)
      BY <1>1, <1>3, <1>4, <1>6, <2>2, <3>1, <3>3 DEF Passed
    <3>4. QED
      BY <3>2, <3>3
  <2>6. m \notin expunged =>
          cursors'[r][f] = [uidvalidity |-> pc[r].uidvalidity, uid |-> n]
    BY <1>0, <1>1, <1>2, <1>3, <2>1, <2>5 DEF Advanced, TypeOK
  <2>7. Passed(cursors'[r][f], m)
    BY <1>6, <2>1, <2>5, <2>6 DEF Passed, Claimed
  <2>8. QED
    BY <1>6, <2>4, <2>7
<1>7. QED
  BY <1>5, <1>6

\* Every step of the one reader, and of the mailbox, keeps ReadPassed.
LEMMA ReadPassedStep ==
  ASSUME Inv, ReadPassed, [Next]_vars
  PROVE  ReadPassed'
<1>0. TypeOK /\ UidsAscend
  BY DEF Inv
<1>1. SUFFICES ASSUME NEW r \in Readers, Readers = {r}
               PROVE  /\ (\A m \in delivered : Clean(Home[m]) => Passed(cursor[Home[m]], m))'
                      /\ (pc[r].at # "idle" =>
                            /\ \A m \in delivered \union read[r] :
                                 Clean(Home[m]) => Passed(cursors[r][Home[m]], m)
                            /\ \A m \in read[r] : Clean(Home[m]) => m \notin delivered)'
                      /\ (InFolder(r) /\ Clean(pc[r].folder)
                            => pc[r].uidvalidity = uidvalidity[pc[r].folder])'
  BY DEF ReadPassed
<1>2. /\ \A m \in delivered : Clean(Home[m]) => Passed(cursor[Home[m]], m)
      /\ pc[r].at # "idle" =>
           /\ \A m \in delivered \union read[r] :
                Clean(Home[m]) => Passed(cursors[r][Home[m]], m)
           /\ \A m \in read[r] : Clean(Home[m]) => m \notin delivered
      /\ InFolder(r) /\ Clean(pc[r].folder) => pc[r].uidvalidity = uidvalidity[pc[r].folder]
  BY <1>1 DEF ReadPassed
<1>3. ASSUME NEW m \in Matching, NEW c, Clean(Home[m])'
      PROVE  /\ m \in Messages /\ Clean(Home[m])
             /\ Passed(c, m) => Passed(c, m)'
  BY <1>0, <1>3, ImapAssumption, CleanBefore, PassedStep
<1>4. delivered \subseteq Matching /\ read[r] \subseteq Matching
  BY <1>0 DEF TypeOK
<1>5. (\A m \in delivered : Clean(Home[m]) => Passed(cursor[Home[m]], m))'
  <2>1. CASE UNCHANGED <<delivered, cursor>>
    BY <1>2, <1>3, <1>4, <2>1
  <2>2. CASE Save(r)
    <3>1. /\ pc[r].at # "idle" /\ cursor' = cursors[r]
          /\ delivered' = delivered \union read[r]
      BY <2>2 DEF Save
    <3>2. QED
      BY <1>2, <1>3, <1>4, <3>1
  <2>3. QED
    BY <1>1, <2>1, <2>2
       DEF Next, ScanStep, vars, Arrive, Expunge, Renumber, StartScan, Status,
           StatusRefused, Search, Fetch, SkipFolder, GiveUp
<1>6. (pc[r].at # "idle" =>
         /\ \A m \in delivered \union read[r] :
              Clean(Home[m]) => Passed(cursors[r][Home[m]], m)
         /\ \A m \in read[r] : Clean(Home[m]) => m \notin delivered)'
  <2>1. CASE UNCHANGED <<delivered, read, cursors>> /\ pc[r].at # "idle"
    BY <1>2, <1>3, <1>4, <2>1
  <2>2. CASE StartScan(r)
    <3>1. cursors'[r] = cursor /\ read'[r] = {} /\ delivered' = delivered
      BY <1>0, <2>2 DEF StartScan, TypeOK
    <3>2. QED
      BY <1>2, <1>3, <1>4, <3>1
  <2>3. CASE Fetch(r)
    <3>1. /\ read'[r] = read[r] \union Kept(r) /\ delivered' = delivered
          /\ pc[r].at # "idle" /\ UNCHANGED <<serverVars, mishaps>>
      BY <1>0, <2>3 DEF Fetch, TypeOK
    <3>2. ASSUME NEW m \in delivered \union read[r] \union Kept(r), Clean(Home[m])'
          PROVE  /\ Passed(cursors[r][Home[m]], m)'
                 /\ m \in Kept(r) => m \notin delivered
      <4>1. Clean(Home[m])
        BY <3>1, <3>2 DEF Clean
      <4>2. Passed(cursors'[r][Home[m]], m) /\ (m \in Kept(r) => m \notin delivered)
        BY <1>1, <2>3, <4>1, FetchPasses
      <4>3. QED
        BY <3>1, <4>2 DEF Passed, Claimed, serverVars
    <3>3. \A m \in read[r] : Clean(Home[m])' => m \notin delivered
      BY <1>2, <3>1 DEF Clean
    <3>4. QED
      BY <3>1, <3>2, <3>3
  <2>4. CASE pc'[r].at = "idle"
    BY <2>4
  <2>5. Save(r) \/ GiveUp(r) => pc'[r].at = "idle"
    BY <1>0 DEF Save, GiveUp, Goto, TypeOK
  <2>6. QED
    BY <1>1, <2>1, <2>2, <2>3, <2>4, <2>5
       DEF Next, ScanStep, vars, Arrive, Expunge, Renumber, Status, StatusRefused,
           Search, SkipFolder
<1>7. (InFolder(r) /\ Clean(pc[r].folder) => pc[r].uidvalidity = uidvalidity[pc[r].folder])'
  <2>1. SUFFICES ASSUME InFolder(r)', Clean(pc[r].folder)'
                 PROVE  pc'[r].uidvalidity = uidvalidity'[pc'[r].folder]
    OBVIOUS
  <2>2. ASSUME InFolder(r), pc'[r].folder = pc[r].folder,
               pc'[r].uidvalidity = pc[r].uidvalidity
        PROVE  pc'[r].uidvalidity = uidvalidity'[pc'[r].folder]
    <3>1. pc[r].folder \in Folders /\ Clean(pc[r].folder)'
      BY <1>0, <2>1, <2>2, PCForms DEF InFolder, TypeOK, Clean
    <3>2. QED
      BY <1>0, <1>2, <2>2, <3>1, CleanBefore
  <2>3. CASE Search(r)
    BY <1>0, <2>2, <2>3 DEF Search, Goto, InFolder, TypeOK
  <2>4. ASSUME NEW f \in Folders, Status(r, f)
        PROVE  pc'[r].uidvalidity = uidvalidity'[pc'[r].folder]
    BY <1>0, <2>4 DEF Status, Goto, serverVars, TypeOK
  <2>5. ASSUME NEW f \in Folders, StatusRefused(r, f)
        PROVE  FALSE
    BY <1>0, <2>1, <2>5 DEF StatusRefused, Goto, Clean, TypeOK
  <2>6. StartScan(r) \/ Fetch(r) \/ SkipFolder(r) \/ Save(r) \/ GiveUp(r) => FALSE
    BY <1>0, <2>1
       DEF StartScan, Fetch, SkipFolder, Save, GiveUp, Goto, InFolder, TypeOK
  <2>7. CASE pc'[r] = pc[r]
    BY <2>1, <2>2, <2>7 DEF InFolder
  <2>8. QED
    BY <1>1, <2>3, <2>4, <2>5, <2>6, <2>7
       DEF Next, ScanStep, vars, Arrive, Expunge, Renumber
<1>8. QED
  BY <1>5, <1>6, <1>7

\* A single reader that meets neither a recreated folder nor a refused STATUS
\* never finds again what an earlier scan has returned, whatever arrives, is
\* expunged or fails meanwhile: what the "* matches the newest message" check
\* of scan_mailbox is there for.
THEOREM NoMailTwice == Spec => []FetchedOnce
<1>1. Init => Inv /\ ReadPassed
  BY InvInit DEF Init, ReadPassed, InFolder
<1>2. (Inv /\ ReadPassed) /\ [Next]_vars => (Inv /\ ReadPassed)'
  BY InvStep, ReadPassedStep
<1>3. ReadPassed => FetchedOnce
  BY DEF ReadPassed, FetchedOnce, Clean
<1>4. QED
  BY <1>1, <1>2, <1>3, PTL DEF Spec
=============================================================================
