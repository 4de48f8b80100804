-------------------------- MODULE MigrationsProofs --------------------------
(* Proofs about Migrations, for any processes, releases and scripts.        *)
EXTENDS Migrations, TLAPS

\* A version the loop has passed is in the database, and so is all that
\* applied_versions returned.
PassedRecorded ==
  \A p \in Processes : /\ done[p] \subseteq Recorded
                       /\ pc[p] = "migrating" => 1 .. (next[p] - 1) \subseteq Recorded

\* A script that has executed something holds the lock, and has in its
\* transaction just what it executed; its migration was not there when it got
\* the lock.
ScriptState ==
  \A p \in Processes :
    /\ step[p] = 1 => draft[p] = {}
    /\ step[p] > 1 => /\ lock = p
                      /\ draft[p] = {next[p]} \X (1 .. (step[p] - 1))
                      /\ <<next[p], 1>> \notin schema

IInv == TypeOK /\ AtOneLevel /\ Served /\ PassedRecorded /\ ScriptState

-----------------------------------------------------------------------------

\* What a statement is.
LEMMA StatementFacts ==
  ASSUME NEW v, NEW i
  PROVE  <<v, i>> \in Statements <=> v \in Versions /\ i \in 1 .. (Size[v] + 1)
BY DEF Statements

\* At level n the versions recorded are the first n, and any one statement of a
\* script says whether its migration is among them.
LEMMA LevelFacts ==
  ASSUME NEW n \in 0 .. Last, schema = UpTo(n)
  PROVE  /\ Recorded = 1 .. n
         /\ \A v \in Versions : <<v, 1>> \in schema <=> v <= n
<1>1. \A v \in Versions : RecordOf(v) \in Statements /\ <<v, 1>> \in Statements
  BY MigrationsAssumption, StatementFacts DEF RecordOf, Versions
<1>2. \A v \in Versions : RecordOf(v) \in schema <=> v <= n
  BY <1>1 DEF UpTo, RecordOf
<1>3. \A v \in Versions : <<v, 1>> \in schema <=> v <= n
  BY <1>1 DEF UpTo
<1>4. QED
  BY <1>2, <1>3, MigrationsAssumption DEF Recorded, Versions

\* A database at a level, plus the whole script of the next migration, is at
\* the next level.
LEMMA NextLevel ==
  ASSUME NEW n \in 0 .. (Last - 1)
  PROVE  UpTo(n) \union ({n + 1} \X (1 .. (Size[n + 1] + 1))) = UpTo(n + 1)
<1>1. n + 1 \in Versions
  BY MigrationsAssumption DEF Versions
<1>2. \A q \in Statements : /\ q[1] \in Nat
                            /\ q[1] = n + 1 => q \in {n + 1} \X (1 .. (Size[n + 1] + 1))
  BY DEF Statements, Versions
<1>3. \A q \in {n + 1} \X (1 .. (Size[n + 1] + 1)) : q \in Statements /\ q[1] = n + 1
  BY <1>1 DEF Statements
<1>4. QED
  BY <1>2, <1>3 DEF UpTo

-----------------------------------------------------------------------------

\* Nothing is under way at first.
LEMMA InitIInv == Init => IInv
<1> SUFFICES ASSUME Init
             PROVE  IInv
  OBVIOUS
<1>1. AtOneLevel
  BY DEF Init, AtOneLevel
<1>2. TypeOK
  BY MigrationsAssumption DEF Init, TypeOK, UpTo
<1>3. Served /\ PassedRecorded /\ ScriptState
  BY DEF Init, Served, PassedRecorded, ScriptState
<1>4. QED
  BY <1>1, <1>2, <1>3 DEF IInv

\* TypeOK in two parts: what kind of thing each variable is, and where in a
\* script a process can be.
Kinds ==
  /\ schema \in SUBSET Statements
  /\ lock \in Processes \union {None}
  /\ pc \in [Processes -> {"closed", "migrating", "working"}]
  /\ done \in [Processes -> SUBSET Versions]
  /\ next \in [Processes -> 1 .. (Last + 1)]
  /\ step \in [Processes -> Nat]
  /\ draft \in [Processes -> SUBSET Statements]
  /\ faults \in 0 .. MaxFaults

InScript(p) ==
  /\ step[p] # 0 => /\ pc[p] = "migrating"
                    /\ next[p] <= Release[p]
                    /\ step[p] <= Size[next[p]] + 2
  /\ step[p] = 0 => draft[p] = {}

LEMMA TypeParts ==
  /\ TypeOK <=> Kinds /\ \A p \in Processes : InScript(p)
  /\ TypeOK' <=> Kinds' /\ \A p \in Processes : InScript(p)'
BY DEF TypeOK, Kinds, InScript

LEMMA ConstantFacts ==
  /\ \A v \in Versions : Size[v] \in Nat /\ Size[v] # 0
  /\ \A p \in Processes : Release[p] \in Versions
  /\ Last \in Nat
BY MigrationsAssumption DEF Versions

\* Every step keeps the types.
LEMMA TypeStep ==
  ASSUME TypeOK, [Next]_vars
  PROVE  TypeOK'
<1>0. Kinds /\ \A p \in Processes : InScript(p)
  BY TypeParts
<1> USE ConstantFacts
<1>1. ASSUME NEW p \in Processes, Open(p)
      PROVE  TypeOK'
  <2>1. Kinds'
    BY <1>0, <1>1 DEF Open, Recorded, Kinds
  <2>2. \A q \in Processes : InScript(q)'
    BY <1>0, <1>1 DEF Open, Kinds, InScript
  <2>3. QED
    BY <2>1, <2>2, TypeParts
<1>2. ASSUME NEW p \in Processes, PassOver(p)
      PROVE  TypeOK'
  <2>1. Kinds'
    BY <1>0, <1>2 DEF PassOver, AtVersion, Kinds, Versions
  <2>2. \A q \in Processes : InScript(q)'
    BY <1>0, <1>2 DEF PassOver, AtVersion, Kinds, InScript
  <2>3. QED
    BY <2>1, <2>2, TypeParts
<1>3. ASSUME NEW p \in Processes, Begin(p)
      PROVE  TypeOK'
  <2>1. Kinds' /\ next[p] \in Versions
    BY <1>0, <1>3 DEF Begin, AtVersion, Kinds, Versions
  <2>2. \A q \in Processes : InScript(q)'
    BY <1>0, <1>3, <2>1 DEF Begin, AtVersion, Kinds, InScript
  <2>3. QED
    BY <2>1, <2>2, TypeParts
<1>4. ASSUME NEW p \in Processes, Execute(p)
      PROVE  TypeOK'
  <2>1. next[p] \in Versions /\ step[p] \in 1 .. (Size[next[p]] + 1)
    BY <1>0, <1>4 DEF Execute, Executing, Versions, Kinds, InScript
  <2>2. <<next[p], step[p]>> \in Statements
    BY <2>1, StatementFacts
  <2>3. Kinds'
    BY <1>0, <1>4, <2>2 DEF Execute, Executing, Kinds
  <2>4. \A q \in Processes : InScript(q)'
    BY <1>0, <1>4, <2>1 DEF Execute, Executing, Kinds, InScript
  <2>5. QED
    BY <2>3, <2>4, TypeParts
<1>5. ASSUME NEW p \in Processes, Commit(p)
      PROVE  TypeOK'
  <2>1. Kinds'
    BY <1>0, <1>5 DEF Commit, Kinds, InScript, Versions
  <2>2. \A q \in Processes : InScript(q)'
    BY <1>0, <1>5 DEF Commit, Kinds, InScript
  <2>3. QED
    BY <2>1, <2>2, TypeParts
<1>6. ASSUME NEW p \in Processes, Close(p), faults' \in 0 .. MaxFaults
      PROVE  TypeOK'
  <2>1. Kinds'
    BY <1>0, <1>6 DEF Close, Kinds
  <2>2. \A q \in Processes : InScript(q)'
    BY <1>0, <1>6 DEF Close, Kinds, InScript
  <2>3. QED
    BY <2>1, <2>2, TypeParts
<1>7. ASSUME NEW p \in Processes, Finish(p) \/ Transact(p) \/ EndTransact(p)
      PROVE  TypeOK'
  <2>1. Kinds'
    BY <1>0, <1>7 DEF Finish, Transact, EndTransact, Kinds
  <2>2. \A q \in Processes : InScript(q)'
    BY <1>0, <1>7 DEF Finish, Transact, EndTransact, Kinds, InScript
  <2>3. QED
    BY <2>1, <2>2, TypeParts
<1>8. CASE UNCHANGED vars
  BY <1>8 DEF vars, TypeOK
<1>9. ASSUME NEW p \in Processes, Refused(p) \/ Leave(p) \/ Fault(p)
      PROVE  TypeOK'
  <2>1. Close(p)
    BY <1>9 DEF Refused, Leave, Fault
  <2>2. faults' \in 0 .. MaxFaults
    <3>1. faults \in 0 .. MaxFaults /\ MaxFaults \in Nat
      BY <1>0, MigrationsAssumption DEF Kinds
    <3>2. faults' = faults \/ (faults < MaxFaults /\ faults' = faults + 1)
      BY <1>9 DEF Refused, Leave, Fault
    <3>3. QED
      BY <3>1, <3>2
  <2>3. QED
    BY <2>1, <2>2, <1>6
<1>10. QED
  BY <1>1, <1>2, <1>3, <1>4, <1>5, <1>7, <1>8, <1>9 DEF Next, Migrate

\* Every step but a commit leaves the database alone.
LEMMA SchemaStep ==
  ASSUME [Next]_vars
  PROVE  schema' = schema \/ \E p \in Processes : Commit(p)
BY DEF Next, Migrate, vars, Open, PassOver, Begin, Execute, Refused, Finish, Transact,
       EndTransact, Leave, Fault, Close

\* A commit takes the database to the next level.
LEMMA CommitLevel ==
  ASSUME IInv, NEW p \in Processes, Commit(p)
  PROVE  /\ AtOneLevel'
         /\ Recorded' = Recorded \union {next[p]}
         /\ \E n \in 0 .. (Last - 1) : Recorded = 1 .. n /\ Recorded' = 1 .. (n + 1)
         /\ pc[p] = "migrating"
<1> USE MigrationsAssumption
<1>1. /\ step[p] = Size[next[p]] + 2
      /\ next[p] \in Versions
      /\ pc[p] = "migrating"
  <2>1. Kinds /\ InScript(p)
    BY TypeParts DEF IInv
  <2>2. QED
    BY <2>1, ConstantFacts DEF Commit, Kinds, InScript, Versions
<1>2. Size[next[p]] \in Nat \ {0}
  BY <1>1 DEF Versions
<1>3. /\ draft[p] = {next[p]} \X (1 .. (step[p] - 1))
      /\ <<next[p], 1>> \notin schema
  BY <1>1, <1>2 DEF IInv, ScriptState
<1>4. PICK n \in 0 .. Last : schema = UpTo(n)
  BY DEF IInv, AtOneLevel
<1>5. Recorded = 1 .. n /\ next[p] > n
  BY <1>1, <1>3, <1>4, LevelFacts DEF Versions
<1>6. 1 .. (next[p] - 1) \subseteq 1 .. n
  BY <1>1, <1>5 DEF IInv, PassedRecorded
<1>7. next[p] = n + 1
  <2>1. CASE next[p] = 1
    BY <2>1, <1>5
  <2>2. CASE next[p] # 1
    <3>1. next[p] - 1 \in 1 .. (next[p] - 1)
      BY <2>2, <1>1 DEF Versions
    <3>2. QED
      BY <3>1, <1>5, <1>6, <1>1 DEF Versions
  <2>3. QED
    BY <2>1, <2>2
<1>8. schema' = UpTo(n) \union ({n + 1} \X (1 .. (Size[n + 1] + 1)))
  BY <1>1, <1>2, <1>3, <1>4, <1>7 DEF Commit
<1>9. n \in 0 .. (Last - 1)
  BY <1>1, <1>7 DEF Versions
<1>10. schema' = UpTo(n + 1) /\ n + 1 \in 0 .. Last
  <2>1. UpTo(n) \union ({n + 1} \X (1 .. (Size[n + 1] + 1))) = UpTo(n + 1)
    BY <1>9, NextLevel
  <2>2. QED
    BY <1>8, <1>9, <2>1
<1>11. Recorded' = 1 .. (n + 1)
  <2>1. \A v \in Versions : RecordOf(v) \in UpTo(n + 1) <=> v <= n + 1
    BY StatementFacts DEF UpTo, RecordOf, Versions
  <2>2. QED
    BY <2>1, <1>9, <1>10 DEF Recorded, Versions
<1>12. AtOneLevel'
  BY <1>10 DEF AtOneLevel, UpTo
<1>13. QED
  BY <1>1, <1>5, <1>7, <1>9, <1>11, <1>12

\* The database stays at one level, and no version is ever taken back.
LEMMA LevelStep ==
  ASSUME IInv, [Next]_vars
  PROVE  AtOneLevel' /\ Recorded \subseteq Recorded'
<1>1. CASE schema' = schema
  BY <1>1 DEF IInv, AtOneLevel, Recorded
<1>2. CASE \E p \in Processes : Commit(p)
  BY <1>2, CommitLevel
<1>3. QED
  BY <1>1, <1>2, SchemaStep

\* What a program works on stays what its release needs.
LEMMA ServedStep ==
  ASSUME IInv, [Next]_vars
  PROVE  Served'
<1>0. Recorded \subseteq Recorded'
  BY LevelStep
<1>1. ASSUME NEW q \in Processes, pc'[q] = "working", pc[q] = "working"
      PROVE  1 .. Release[q] \subseteq Recorded'
  BY <1>0, <1>1 DEF IInv, Served
<1>2. ASSUME NEW q \in Processes, pc'[q] = "working", pc[q] # "working"
      PROVE  1 .. Release[q] \subseteq Recorded'
  <2>1. Kinds
    BY TypeParts DEF IInv
  <2>2. Finish(q)
    BY <1>2, <2>1
       DEF Next, Migrate, vars, Kinds, Open, PassOver, Begin, Execute, Commit, Refused, Finish,
           Transact, EndTransact, Leave, Fault, Close
  <2>3. /\ pc[q] = "migrating"
        /\ next[q] \in 1 .. (Last + 1)
        /\ next[q] > Release[q]
        /\ Release[q] \in Versions
        /\ Last \in Nat
    BY <2>1, <2>2, ConstantFacts DEF Finish, Kinds
  <2>4. 1 .. Release[q] \subseteq 1 .. (next[q] - 1)
    BY <2>3 DEF Versions
  <2>5. QED
    BY <1>0, <2>3, <2>4 DEF IInv, PassedRecorded
<1>3. QED
  BY <1>1, <1>2 DEF Served

\* What the loop has passed stays recorded; a commit passes the version it adds.
LEMMA PassedStep ==
  ASSUME IInv, [Next]_vars
  PROVE  PassedRecorded'
<1>0. Kinds /\ Recorded \subseteq Recorded'
  BY LevelStep, TypeParts DEF IInv
<1>1. ASSUME NEW q \in Processes, done'[q] = done[q],
             next'[q] = next[q], pc'[q] = "migrating" => pc[q] = "migrating"
      PROVE  /\ done'[q] \subseteq Recorded'
             /\ pc'[q] = "migrating" => 1 .. (next'[q] - 1) \subseteq Recorded'
  BY <1>0, <1>1 DEF IInv, PassedRecorded
<1>2. ASSUME NEW p \in Processes, Open(p)
      PROVE  PassedRecorded'
  <2>1. Recorded' = Recorded /\ 1 .. 0 = {}
    BY <1>2 DEF Open, Recorded
  <2>2. /\ done'[p] = Recorded /\ next'[p] = 1
        /\ \A q \in Processes \ {p} :
             done'[q] = done[q] /\ next'[q] = next[q] /\ pc'[q] = pc[q]
    BY <1>0, <1>2 DEF Open, Kinds
  <2>3. /\ done'[p] \subseteq Recorded'
        /\ 1 .. (next'[p] - 1) \subseteq Recorded'
    BY <2>1, <2>2
  <2>4. QED
    BY <1>1, <2>2, <2>3 DEF PassedRecorded
<1>3. ASSUME NEW p \in Processes, PassOver(p) \/ Commit(p)
      PROVE  PassedRecorded'
  <2>1. /\ pc[p] = "migrating" /\ next[p] \in Recorded' /\ next[p] \in Nat \ {0}
        /\ next'[p] = next[p] + 1 /\ done' = done
        /\ \A q \in Processes \ {p} : next'[q] = next[q] /\ pc' = pc
    <3>1. CASE PassOver(p)
      BY <1>0, <3>1 DEF PassOver, AtVersion, IInv, PassedRecorded, Kinds
    <3>2. CASE Commit(p)
      <4>1. pc[p] = "migrating" /\ next[p] \in Recorded'
        BY <3>2, CommitLevel
      <4>2. QED
        BY <1>0, <3>2, <4>1 DEF Commit, Kinds
    <3>3. QED
      BY <1>3, <3>1, <3>2
  <2>2. 1 .. (next[p] - 1) \subseteq Recorded'
    BY <1>0, <2>1 DEF IInv, PassedRecorded
  <2>3. 1 .. (next'[p] - 1) \subseteq Recorded'
    BY <2>1, <2>2
  <2>4. done'[p] \subseteq Recorded'
    BY <1>0, <2>1 DEF IInv, PassedRecorded
  <2>5. QED
    BY <1>1, <2>1, <2>3, <2>4 DEF PassedRecorded
<1>4. ASSUME done' = done, next' = next,
             \A q \in Processes : pc'[q] = "migrating" => pc[q] = "migrating"
      PROVE  PassedRecorded'
  BY <1>1, <1>4 DEF PassedRecorded
<1>5. ASSUME NEW p \in Processes, Close(p) \/ Finish(p)
      PROVE  PassedRecorded'
  <2>1. \A q \in Processes : pc'[q] = "migrating" => pc[q] = "migrating"
    BY <1>0, <1>5 DEF Close, Finish, Kinds
  <2>2. QED
    BY <1>4, <1>5, <2>1 DEF Close, Finish
<1>6. ASSUME UNCHANGED <<pc, done, next>>
      PROVE  PassedRecorded'
  BY <1>4, <1>6
<1>7. QED
  BY <1>2, <1>3, <1>5, <1>6
     DEF Next, Migrate, vars, Begin, Execute, Refused, Transact, EndTransact, Leave, Fault

\* A script keeps the lock from its first statement to its end, so nobody else
\* commits meanwhile.
LEMMA ScriptStep ==
  ASSUME IInv, [Next]_vars
  PROVE  ScriptState'
<1>0. Kinds /\ \A q \in Processes : InScript(q)
  BY TypeParts DEF IInv
<1> DEFINE State(q) == /\ step[q] = 1 => draft[q] = {}
                       /\ step[q] > 1 => /\ lock = q
                                         /\ draft[q] = {next[q]} \X (1 .. (step[q] - 1))
                                         /\ <<next[q], 1>> \notin schema
<1>1. \A q \in Processes : State(q)
  BY DEF IInv, ScriptState
<1>2. ASSUME NEW q \in Processes, step'[q] = step[q], draft'[q] = draft[q],
             step[q] # 0 => next'[q] = next[q],
             step[q] > 1 /\ lock = q => lock' = q /\ schema' = schema
      PROVE  State(q)'
  <2>1. step[q] \in Nat
    BY <1>0 DEF Kinds
  <2>2. QED
    BY <1>1, <1>2, <2>1
<1>3. ASSUME NEW q \in Processes, step'[q] = 0
      PROVE  State(q)'
  BY <1>3
<1>4. ASSUME NEW p \in Processes, Open(p) \/ PassOver(p)
      PROVE  ScriptState'
  <2>1. /\ step' = step /\ draft' = draft /\ lock' = lock /\ schema' = schema
        /\ \A q \in Processes : step[q] # 0 => next'[q] = next[q]
    BY <1>0, <1>4 DEF Open, PassOver, AtVersion, Kinds, InScript
  <2>2. QED
    BY <1>2, <2>1 DEF ScriptState
<1>5. ASSUME NEW p \in Processes, Begin(p)
      PROVE  ScriptState'
  <2>1. /\ step'[p] = 1 /\ draft' = draft /\ draft[p] = {}
        /\ UNCHANGED <<schema, lock, next>>
        /\ \A q \in Processes \ {p} : step'[q] = step[q]
    BY <1>0, <1>5 DEF Begin, AtVersion, Kinds, InScript
  <2>2. State(p)'
    BY <2>1
  <2>3. QED
    BY <1>2, <2>1, <2>2 DEF ScriptState
<1>6. ASSUME NEW p \in Processes, Execute(p)
      PROVE  ScriptState'
  <2>1. /\ step'[p] = step[p] + 1 /\ step[p] \in Nat \ {0} /\ lock \in {None, p} /\ lock' = p
        /\ <<next[p], step[p]>> \notin schema
        /\ draft'[p] = draft[p] \union {<<next[p], step[p]>>}
        /\ UNCHANGED <<schema, next>>
        /\ \A q \in Processes \ {p} : step'[q] = step[q] /\ draft'[q] = draft[q]
    BY <1>0, <1>6 DEF Execute, Executing, Kinds
  <2>2. State(p)'
    <3>1. CASE step[p] = 1
      BY <1>1, <2>1, <3>1
    <3>2. CASE step[p] # 1
      <4>1. 1 .. step[p] = (1 .. (step[p] - 1)) \union {step[p]}
        BY <2>1
      <4>2. draft[p] = {next[p]} \X (1 .. (step[p] - 1)) /\ <<next[p], 1>> \notin schema
        BY <1>1, <2>1, <3>2
      <4>3. draft'[p] = {next[p]} \X (1 .. step[p])
        BY <2>1, <4>1, <4>2
      <4>4. step'[p] - 1 = step[p]
        BY <2>1
      <4>5. QED
        BY <2>1, <4>2, <4>3, <4>4
    <3>3. QED
      BY <3>1, <3>2
  <2>3. ASSUME NEW q \in Processes \ {p}
        PROVE  State(q)'
    BY <1>2, <2>1, MigrationsAssumption
  <2>4. QED
    BY <2>2, <2>3 DEF ScriptState
<1>7. ASSUME NEW p \in Processes, Commit(p)
      PROVE  ScriptState'
  <2>1. /\ step'[p] = 0
        /\ \A q \in Processes \ {p} : step'[q] = step[q] /\ draft'[q] = draft[q] /\ next'[q] = next[q]
    BY <1>0, <1>7 DEF Commit, Kinds
  <2>2. lock = p
    <3>1. next[p] \in Versions
      BY <1>0, <1>7, ConstantFacts DEF Commit, Kinds, InScript, Versions
    <3>2. step[p] > 1
      BY <1>7, <3>1, ConstantFacts DEF Commit
    <3>3. QED
      BY <1>1, <3>2
  <2>3. QED
    BY <1>2, <1>3, <2>1, <2>2 DEF ScriptState
<1>8. ASSUME NEW p \in Processes, Close(p)
      PROVE  ScriptState'
  <2>1. /\ step'[p] = 0 /\ UNCHANGED <<schema, next>>
        /\ \A q \in Processes \ {p} : step'[q] = step[q] /\ draft'[q] = draft[q]
        /\ \A q \in Processes \ {p} : lock = q => lock' = q
    BY <1>0, <1>8 DEF Close, Kinds
  <2>2. QED
    BY <1>2, <1>3, <2>1 DEF ScriptState
<1>9. ASSUME NEW p \in Processes, Finish(p) \/ Transact(p) \/ EndTransact(p)
      PROVE  ScriptState'
  <2>1. /\ UNCHANGED <<schema, next, step, draft>>
        /\ \A q \in Processes : step[q] > 1 /\ lock = q => lock' = q
    <3>1. UNCHANGED <<schema, next, step, draft>>
      BY <1>9 DEF Finish, Transact, EndTransact
    <3>2. ASSUME Finish(p)
          PROVE  \A q \in Processes : step[q] > 1 /\ lock = q => lock' = q
      BY <3>2 DEF Finish
    <3>3. ASSUME Transact(p)
          PROVE  \A q \in Processes : step[q] > 1 /\ lock = q => lock' = q
      BY <3>3, MigrationsAssumption DEF Transact
    <3>4. ASSUME EndTransact(p)
          PROVE  \A q \in Processes : step[q] > 1 /\ lock = q => lock' = q
      <4>1. step[p] = 0 /\ lock = p
        BY <1>0, <3>4 DEF EndTransact, InScript
      <4>2. QED
        BY <4>1
    <3>5. \A q \in Processes : step[q] > 1 /\ lock = q => lock' = q
      BY <1>9, <3>2, <3>3, <3>4
    <3>6. QED
      BY <3>1, <3>5
  <2>2. QED
    BY <1>2, <2>1 DEF ScriptState
<1>10. CASE UNCHANGED vars
  BY <1>10 DEF vars, IInv, ScriptState
<1>11. QED
  BY <1>4, <1>5, <1>6, <1>7, <1>8, <1>9, <1>10 DEF Next, Migrate, Refused, Leave, Fault

LEMMA Invariance == Spec => []IInv
<1>1. IInv /\ [Next]_vars => IInv'
  BY TypeStep, LevelStep, ServedStep, PassedStep, ScriptStep DEF IInv
<1>2. QED
  BY InitIInv, <1>1, PTL DEF Spec

\* Type correctness, for any number of processes, releases and scripts.
THEOREM TypeCorrect == Spec => []TypeOK
BY Invariance, PTL DEF IInv

\* migrate: no failure, crash or race leaves the schema between two levels.
THEOREM AlwaysAtOneLevel == Spec => []AtOneLevel
BY Invariance, PTL DEF IInv

\* open_db: whoever gets a connection has the schema of its release.
THEOREM AlwaysServed == Spec => []Served
BY Invariance, PTL DEF IInv

-----------------------------------------------------------------------------
(* The refinement                                                          *)

\* An upgrade starts from some level, with nobody inside.
LEMMA UpgradeInit == Init => Upgrade!UInit
<1> SUFFICES ASSUME Init
             PROVE  Upgrade!UInit
  OBVIOUS
<1>1. PICK n \in 0 .. Last : schema = UpTo(n)
  BY DEF Init
<1>2. Recorded = 1 .. n
  BY <1>1, LevelFacts
<1>3. InUse = {}
  BY DEF Init, InUse
<1>4. QED
  BY <1>2, <1>3 DEF Upgrade!UInit

\* A commit is the next upgrade, the end of a loop an entry, and every way to
\* close a connection a way out.
LEMMA UpgradeStep ==
  ASSUME IInv, [Next]_vars
  PROVE  [Upgrade!UNext]_(Upgrade!upgradeVars)
<1>0. Kinds
  BY TypeParts DEF IInv
<1>1. ASSUME NEW p \in Processes, Commit(p)
      PROVE  Upgrade!UNext
  <2>1. PICK n \in 0 .. (Last - 1) : Recorded = 1 .. n /\ Recorded' = 1 .. (n + 1)
    BY <1>1, CommitLevel
  <2>2. InUse' = InUse
    BY <1>1 DEF Commit, InUse
  <2>3. QED
    BY <2>1, <2>2 DEF Upgrade!UNext, Upgrade!Apply
<1>2. ASSUME NEW p \in Processes, Finish(p)
      PROVE  Upgrade!UNext
  <2>1. Recorded' = Recorded
    BY <1>2 DEF Finish, Recorded
  <2>2. InUse' = InUse \union {p}
    BY <1>0, <1>2 DEF Finish, InUse, Kinds
  <2>3. pc'[p] = "working"
    BY <1>0, <1>2 DEF Finish, Kinds
  <2>4. 1 .. Release[p] \subseteq Recorded
    BY <2>1, <2>3, ServedStep DEF Served
  <2>5. QED
    BY <2>1, <2>2, <2>4 DEF Upgrade!UNext, Upgrade!Enter
<1>3. ASSUME NEW p \in Processes, Close(p)
      PROVE  Upgrade!UNext
  <2>1. Recorded' = Recorded
    BY <1>3 DEF Close, Recorded
  <2>2. InUse' = InUse \ {p}
    BY <1>0, <1>3 DEF Close, InUse, Kinds
  <2>3. QED
    BY <2>1, <2>2 DEF Upgrade!UNext, Upgrade!Quit
<1>4. ASSUME NEW p \in Processes,
             Open(p) \/ PassOver(p) \/ Begin(p) \/ Execute(p) \/ Transact(p) \/ EndTransact(p)
      PROVE  Recorded' = Recorded /\ InUse' = InUse
  BY <1>0, <1>4
     DEF Open, PassOver, AtVersion, Begin, Execute, Transact, EndTransact, Recorded, InUse,
         Kinds
<1>5. CASE UNCHANGED vars
  BY <1>5 DEF vars, Recorded, InUse, Upgrade!upgradeVars
<1>6. QED
  BY <1>1, <1>2, <1>3, <1>4, <1>5
     DEF Next, Migrate, Refused, Leave, Fault, Upgrade!upgradeVars

\* migrate implements SchemaUpgrade, for any processes, releases and scripts.
THEOREM MigratesInOrder == Spec => ImplementsUpgrade
<1>1. IInv /\ [Next]_vars => [Upgrade!UNext]_(Upgrade!upgradeVars)
  BY UpgradeStep
<1>2. QED
  BY <1>1, UpgradeInit, Invariance, PTL DEF Spec, ImplementsUpgrade, Upgrade!USpec
=============================================================================
