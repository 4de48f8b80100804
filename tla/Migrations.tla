----------------------------- MODULE Migrations -----------------------------
(***************************************************************************)
(* Opening the database: open_db, migrate and transaction of               *)
(* db/__init__.py, run by the service and by commands at the same time,    *)
(* possibly from different releases.                                       *)
(*                                                                         *)
(* SQLite gives a connection a transaction of its own: what it did is      *)
(* visible to others when it commits, all at once, and undone when it      *)
(* rolls back, closes or dies.  One connection at a time may have written; *)
(* the others wait for it (busy_timeout).  A script starts with a plain    *)
(* BEGIN, so it only asks for that lock with its first statement, and sees *)
(* what was committed until then.                                          *)
(***************************************************************************)
EXTENDS Integers, FiniteSets

CONSTANTS
  Processes,
  Service,        \* the one that is started again whenever it ends
  Last,           \* number of migrations there are
  Size,           \* [1 .. Last -> statements in its .sql file]
  Release,        \* [Processes -> last migration packaged with its release]
  None,
  MaxFaults       \* bound: crashes, failing statements and lock waits timed out

ASSUME MigrationsAssumption ==
  /\ Service \in Processes
  /\ None \notin Processes
  /\ Last \in Nat \ {0}
  /\ Size \in [1 .. Last -> Nat \ {0}]
  /\ Release \in [Processes -> 1 .. Last]
  /\ MaxFaults \in Nat

Versions == 1 .. Last

\* The last statement of a script inserts its version in schema_migrations.
RecordOf(v) == <<v, Size[v] + 1>>
Statements == UNION {{v} \X (1 .. Size[v] + 1) : v \in Versions}

VARIABLES
  schema,         \* the statements whose effect is in the database
  lock,           \* the connection that may write
  pc,             \* [Processes -> "closed", "migrating" or "working"]
  done,           \* [Processes -> the versions applied_versions returned]
  next,           \* [Processes -> the migration its loop is at]
  step,           \* [Processes -> the statement its script is at, 0 outside]
  draft,          \* [Processes -> statements in its open transaction]
  faults          \* number of faults so far

vars == <<schema, lock, pc, done, next, step, draft, faults>>

Recorded == {v \in Versions : RecordOf(v) \in schema}

\* The database after the first n migrations.
UpTo(n) == {q \in Statements : q[1] <= n}

TypeOK ==
  /\ schema \in SUBSET Statements
  /\ lock \in Processes \union {None}
  /\ pc \in [Processes -> {"closed", "migrating", "working"}]
  /\ done \in [Processes -> SUBSET Versions]
  /\ next \in [Processes -> 1 .. (Last + 1)]
  /\ step \in [Processes -> Nat]
  /\ draft \in [Processes -> SUBSET Statements]
  /\ faults \in 0 .. MaxFaults
  /\ \A p \in Processes : step[p] # 0 => /\ pc[p] = "migrating"
                                         /\ next[p] <= Release[p]
                                         /\ step[p] <= Size[next[p]] + 2
  /\ \A p \in Processes : step[p] = 0 => draft[p] = {}

\* A new database, or one left by an earlier release.
Init ==
  /\ \E n \in 0 .. Last : schema = UpTo(n)
  /\ lock = None
  /\ pc = [p \in Processes |-> "closed"]
  /\ done = [p \in Processes |-> {}]
  /\ next = [p \in Processes |-> 1]
  /\ step = [p \in Processes |-> 0]
  /\ draft = [p \in Processes |-> {}]
  /\ faults = 0

-----------------------------------------------------------------------------
(* migrate                                                                 *)

\* A bug: the versions applied are not looked up.
OpenForgetful(p) ==
  /\ pc[p] = "closed"
  /\ pc' = [pc EXCEPT ![p] = "migrating"]
  /\ done' = [done EXCEPT ![p] = {}]
  /\ next' = [next EXCEPT ![p] = 1]
  /\ UNCHANGED <<schema, lock, step, draft, faults>>

\* A bug: the migrations come in the wrong order.
OpenAtLast(p) ==
  /\ pc[p] = "closed"
  /\ pc' = [pc EXCEPT ![p] = "migrating"]
  /\ done' = [done EXCEPT ![p] = Recorded]
  /\ next' = [next EXCEPT ![p] = Release[p]]
  /\ UNCHANGED <<schema, lock, step, draft, faults>>

\* connect and applied_versions.
Open(p) ==
  /\ pc[p] = "closed"
  /\ pc' = [pc EXCEPT ![p] = "migrating"]
  /\ done' = [done EXCEPT ![p] = Recorded]
  /\ next' = [next EXCEPT ![p] = 1]
  /\ UNCHANGED <<schema, lock, step, draft, faults>>

\* Between two scripts, with a migration of this release to look at.
AtVersion(p) ==
  /\ pc[p] = "migrating"
  /\ step[p] = 0
  /\ next[p] <= Release[p]

PassOver(p) ==
  /\ AtVersion(p)
  /\ next[p] \in done[p]
  /\ next' = [next EXCEPT ![p] = @ + 1]
  /\ UNCHANGED <<schema, lock, pc, done, step, draft, faults>>

Begin(p) ==
  /\ AtVersion(p)
  /\ next[p] \notin done[p]
  /\ step' = [step EXCEPT ![p] = 1]
  /\ UNCHANGED <<schema, lock, pc, done, next, draft, faults>>

\* In a script, about to execute a statement, with no other writer in the way.
Executing(p) ==
  /\ step[p] # 0
  /\ step[p] <= Size[next[p]] + 1
  /\ lock \in {None, p}

\* A bug: no BEGIN in the script, every statement commits on its own.
ExecuteAutocommit(p) ==
  /\ Executing(p)
  /\ <<next[p], step[p]>> \notin schema
  /\ schema' = schema \union {<<next[p], step[p]>>}
  /\ step' = [step EXCEPT ![p] = @ + 1]
  /\ UNCHANGED <<lock, pc, done, next, draft, faults>>

Execute(p) ==
  /\ Executing(p)
  /\ <<next[p], step[p]>> \notin schema
  /\ lock' = p
  /\ draft' = [draft EXCEPT ![p] = @ \union {<<next[p], step[p]>>}]
  /\ step' = [step EXCEPT ![p] = @ + 1]
  /\ UNCHANGED <<schema, pc, done, next, faults>>

Commit(p) ==
  /\ step[p] # 0
  /\ step[p] = Size[next[p]] + 2
  /\ schema' = schema \union draft[p]
  /\ lock' = None
  /\ draft' = [draft EXCEPT ![p] = {}]
  /\ step' = [step EXCEPT ![p] = 0]
  /\ next' = [next EXCEPT ![p] = @ + 1]
  /\ UNCHANGED <<pc, done, faults>>

\* A bug: no ROLLBACK.
CloseUnfinished(p) ==
  /\ lock' = IF lock = p THEN None ELSE lock
  /\ step' = [step EXCEPT ![p] = 0]
  /\ pc' = [pc EXCEPT ![p] = "closed"]
  /\ UNCHANGED <<schema, done, next, draft>>

\* A bug: a migration that failed is logged, and the program goes on.
CarryOn(p) ==
  /\ lock' = IF lock = p THEN None ELSE lock
  /\ draft' = [draft EXCEPT ![p] = {}]
  /\ step' = [step EXCEPT ![p] = 0]
  /\ pc' = [pc EXCEPT ![p] = "working"]
  /\ UNCHANGED <<schema, done, next>>

\* The connection is closed, what it has not committed is undone: by the
\* ROLLBACK of migrate, by close(), or by SQLite after a crash.
Close(p) ==
  /\ lock' = IF lock = p THEN None ELSE lock
  /\ draft' = [draft EXCEPT ![p] = {}]
  /\ step' = [step EXCEPT ![p] = 0]
  /\ pc' = [pc EXCEPT ![p] = "closed"]
  /\ UNCHANGED <<schema, done, next>>

\* Another process has applied this migration since: "table already exists",
\* "duplicate column".  migrate raises, and the process ends.
Refused(p) ==
  /\ Executing(p)
  /\ <<next[p], step[p]>> \in schema
  /\ Close(p)
  /\ UNCHANGED faults

Finish(p) ==
  /\ pc[p] = "migrating"
  /\ step[p] = 0
  /\ next[p] > Release[p]
  /\ pc' = [pc EXCEPT ![p] = "working"]
  /\ UNCHANGED <<schema, lock, done, next, step, draft, faults>>

-----------------------------------------------------------------------------
(* The rest of a connection's life                                         *)

\* `with transaction(conn)`: BEGIN IMMEDIATE, then COMMIT or ROLLBACK.
Transact(p) ==
  /\ pc[p] = "working"
  /\ lock = None
  /\ lock' = p
  /\ UNCHANGED <<schema, pc, done, next, step, draft, faults>>

EndTransact(p) ==
  /\ pc[p] = "working"
  /\ lock = p
  /\ lock' = None
  /\ UNCHANGED <<schema, pc, done, next, step, draft, faults>>

\* The command is done, or the service is stopped.
Leave(p) ==
  /\ pc[p] = "working"
  /\ lock # p
  /\ Close(p)
  /\ UNCHANGED faults

\* The process dies; or a statement of a script fails, on a full disk or
\* because the lock did not come free within busy_timeout.
Fault(p) ==
  /\ faults < MaxFaults
  /\ faults' = faults + 1
  /\ pc[p] # "closed"
  /\ Close(p)

Migrate(p) ==
  \/ PassOver(p) \/ Begin(p) \/ Execute(p) \/ Commit(p) \/ Refused(p) \/ Finish(p)

Next ==
  \E p \in Processes :
    Open(p) \/ Migrate(p) \/ Transact(p) \/ EndTransact(p) \/ Leave(p) \/ Fault(p)

Spec == Init /\ [][Next]_vars

\* The service is restarted by its supervisor and left running (no fairness of
\* Leave).  Transactions are short, and the wait for the lock is 30 s, so a
\* writer gets it between those of others.
Fairness ==
  /\ WF_vars(Open(Service))
  /\ SF_vars(Execute(Service) \/ Refused(Service))
  /\ \A p \in Processes : WF_vars(Migrate(p)) /\ WF_vars(EndTransact(p))

FairSpec == Spec /\ Fairness

-----------------------------------------------------------------------------
(* Properties                                                              *)

\* "A failing migration would leave a half-applied schema behind" (migrate):
\* however many processes upgrade at once, and wherever one of them stops, the
\* database is at one level: every statement of the migrations up to it, those
\* that record them included, and none of a later one.
AtOneLevel == \E n \in 0 .. Last : schema = UpTo(n)

\* A connection that a program works on has every migration of that program's
\* release, although it looked the versions up before it waited for the lock.
Served == \A p \in Processes : pc[p] = "working" => 1 .. Release[p] \subseteq Recorded

\* However many processes migrate at once and wherever they stop, it looks like
\* one upgrade after the other, each made once, in order and for good, and no
\* program enters before its own (migrate, open_db).
InUse == {p \in Processes : pc[p] = "working"}

Upgrade == INSTANCE SchemaUpgrade WITH
             ULast <- Last, Users <- Processes, Needs <- Release,
             applied <- Recorded, using <- InUse

ImplementsUpgrade == Upgrade!USpec

\* The service that lost a race for a migration, or a crash, gets to work when
\* it is started again, whichever process finished the upgrade.
BackAtWork == []<>(pc[Service] = "working")
=============================================================================
