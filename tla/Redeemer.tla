------------------------------ MODULE Redeemer ------------------------------
(***************************************************************************)
(* Redeem runs over the database of module Repo.                           *)
(*                                                                         *)
(* A runner is one control flow that can start a redeem run:               *)
(*   - the scheduled cycle of the service: poll, look for work, redeem;    *)
(*   - a request handler of the web UI (/redeem, /poll, /codes);           *)
(*   - an `icr redeem` command, in a process of its own.                   *)
(* The first two live in the service process and share its asyncio.Lock;   *)
(* the command knows nothing of it.                                        *)
(*                                                                         *)
(* A run reads its whole work list once, groups it by account, reads each  *)
(* account's row once when its batch begins, and then submits the batch    *)
(* one code at a time: everything it works from is a snapshot.  The model  *)
(* lets go of the order of the list (by account name, then first_seen_at). *)
(* The request itself, with its server switches and instance id            *)
(* refreshes, is one exchange here.                                        *)
(***************************************************************************)
EXTENDS Repo, FiniteSets

CONSTANTS
  Cycle,          \* the scheduled job: one, because max_instances=1
  WebHandlers,    \* request handlers
  Commands,       \* `icr redeem` processes
  None,           \* nobody, nothing
  GoodCreds,      \* credentials the game server never rejects; any others it
                  \* may reject at any time
  MaxCrashes,     \* bound: crashes of a process
  MaxAdmin        \* bound: what is asked for, web requests, `icr redeem`
                  \* commands and operations on accounts and codes together

Locking == {Cycle} \union WebHandlers      \* the runners of the service process
Runners == Locking \union Commands

\* What the one await of an attempt may come back with.
Replies == Terminal \union {"error", "bad_credentials"}

ASSUME RedeemerAssumption ==
  /\ Cycle \notin WebHandlers
  /\ Commands \intersect Locking = {}
  /\ IsFiniteSet(Commands)
  /\ None \notin Runners
  /\ None \notin Accounts
  /\ None \notin Pairs
  /\ None \notin Replies
  /\ GoodCreds \subseteq Creds
  /\ MaxCrashes \in Nat
  /\ MaxAdmin \in Nat

VARIABLES
  lock,           \* ServiceState.lock: its holder, or None
  pc,             \* where each runner is
  work,           \* [Runners -> SUBSET Pairs]: its list, less what it is done with
  batch,          \* [Runners -> account id of the batch it is in, or None]
  snapshot,       \* [Runners -> credentials on the Account object of the batch]
  item,           \* [Runners -> pair being submitted, or None]
  reply,          \* [Runners -> what the game server answered, or None]
  settled,        \* the game server's own record: (credentials, code) answered for good
  doubtful,       \* history: those of them the ledger may not know: the request
                  \* failed, its answer was lost or could not be stored, or the
                  \* account, its credentials or its row have gone since
  crashes,        \* number of crashes so far
  admin           \* how much has been asked for so far

runVars == <<lock, pc, work, batch, snapshot, item, reply>>
boundVars == <<crashes, admin>>
vars == <<repoVars, runVars, settled, doubtful, boundVars>>

PCs == {"idle", "polling", "checking", "waiting", "listed", "batch", "sent", "answered"}

\* The points at which a runner is inside a redeem run, and those with a
\* submission under way.
RunPCs == {"listed", "batch", "sent", "answered"}
SubmittingPCs == {"sent", "answered"}

TypeOK ==
  /\ RepoTypeOK
  /\ lock \in Locking \union {None}
  /\ pc \in [Runners -> PCs]
  /\ work \in [Runners -> SUBSET Pairs]
  /\ batch \in [Runners -> Accounts \union {None}]
  /\ snapshot \in [Runners -> Creds \union {NoCreds}]
  /\ item \in [Runners -> Pairs \union {None}]
  /\ reply \in [Runners -> Replies \union {None}]
  /\ settled \in SUBSET (Creds \X Codes)
  /\ doubtful \in SUBSET (Creds \X Codes)
  /\ crashes \in 0 .. MaxCrashes
  /\ admin \in 0 .. MaxAdmin

\* An installation whose accounts and codes are on file and whose ledger is
\* still empty: its rows come from runs.
Init ==
  /\ accounts \in [Accounts -> [enabled: {TRUE}, credentials_ok: {TRUE}, creds: Creds]
                               \union {NoAccount}]
  /\ \A a, b \in Accounts : /\ Exists(a)
                            /\ accounts[a].creds = accounts[b].creds
                            => a = b
  /\ codes \in [Codes -> Scopes]
  /\ \A c \in Codes : codes[c] \in Accounts => Exists(codes[c])
  /\ redemptions = [p \in Pairs |-> NoRow]
  /\ lock = None
  /\ pc = [r \in Runners |-> "idle"]
  /\ work = [r \in Runners |-> {}]
  /\ batch = [r \in Runners |-> None]
  /\ snapshot = [r \in Runners |-> NoCreds]
  /\ item = [r \in Runners |-> None]
  /\ reply = [r \in Runners |-> None]
  /\ settled = {}
  /\ doubtful = {}
  /\ crashes = 0
  /\ admin = 0

-----------------------------------------------------------------------------
(* Getting to a run                                                        *)

Goto(r, l) == pc' = [pc EXCEPT ![r] = l]

\* Somebody asks for something; only the cycle comes by itself.
Demand ==
  /\ admin < MaxAdmin
  /\ admin' = admin + 1

\* A bug: the lock is only taken by the scheduled job.
AcquireCycleOnly(r) ==
  \/ /\ r = Cycle
     /\ lock = None
     /\ lock' = r
  \/ /\ r # Cycle
     /\ UNCHANGED lock

\* `async with self.lock`
Acquire(r) ==
  /\ lock = None
  /\ lock' = r

Release(r) == lock' = IF lock = r THEN None ELSE lock

\* The tick of the scheduler, or POST /poll: poll_sources takes the lock for
\* the whole poll.  POST /chests holds it in the same way while it spends, and
\* writes to none of these tables.
StartPoll(r) ==
  /\ r \in Locking
  /\ pc[r] = "idle"
  /\ IF r = Cycle THEN UNCHANGED admin ELSE Demand
  /\ Acquire(r)
  /\ Goto(r, "polling")
  /\ UNCHANGED <<repoVars, work, batch, snapshot, item, reply, settled, doubtful, crashes>>

\* The codes a poll finds are put on file by AddCode.  The cycle goes on
\* whether the poll raised or not; a web request redeems only if it did not.
EndPoll(r) ==
  /\ pc[r] = "polling"
  /\ Release(r)
  /\ \/ r = Cycle /\ Goto(r, "checking")
     \/ r # Cycle /\ Goto(r, "waiting")
     \/ r # Cycle /\ Goto(r, "idle")
  /\ UNCHANGED <<repoVars, work, batch, snapshot, item, reply, settled, doubtful, boundVars>>

\* _redeem_if_work: a look at the queue, without the lock.
RedeemIfWork ==
  /\ pc[Cycle] = "checking"
  /\ Goto(Cycle, IF OutstandingWork = {} THEN "idle" ELSE "waiting")
  /\ UNCHANGED <<repoVars, lock, work, batch, snapshot, item, reply, settled, doubtful, boundVars>>

\* POST /redeem, or POST /codes that added something.
Trigger(r) ==
  /\ r \in WebHandlers
  /\ pc[r] = "idle"
  /\ Demand
  /\ Goto(r, "waiting")
  /\ UNCHANGED <<repoVars, lock, work, batch, snapshot, item, reply, settled, doubtful, crashes>>

-----------------------------------------------------------------------------
(* One run                                                                 *)

\* The work list is read once, right after the lock is taken.
StartRun(r) ==
  /\ pc[r] = "waiting"
  /\ Acquire(r)
  /\ work' = [work EXCEPT ![r] = OutstandingWork]
  /\ Goto(r, "listed")
  /\ UNCHANGED <<repoVars, batch, snapshot, item, reply, settled, doubtful, boundVars>>

\* `icr redeem [--account A] [--code C]`.  With --dry-run it reads the same
\* list and changes nothing, so a dry run is no step at all.
StartCommand(r) ==
  /\ r \in Commands
  /\ pc[r] = "idle"
  /\ Demand
  /\ \E A \in {Accounts} \union {{a} : a \in Accounts},
        C \in {Codes} \union {{c} : c \in Codes} :
        work' = [work EXCEPT ![r] = OutstandingWork \intersect (A \X C)]
  /\ Goto(r, "listed")
  /\ UNCHANGED <<repoVars, lock, batch, snapshot, item, reply, settled, doubtful, crashes>>

\* The run is over, or an exception ended it: the `async with` frees the lock.
Stop(r) ==
  /\ Release(r)
  /\ Goto(r, "idle")
  /\ work' = [work EXCEPT ![r] = {}]
  /\ batch' = [batch EXCEPT ![r] = None]
  /\ snapshot' = [snapshot EXCEPT ![r] = NoCreds]
  /\ item' = [item EXCEPT ![r] = None]
  /\ reply' = [reply EXCEPT ![r] = None]

EndRun(r) ==
  /\ pc[r] = "listed"
  /\ work[r] = {}
  /\ Stop(r)
  /\ UNCHANGED <<repoVars, settled, doubtful, boundVars>>

ItemsOf(r, a) == {p \in work[r] : p[1] = a}

\* An account deleted since the list was read is passed over.
SkipAccount(r) ==
  /\ pc[r] = "listed"
  /\ \E a \in Accounts :
       /\ ItemsOf(r, a) # {}
       /\ ~Exists(a)
       /\ work' = [work EXCEPT ![r] = @ \ ItemsOf(r, a)]
  /\ UNCHANGED <<repoVars, lock, pc, batch, snapshot, item, reply, settled, doubtful, boundVars>>

\* get_account: neither `enabled` nor `credentials_ok` is looked at again.
LoadAccount(r) ==
  /\ pc[r] = "listed"
  /\ \E a \in Accounts :
       /\ ItemsOf(r, a) # {}
       /\ Exists(a)
       /\ batch' = [batch EXCEPT ![r] = a]
       /\ snapshot' = [snapshot EXCEPT ![r] = accounts[a].creds]
  /\ Goto(r, "batch")
  /\ UNCHANGED <<repoVars, lock, work, item, reply, settled, doubtful, boundVars>>

EndBatch(r) ==
  /\ pc[r] = "batch"
  /\ ItemsOf(r, batch[r]) = {}
  /\ Goto(r, "listed")
  /\ batch' = [batch EXCEPT ![r] = None]
  /\ snapshot' = [snapshot EXCEPT ![r] = NoCreds]
  /\ UNCHANGED <<repoVars, lock, work, item, reply, settled, doubtful, boundVars>>

\* A bug: the item stays on the list until its outcome is terminal.
SubmitKeepingItem(r) ==
  /\ pc[r] = "batch"
  /\ \E p \in ItemsOf(r, batch[r]) : item' = [item EXCEPT ![r] = p]
  /\ Goto(r, "sent")
  /\ UNCHANGED <<repoVars, lock, work, batch, snapshot, reply, settled, doubtful, boundVars>>

Submit(r) ==
  /\ pc[r] = "batch"
  /\ \E p \in ItemsOf(r, batch[r]) :
       /\ item' = [item EXCEPT ![r] = p]
       /\ work' = [work EXCEPT ![r] = @ \ {p}]
  /\ Goto(r, "sent")
  /\ UNCHANGED <<repoVars, lock, batch, snapshot, reply, settled, doubtful, boundVars>>

\* What the game server knows an item by.
Coupon(r) == <<snapshot[r], item[r][2]>>

\* The game server acts and the runner's await returns.  A code is granted to
\* a set of credentials once.  A request that failed may have been acted on.
Answer(r) ==
  /\ pc[r] = "sent"
  /\ \E o \in Replies :
       /\ reply' = [reply EXCEPT ![r] = o]
       /\ o = "success" => Coupon(r) \notin settled
       /\ \/ o \in Terminal \union {"error"} /\ settled' = settled \union {Coupon(r)}
          \/ o \in {"error", "bad_credentials"} /\ UNCHANGED settled
       /\ o = "bad_credentials" => snapshot[r] \notin GoodCreds
       /\ doubtful' = IF o = "error" THEN doubtful \union ({Coupon(r)} \intersect settled')
                      ELSE doubtful
  /\ Goto(r, "answered")
  /\ UNCHANGED <<repoVars, lock, work, batch, snapshot, item, boundVars>>

\* What is settled and only this runner knows.
Outcome(r) == IF reply[r] \in Terminal THEN {Coupon(r)} ELSE {}

NextItem(r) ==
  /\ Goto(r, "batch")
  /\ item' = [item EXCEPT ![r] = None]
  /\ reply' = [reply EXCEPT ![r] = None]

\* A bug: an item that failed is put back for another attempt in this run.
RecordPuttingBack(r) ==
  /\ pc[r] = "answered"
  /\ reply[r] # "bad_credentials"
  /\ RecordRedemption(item[r], IF reply[r] = "error" THEN "failed" ELSE reply[r])
  /\ NextItem(r)
  /\ work' = IF reply[r] = "error" THEN [work EXCEPT ![r] = @ \union {item[r]}] ELSE work
  /\ doubtful' = IF accounts[item[r][1]].creds = snapshot[r]
                 THEN doubtful \ Outcome(r) ELSE doubtful \union Outcome(r)
  /\ UNCHANGED <<lock, batch, snapshot, settled, boundVars>>

\* An outcome goes on file, a GameApiError as "failed": for the account, which
\* may have other credentials by now than those the code was submitted with.
Record(r) ==
  /\ pc[r] = "answered"
  /\ reply[r] # "bad_credentials"
  /\ RecordRedemption(item[r], IF reply[r] = "error" THEN "failed" ELSE reply[r])
  /\ NextItem(r)
  /\ doubtful' = IF accounts[item[r][1]].creds = snapshot[r]
                 THEN doubtful \ Outcome(r) ELSE doubtful \union Outcome(r)
  /\ UNCHANGED <<lock, work, batch, snapshot, settled, boundVars>>

\* The account or the code was removed during the request: the foreign key
\* refuses the row, and the IntegrityError ends the whole run.
RecordRaises(r) ==
  /\ pc[r] = "answered"
  /\ reply[r] # "bad_credentials"
  /\ ~CanRecord(item[r])
  /\ Stop(r)
  /\ doubtful' = doubtful \union Outcome(r)
  /\ UNCHANGED <<repoVars, settled, boundVars>>

\* A bug: the batch is given up but the account is not flagged.
RejectCredentialsQuietly(r) ==
  /\ pc[r] = "answered"
  /\ reply[r] = "bad_credentials"
  /\ work' = [work EXCEPT ![r] = @ \ ItemsOf(r, batch[r])]
  /\ NextItem(r)
  /\ UNCHANGED <<repoVars, lock, batch, snapshot, settled, doubtful, boundVars>>

\* InvalidCredentialsError: flag the account, give up the rest of its batch.
RejectCredentials(r) ==
  /\ pc[r] = "answered"
  /\ reply[r] = "bad_credentials"
  /\ SetCredentialsOk(batch[r], FALSE)
  /\ work' = [work EXCEPT ![r] = @ \ ItemsOf(r, batch[r])]
  /\ NextItem(r)
  /\ UNCHANGED <<lock, batch, snapshot, settled, doubtful, boundVars>>

-----------------------------------------------------------------------------
(* Everything else                                                         *)

\* A process dies, or is stopped, and is started again: its runners lose
\* what they held.  What is committed stays.
Crash(S) ==
  /\ crashes < MaxCrashes
  /\ \E r \in S : pc[r] # "idle"
  /\ crashes' = crashes + 1
  /\ lock' = IF lock \in S THEN None ELSE lock
  /\ pc' = [r \in Runners |-> IF r \in S THEN "idle" ELSE pc[r]]
  /\ work' = [r \in Runners |-> IF r \in S THEN {} ELSE work[r]]
  /\ batch' = [r \in Runners |-> IF r \in S THEN None ELSE batch[r]]
  /\ snapshot' = [r \in Runners |-> IF r \in S THEN NoCreds ELSE snapshot[r]]
  /\ item' = [r \in Runners |-> IF r \in S THEN None ELSE item[r]]
  /\ reply' = [r \in Runners |-> IF r \in S THEN None ELSE reply[r]]
  /\ doubtful' = doubtful \union UNION {Outcome(r) : r \in S}
  /\ UNCHANGED <<repoVars, settled, admin>>

CrashService == Crash(Locking)
CrashCommand == \E r \in Commands : Crash({r})

\* What the ledger knew under credentials that an operation takes from their
\* account, or of a pair whose row it deletes.
Forgotten ==
  {<<accounts[p[1]].creds, p[2]>> :
     p \in {q \in Pairs : /\ Exists(q[1])
                          /\ \/ accounts'[q[1]].creds # accounts[q[1]].creds
                             \/ redemptions'[q] # redemptions[q]}}

\* The web pages and the other commands work on the database at any time;
\* none of them takes the lock.
Operate ==
  /\ Demand
  /\ Administer
  /\ doubtful' = doubtful \union (Forgotten \intersect settled)
  /\ UNCHANGED <<runVars, settled, crashes>>

RunStep(r) ==
  \/ EndRun(r) \/ SkipAccount(r) \/ LoadAccount(r) \/ EndBatch(r)
  \/ Submit(r) \/ Answer(r)
  \/ Record(r) \/ RecordRaises(r) \/ RejectCredentials(r)

Next ==
  \/ \E r \in Runners : \/ StartPoll(r) \/ EndPoll(r) \/ Trigger(r)
                       \/ StartRun(r) \/ StartCommand(r) \/ RunStep(r)
  \/ RedeemIfWork
  \/ CrashService \/ CrashCommand
  \/ Operate

Spec == Init /\ [][Next]_vars

\* The scheduler fires for ever, requests end by timeout, the event loop runs
\* what is ready, and asyncio.Lock serves its waiters first come first served:
\* a waiter for whom the lock comes free again and again gets it.
Fairness ==
  /\ SF_vars(StartPoll(Cycle))
  /\ WF_vars(RedeemIfWork)
  /\ \A r \in Locking : /\ WF_vars(EndPoll(r))
                        /\ SF_vars(StartRun(r))
                        /\ WF_vars(RunStep(r))

FairSpec == Spec /\ Fairness

-----------------------------------------------------------------------------
(* Properties                                                              *)

\* The service never has two submissions under way at once: "Everything runs
\* sequentially through one paced API client" (redeemer.py), which its lock
\* provides, whatever commands do beside it.
OneSubmissionAtATime ==
  \A r, s \in Locking :
    pc[r] \in SubmittingPCs /\ pc[s] \in SubmittingPCs => r = s

\* What the ledger asks of whoever runs `icr redeem`: not while another run is
\* under way.
CommandsAlone ==
  \A r \in Commands, s \in Runners : pc[r] \in RunPCs /\ pc[s] \in RunPCs => r = s

\* What the credentials_ok flag asks of the operator: an account is not given
\* other credentials while a run is working through its batch.
CredentialsKept ==
  \A r \in Runners :
    snapshot[r] # NoCreds => accounts[batch[r]].creds \in {snapshot[r], NoCreds}

\* The work list is a snapshot, yet as far as the ledger goes it never gets
\* stale: what a run still has to do, or is doing, is a pair the ledger allows
\* to be attempted now.
WorkStillOpen ==
  \A r \in Runners :
    /\ \A p \in work[r] : OpenRow(redemptions[p])
    /\ item[r] # None => OpenRow(redemptions[item[r]])

\* The strengthening that makes these inductive: what each program point
\* implies about a runner's own variables, and who holds the lock.
Shape ==
  \A r \in Runners :
    /\ item[r] # None <=> pc[r] \in SubmittingPCs
    /\ reply[r] # None <=> pc[r] = "answered"
    /\ batch[r] # None <=> pc[r] \in {"batch"} \union SubmittingPCs
    /\ snapshot[r] # NoCreds <=> pc[r] \in {"batch"} \union SubmittingPCs
    /\ work[r] # {} => pc[r] \in RunPCs
    /\ item[r] \notin work[r]
    /\ item[r] # None => item[r][1] = batch[r]
    /\ r \in Commands => pc[r] \in {"idle"} \union RunPCs

LockHeld ==
  \A r \in Locking : lock = r <=> pc[r] \in {"polling"} \union RunPCs

\* The retry ceiling of outstanding_work.  Within the service no pair is
\* attempted more often than max_redeem_attempts; each `icr redeem` process
\* that overlaps it can add one attempt, and no more than one, because its list
\* may have been read before the others' last attempts went on file.
AttemptsBounded ==
  \A p \in Pairs : redemptions[p].attempts <= MaxAttempts + Cardinality(Commands)

\* What makes it inductive: attempts already made and attempts in store.
Holding(p) == {r \in Runners : p \in work[r] \/ item[r] = p}
AttemptsInStore ==
  \A p \in Pairs : redemptions[p].attempts + Cardinality(Holding(p))
                     <= MaxAttempts + Cardinality(Commands)

\* The ledger behaves as RedemptionQueue says: one attempt at a time, only on
\* open pairs, each counted once, and a closed pair stays closed until its
\* account or code is removed.
QueueEntry ==
  [p \in Pairs |-> [attempts |-> redemptions[p].attempts,
                    closed |-> redemptions[p].status \in Terminal]]
Submitting == {item[r] : r \in {s \in Runners : item[s] # None}}

Queue == INSTANCE RedemptionQueue WITH
           QPairs <- Pairs, QMax <- MaxAttempts,
           entry <- QueueEntry, inflight <- Submitting

ImplementsQueue == Queue!QSpec

\* README: "a code is never submitted twice for the same account", as far as it
\* goes: what the game server has answered for good is submitted again only if
\* the ledger could not know, because the request failed, the process died over
\* the answer, or the operator took the account, its credentials or its row away.
ResubmittedForAReason ==
  [][\A r \in Runners :
       pc[r] = "batch" /\ pc'[r] = "sent" /\ <<snapshot[r], item'[r][2]>> \in settled
       => <<snapshot[r], item'[r][2]>> \in doubtful]_vars

\* What makes it inductive: a coupon that is settled is on file for the account
\* that has these credentials, or on its way there, or doubtful; and no account
\* that a batch works for lost its credentials unnoticed.
CouponOnFile(q) ==
  \E a \in Accounts : /\ accounts[a].creds = q[1]
                      /\ redemptions[<<a, q[2]>>].status \in Terminal
Awaited(q) == \E r \in Runners : q \in Outcome(r)
SettledKnown ==
  \A q \in settled : q \in doubtful \/ CouponOnFile(q) \/ Awaited(q)
StaleDoubtful ==
  \A r \in Runners :
    snapshot[r] # NoCreds /\ accounts[batch[r]].creds # snapshot[r]
    => \A q \in settled : q[1] = snapshot[r] => q \in doubtful \/ Awaited(q)
UniqueCreds ==
  \A a, b \in Accounts : Exists(a) /\ accounts[a].creds = accounts[b].creds => a = b
CouponInv == SettledKnown /\ StaleDoubtful /\ UniqueCreds

\* A run gets done, whatever the game server answers and whatever becomes of
\* the accounts: each of its steps takes something off its list, or brings it
\* closer to doing so; nothing is ever put back.  So it holds the lock for a
\* number of requests known when it starts.
Distance(r) ==
  CASE pc[r] = "sent" -> 5
    [] pc[r] = "answered" -> 4
    [] pc[r] = "batch" /\ ItemsOf(r, batch[r]) = {} -> 3
    [] pc[r] = "listed" -> 2
    [] pc[r] = "batch" /\ ItemsOf(r, batch[r]) # {} -> 1
    [] OTHER -> 0
Closer(r) ==
  \/ work'[r] \subseteq work[r] /\ work'[r] # work[r]
  \/ work'[r] = work[r] /\ Distance(r)' < Distance(r)
RunAdvances ==
  [][\A r \in Runners :
       pc[r] \in RunPCs => Closer(r) \/ UNCHANGED <<pc[r], work[r], batch[r]>>]_vars

\* Every pair on the queue leaves it: its code is settled or out of attempts,
\* or its account is disabled, removed or flagged.  In particular bad
\* credentials of one account do not hold up the others, and a code that keeps
\* failing does not hold up the batch (redeemer.py's list of fixed defects).
Drained == \A p \in Pairs : p \in OutstandingWork ~> p \notin OutstandingWork

\* README: "a code is never submitted twice for the same account, across
\* restarts": once the game server has answered for a code and credentials,
\* they are not submitted again.
NeverSubmittedTwice ==
  [][\A r \in Runners :
       pc[r] = "batch" /\ pc'[r] = "sent" => <<snapshot[r], item'[r][2]>> \notin settled]_vars

\* models.py: "Terminal states are never retried": a terminal row is never
\* written again while it exists.
TerminalNeverRetried ==
  [][\A p \in Pairs : redemptions[p].status \in Terminal
                      => redemptions'[p] \in {redemptions[p], NoRow}]_vars

\* redeemer.py: "The credentials themselves are bad": an account is never
\* flagged while it holds credentials that the game server does not reject.
FlaggedOnlyIfBad ==
  \A a \in Accounts : accounts[a].creds \in GoodCreds => accounts[a].credentials_ok
=============================================================================
