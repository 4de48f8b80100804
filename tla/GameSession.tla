----------------------------- MODULE GameSession -----------------------------
(***************************************************************************)
(* Authenticated calls to the game server: GameSession of game/session.py, *)
(* the classification of answers in game/api.py, and the batches of        *)
(* chests.py.                                                              *)
(*                                                                         *)
(* A call sends a request to the play server with the account's instance   *)
(* id.  The server may answer that the account is on another server, or    *)
(* that the instance id is stale, instead of doing what was asked; the     *)
(* session then stores the new server, or fetches and stores a new id, and *)
(* sends the request again.  What a request does (chests opened or bought, *)
(* contracts used, a code redeemed) cannot be undone.                      *)
(*                                                                         *)
(* Clients are the service, which does one thing at a time because of its  *)
(* lock, and commands in processes of their own.  They share the cached    *)
(* play server and the accounts' rows.                                     *)
(***************************************************************************)
EXTENDS Integers

CONSTANTS
  Clients,
  Accounts,
  Servers,
  NoServer,
  MaxRecoveries,  \* MAX_RECOVERIES: tries of one call, and of one refresh
  Cap,            \* MAX_OPEN_CHESTS, MAX_BUY_CHESTS, MAX_BLACKSMITH
  MaxCount,       \* bound: how many chests somebody asks for
  MaxRenewals     \* bound: new instance ids

ASSUME GameAssumption ==
  /\ NoServer \notin Servers
  /\ MaxRecoveries \in Nat \ {0}
  /\ Cap \in Nat \ {0}
  /\ MaxCount \in Nat
  /\ MaxRenewals \in Nat

VARIABLES
  home,           \* [Accounts -> the server an account is on]
  current,        \* [Accounts -> its valid instance id]
  play_server,    \* the play server cached in the database
  instance_id,    \* [Accounts -> the id in the account's row], 0 for none
  pc,             \* where each client is
  job,            \* [Clients -> what it was asked to do]
  server,         \* [Clients -> the server its session uses]
  id,             \* [Clients -> the id in its account object]
  tries,          \* [Clients -> requests of this call]
  redirects,      \* [Clients -> getuserdetails requests of this refresh]
  bought,         \* [Clients -> how many of its job it knows to be done]
  spent,          \* history: [Clients -> how many of its job were done]
  surprises       \* history: [Clients -> what this call could not know when it
                  \* started, up to MaxRecoveries]

gameVars == <<home, current>>
dbVars == <<play_server, instance_id>>
callVars == <<server, id, tries, redirects>>
jobVars == <<job, bought, spent>>
vars == <<gameVars, dbVars, pc, callVars, jobVars, surprises>>

\* "open" stands for what sends the instance id (opening chests, contracts,
\* redeeming a code), "buy" for buying chests, which does not, and "details"
\* for fetch_inventory, which does nothing but refresh the id.
Jobs == [account: Accounts, kind: {"open", "buy"}, asked: 1 .. MaxCount]
          \union [account: Accounts, kind: {"details"}, asked: {0}]

AtRest == {"idle", "done", "failed", "gaveUp"}

\* "start" before a call, "resolving" while the master server is asked.  Then
\* a request is "sent", or getuserdetails is, "refreshing"; and the answer is
\* on its way in the others.
PCs == [at: AtRest \union {"start", "resolving", "sent", "outdated", "executed", "refreshing"}]
         \union [at: {"redirected", "detailsRedirected"}, to: Servers]
         \union [at: {"detailed"}, id: Nat]

TypeOK ==
  /\ home \in [Accounts -> Servers]
  /\ current \in [Accounts -> Nat]
  /\ play_server \in Servers \union {NoServer}
  /\ instance_id \in [Accounts -> Nat]
  /\ pc \in [Clients -> PCs]
  /\ job \in [Clients -> Jobs]
  /\ server \in [Clients -> Servers \union {NoServer}]
  /\ id \in [Clients -> Nat]
  /\ tries \in [Clients -> 0 .. MaxRecoveries]
  /\ redirects \in [Clients -> 0 .. MaxRecoveries]
  /\ bought \in [Clients -> Nat]
  /\ spent \in [Clients -> Nat]
  /\ surprises \in [Clients -> 0 .. MaxRecoveries]

Init ==
  /\ home \in [Accounts -> Servers]
  /\ current = [a \in Accounts |-> 1]
  /\ play_server \in Servers \union {NoServer}
  /\ instance_id \in [Accounts -> {0, 1}]
  /\ pc = [c \in Clients |-> [at |-> "idle"]]
  /\ job \in [Clients -> [account: Accounts, kind: {"details"}, asked: {0}]]
  /\ server = [c \in Clients |-> NoServer]
  /\ id = [c \in Clients |-> 0]
  /\ tries = [c \in Clients |-> 0]
  /\ redirects = [c \in Clients |-> 0]
  /\ bought = [c \in Clients |-> 0]
  /\ spent = [c \in Clients |-> 0]
  /\ surprises = [c \in Clients |-> 0]

-----------------------------------------------------------------------------
(* What a call knows                                                       *)

Account(c) == job[c].account

NeedsId(c) == job[c].kind = "open"

\* _chunks: batches are as large as allowed, the last one is what remains.
Batch(c) == LET left == job[c].asked - bought[c] IN IF left < Cap THEN left ELSE Cap

\* How many of the two facts that s and i are about are out of date.
Stale(c, s, i) ==
  (IF s = home[Account(c)] THEN 0 ELSE 1)
    + (IF NeedsId(c) /\ i # current[Account(c)] THEN 1 ELSE 0)

\* A bug: one try too many.
AgainTooOften(n) == n <= MaxRecoveries

\* Is there another try after the n-th?
Again(n) == n < MaxRecoveries

Goto(c, where) == pc' = [pc EXCEPT ![c] = where]

-----------------------------------------------------------------------------
(* Starting                                                                *)

\* A new session, for an account that was just looked up.
NewSession(c, j) ==
  /\ server' = [server EXCEPT ![c] = NoServer]
  /\ id' = [id EXCEPT ![c] = instance_id[j.account]]

\* The next code of a redeem run: its session goes on, and for the same account
\* so does the account object.
SameSession(c, j) ==
  /\ server[c] # NoServer
  /\ j.kind = "open" /\ j.asked = 1
  /\ id' = [id EXCEPT ![c] = IF j.account = Account(c) THEN @ ELSE instance_id[j.account]]
  /\ UNCHANGED server

Begin(c) ==
  /\ pc[c].at \in AtRest
  /\ \E j \in Jobs : /\ job' = [job EXCEPT ![c] = j]
                     /\ NewSession(c, j) \/ SameSession(c, j)
  /\ Goto(c, [at |-> "start"])
  /\ tries' = [tries EXCEPT ![c] = 0]
  /\ redirects' = [redirects EXCEPT ![c] = 0]
  /\ bought' = [bought EXCEPT ![c] = 0]
  /\ spent' = [spent EXCEPT ![c] = 0]
  /\ surprises' = [surprises EXCEPT ![c] = 0]
  /\ UNCHANGED <<gameVars, dbVars>>

FirstRequest(c, s) ==
  /\ IF job[c].kind = "details"
     THEN /\ Goto(c, [at |-> "refreshing"])
          /\ redirects' = [redirects EXCEPT ![c] = 1]
          /\ UNCHANGED tries
     ELSE /\ Goto(c, [at |-> "sent"])
          /\ tries' = [tries EXCEPT ![c] = 1]
          /\ UNCHANGED redirects
  /\ server' = [server EXCEPT ![c] = s]
  /\ surprises' = [surprises EXCEPT
                     ![c] = IF Stale(c, s, id[c]) < MaxRecoveries THEN Stale(c, s, id[c])
                            ELSE MaxRecoveries]
  /\ UNCHANGED <<gameVars, instance_id, id, jobVars>>

\* The session's server, or the one in the database.
Known(c) == IF server[c] # NoServer THEN server[c] ELSE play_server

Call(c) ==
  /\ pc[c].at = "start"
  /\ Known(c) # NoServer
  /\ FirstRequest(c, Known(c))
  /\ UNCHANGED play_server

AskMaster(c) ==
  /\ pc[c].at = "start"
  /\ Known(c) = NoServer
  /\ Goto(c, [at |-> "resolving"])
  /\ UNCHANGED <<gameVars, dbVars, callVars, jobVars, surprises>>

Resolved(c) ==
  /\ pc[c].at = "resolving"
  /\ \E s \in Servers : FirstRequest(c, s) /\ play_server' = s

-----------------------------------------------------------------------------
(* The game server                                                         *)

Redirect(c) ==
  /\ server[c] # home[Account(c)]
  /\ \/ pc[c].at = "sent" /\ Goto(c, [at |-> "redirected", to |-> home[Account(c)]])
     \/ /\ pc[c].at = "refreshing"
        /\ Goto(c, [at |-> "detailsRedirected", to |-> home[Account(c)]])
  /\ UNCHANGED <<gameVars, dbVars, callVars, jobVars, surprises>>

Outdate(c) ==
  /\ pc[c].at = "sent"
  /\ server[c] = home[Account(c)]
  /\ NeedsId(c)
  /\ id[c] # current[Account(c)]
  /\ Goto(c, [at |-> "outdated"])
  /\ UNCHANGED <<gameVars, dbVars, callVars, jobVars, surprises>>

Execute(c) ==
  /\ pc[c].at = "sent"
  /\ server[c] = home[Account(c)]
  /\ NeedsId(c) => id[c] = current[Account(c)]
  /\ spent' = [spent EXCEPT ![c] = @ + Batch(c)]
  /\ Goto(c, [at |-> "executed"])
  /\ UNCHANGED <<gameVars, dbVars, callVars, job, bought, surprises>>

GiveDetails(c) ==
  /\ pc[c].at = "refreshing"
  /\ server[c] = home[Account(c)]
  /\ Goto(c, [at |-> "detailed", id |-> current[Account(c)]])
  /\ UNCHANGED <<gameVars, dbVars, callVars, jobVars, surprises>>

-----------------------------------------------------------------------------
(* The session                                                             *)

NextTry(c) ==
  IF Again(tries[c])
  THEN Goto(c, [at |-> "sent"]) /\ tries' = [tries EXCEPT ![c] = @ + 1]
  ELSE Goto(c, [at |-> "gaveUp"]) /\ UNCHANGED tries

SetServer(c, s) ==
  /\ server' = [server EXCEPT ![c] = s]
  /\ play_server' = s

\* A bug: a redirect does not count as a try.
RedirectedUncounted(c) ==
  /\ pc[c].at = "redirected"
  /\ SetServer(c, pc[c].to)
  /\ Goto(c, [at |-> "sent"])
  /\ UNCHANGED <<gameVars, instance_id, id, tries, redirects, jobVars, surprises>>

Redirected(c) ==
  /\ pc[c].at = "redirected"
  /\ SetServer(c, pc[c].to)
  /\ NextTry(c)
  /\ UNCHANGED <<gameVars, instance_id, id, redirects, jobVars, surprises>>

Refresh(c) ==
  /\ pc[c].at = "outdated"
  /\ Goto(c, [at |-> "refreshing"])
  /\ redirects' = [redirects EXCEPT ![c] = 1]
  /\ UNCHANGED <<gameVars, dbVars, server, id, tries, jobVars, surprises>>

DetailsRedirected(c) ==
  /\ pc[c].at = "detailsRedirected"
  /\ SetServer(c, pc[c].to)
  /\ IF Again(redirects[c])
     THEN /\ Goto(c, [at |-> "refreshing"])
          /\ redirects' = [redirects EXCEPT ![c] = @ + 1]
     ELSE Goto(c, [at |-> "gaveUp"]) /\ UNCHANGED redirects
  /\ UNCHANGED <<gameVars, instance_id, id, tries, jobVars, surprises>>

\* A bug: the new id is stored, but not in the account object in use.
DetailedStale(c) ==
  /\ pc[c].at = "detailed"
  /\ instance_id' = [instance_id EXCEPT ![Account(c)] = pc[c].id]
  /\ IF job[c].kind = "details"
     THEN Goto(c, [at |-> "done"]) /\ UNCHANGED tries
     ELSE NextTry(c)
  /\ UNCHANGED <<gameVars, play_server, server, id, redirects, jobVars, surprises>>

\* The new id is stored.  fetch_inventory asks for the details once more, and
\* takes any answer but those for a failure.
Detailed(c) ==
  /\ pc[c].at = "detailed"
  /\ id' = [id EXCEPT ![c] = pc[c].id]
  /\ instance_id' = [instance_id EXCEPT ![Account(c)] = pc[c].id]
  /\ IF job[c].kind = "details"
     THEN /\ \E outcome \in {"done", "failed"} : Goto(c, [at |-> outcome])
          /\ UNCHANGED tries
     ELSE NextTry(c)
  /\ UNCHANGED <<gameVars, play_server, server, redirects, jobVars, surprises>>

\* A bug: every batch is counted as a full one.
ReturnFull(c) ==
  /\ pc[c].at = "executed"
  /\ bought' = [bought EXCEPT ![c] = @ + Cap]
  /\ Goto(c, [at |-> IF bought'[c] >= job[c].asked THEN "done" ELSE "start"])
  /\ UNCHANGED <<gameVars, dbVars, callVars, job, spent, surprises>>

Return(c) ==
  /\ pc[c].at = "executed"
  /\ bought' = [bought EXCEPT ![c] = @ + Batch(c)]
  /\ Goto(c, [at |-> IF bought'[c] = job[c].asked THEN "done" ELSE "start"])
  /\ UNCHANGED <<gameVars, dbVars, callVars, job, spent, surprises>>

\* A bug: a request without an answer is sent again, like a redirected one.
FailRetried(c) ==
  /\ pc[c].at \in {"sent", "executed"}
  /\ NextTry(c)
  /\ UNCHANGED <<gameVars, dbVars, server, id, redirects, jobVars, surprises>>

\* A request that gets no usable answer, or is refused, ends the job.  It may
\* have been executed.
Fail(c) ==
  /\ pc[c].at \in {"resolving", "sent", "executed", "refreshing"}
  /\ Goto(c, [at |-> "failed"])
  /\ UNCHANGED <<gameVars, dbVars, callVars, jobVars, surprises>>

Crash(c) ==
  /\ pc[c].at \notin AtRest
  /\ Goto(c, [at |-> "idle"])
  /\ server' = [server EXCEPT ![c] = NoServer]
  /\ UNCHANGED <<gameVars, dbVars, id, tries, redirects, jobVars, surprises>>

-----------------------------------------------------------------------------
(* What happens to an account elsewhere                                    *)

InCall(c) == pc[c].at \notin AtRest \union {"start", "resolving"}

\* The calls in C meet something new.
Surprised(C) ==
  surprises' = [c \in Clients |->
                  IF c \in C /\ InCall(c) /\ surprises[c] < MaxRecoveries
                  THEN surprises[c] + 1 ELSE surprises[c]]

Move(a) ==
  /\ \E s \in Servers \ {home[a]} : home' = [home EXCEPT ![a] = s]
  /\ Surprised({c \in Clients : Account(c) = a})
  /\ UNCHANGED <<current, dbVars, pc, callVars, jobVars>>

\* Somebody plays the game.
Renew(a) ==
  /\ current[a] <= MaxRenewals
  /\ current' = [current EXCEPT ![a] = @ + 1]
  /\ Surprised({c \in Clients : Account(c) = a /\ NeedsId(c)})
  /\ UNCHANGED <<home, dbVars, pc, callVars, jobVars>>

Step(c) ==
  \/ Call(c) \/ AskMaster(c) \/ Resolved(c)
  \/ Redirect(c) \/ Outdate(c) \/ Execute(c) \/ GiveDetails(c)
  \/ Redirected(c) \/ Refresh(c) \/ DetailsRedirected(c) \/ Detailed(c)
  \/ Return(c) \/ Fail(c)

Next ==
  \/ \E c \in Clients : Begin(c) \/ Step(c) \/ Crash(c)
  \/ \E a \in Accounts : Move(a) \/ Renew(a)

Spec == Init /\ [][Next]_vars

\* Every request ends by an answer or by timeout.
FairSpec == Spec /\ \A c \in Clients : WF_vars(Step(c))

-----------------------------------------------------------------------------
(* Properties                                                              *)

\* Nothing is spent twice, whatever is sent again, and never more than was
\* asked for; what is reported as done was done; and when a job stops in the
\* middle, no more than one batch is in doubt (session.py: an operation may be
\* called more than once).
SpentAsAsked ==
  \A c \in Clients :
    /\ bought[c] <= spent[c] /\ spent[c] <= job[c].asked
    /\ spent[c] - bought[c] <= Cap
    /\ pc[c].at = "done" => bought[c] = job[c].asked
    /\ pc[c].at \in {"done", "start", "sent", "gaveUp"} => spent[c] = bought[c]

\* session.py: "Two plus the original call covers 'switched server, then needed
\* a fresh instance id'".  A call that gives up has met MaxRecoveries facts it
\* could not know, those that were out of date from the start included.
GivesUpForGoodReason ==
  \A c \in Clients : pc[c].at = "gaveUp" => surprises[c] = MaxRecoveries

\* To its callers a client is one errand after the other, whatever goes on in a
\* call: each batch is made once or not at all, and none is tried before the
\* outcome of the last one is known (chests.py, redeemer.py).
Stage == [c \in Clients |-> IF pc[c].at \in AtRest THEN pc[c].at ELSE "busy"]
Asked == [c \in Clients |-> job[c].asked]

Caller == INSTANCE Errand WITH
            EClients <- Clients, EMax <- MaxCount, ECap <- Cap,
            stage <- Stage, asked <- Asked, made <- spent, known <- bought

ImplementsErrand == Caller!ESpec

\* A job is a number of requests known when it starts, whatever the servers
\* answer: each step ends it, gets a batch done, begins the call, or uses up a
\* try of the call or of the refresh, or a part of one (session.py: "More than
\* that means something is wrong").
Phase(c) == CASE pc[c].at = "start" -> 2 [] pc[c].at = "resolving" -> 1 [] OTHER -> 0
Leg(c) ==
  CASE pc[c].at = "sent" -> 2
    [] pc[c].at \in {"redirected", "outdated", "executed"} -> 1
    [] OTHER -> 0
Half(c) == IF pc[c].at = "refreshing" THEN 1 ELSE 0
Rank(c) == <<job[c].asked - bought[c], Phase(c), MaxRecoveries - tries[c], Leg(c),
             MaxRecoveries - redirects[c], Half(c)>>
Below(r, s) == \E i \in 1 .. 6 : r[i] < s[i] /\ \A j \in 1 .. (i - 1) : r[j] = s[j]
JobAdvances ==
  [][\A c \in Clients :
       pc[c].at \notin AtRest
       => \/ pc'[c].at \in AtRest
          \/ Below(Rank(c)', Rank(c))
          \/ UNCHANGED <<pc[c], job[c], bought[c], tries[c], redirects[c]>>]_vars

\* A job ends, even if the servers go on redirecting for ever: the lock the
\* service holds meanwhile is given back.
JobsEnd == \A c \in Clients : pc[c].at \notin AtRest ~> pc[c].at \in AtRest
=============================================================================
