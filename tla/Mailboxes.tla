------------------------------ MODULE Mailboxes ------------------------------
(***************************************************************************)
(* The mailboxes of the email source and their tokens: the rows of table   *)
(* mailboxes and the saved positions (repo.py), the poll that reads every  *)
(* enabled mailbox (email_inbox.py), the device code flow (oauth.py) and   *)
(* the `icr mailbox` commands (cli.py).                                    *)
(*                                                                         *)
(* Clients are the service, which polls one mailbox after the other, and   *)
(* commands in processes of their own.  A client reads the rows it needs   *)
(* once, secrets included, and writes by row id after the awaits.          *)
(*                                                                         *)
(* A refresh token is a number, in the order Microsoft issues them.        *)
(* Trading one for access may issue a successor, the old one then stays    *)
(* valid for a while.                                                      *)
(***************************************************************************)
EXTENDS Integers, FiniteSets

CONSTANTS
  Names,          \* the mail accounts there are, by the name of their mailbox
  Microsoft,      \* those that sign in with a token
  MaxId,          \* bound: row ids
  Service,
  Clients,
  Password, None,
  MaxToken,       \* bound: tokens issued
  Deadline,       \* prompt.expires_in
  Interval,       \* max(prompt.interval, 1)
  SlowDown,       \* what slow_down adds to it
  MaxDemands,     \* bound: commands
  MaxMishaps      \* bound: crashes and lost answers

Ids == 1 .. MaxId
Tokens == 1 .. MaxToken
Secrets == Tokens \union {Password, None}

Rows == [name : Names, secret : Secrets, enabled : BOOLEAN]
NoRow == [name |-> None]

\* The Mailbox object a client works with.
Mailbox == [id : Ids, name : Names, secret : Secrets]

ASSUME MailboxesAssumption ==
  /\ Microsoft \subseteq Names
  /\ MaxId \in Nat /\ MaxToken \in Nat /\ MaxId <= MaxToken
  /\ Service \in Clients
  /\ Password \notin Nat
  /\ None \notin Nat \union {Password} \union Names \union (Nat \X Names)
            \union Mailbox
  /\ Deadline \in Nat /\ Interval \in Nat \ {0} /\ SlowDown \in Nat
  /\ MaxDemands \in Nat /\ MaxMishaps \in Nat

VARIABLES
  mailboxes,      \* [Ids -> Rows \union {NoRow}]
  cursor,         \* [Ids -> whose mail the position saved under this id counts]
  issued,         \* the newest token
  origin,         \* [Tokens -> the row id and the account it was issued for]
  accepted,       \* tokens Microsoft still takes
  traded,         \* history: tokens that have a successor
  lost,           \* history: tokens one of whose successors never arrived, or
                  \* went with the process that had it
  used, reused,   \* history: row ids given out, and given out again
  pc,             \* where each client is
  job,            \* [Clients -> "poll", "test", "authorize" or "none"]
  todo,           \* [Clients -> mailboxes its poll has not come to yet]
  box,            \* [Clients -> the mailbox at hand]
  got,            \* [Clients -> a token received and not stored yet]
  waited, pace,   \* [Clients -> waited and interval of poll_device_code]
  demands, mishaps

serverVars == <<issued, origin, accepted, traded>>
histVars == <<lost, used, reused>>
clientVars == <<pc, job, todo, box, got, waited, pace>>
boundVars == <<demands, mishaps>>
vars == <<mailboxes, cursor, serverVars, histVars, clientVars, boundVars>>

Exists(i) == mailboxes[i] # NoRow

TypeOK ==
  /\ mailboxes \in [Ids -> Rows \union {NoRow}]
  /\ cursor \in [Ids -> Names \union {None}]
  /\ issued \in 0 .. MaxToken
  /\ origin \in [Tokens -> (Ids \X Names) \union {None}]
  /\ accepted \in SUBSET Tokens
  /\ traded \in SUBSET Tokens
  /\ lost \in SUBSET Tokens
  /\ used \in SUBSET Ids
  /\ reused \in SUBSET Ids
  /\ pc \in [Clients -> {"idle", "polling", "resolving", "received", "scanning",
                         "signing", "asking"}]
  /\ job \in [Clients -> {"none", "poll", "test", "authorize"}]
  /\ todo \in [Clients -> SUBSET Mailbox]
  /\ box \in [Clients -> Mailbox \union {None}]
  /\ got \in [Clients -> Tokens \union {None}]
  /\ waited \in [Clients -> Nat]
  /\ pace \in [Clients -> Nat \ {0}]
  /\ demands \in 0 .. MaxDemands
  /\ mishaps \in 0 .. MaxMishaps
  /\ \A i, j \in Ids :
       Exists(i) /\ Exists(j) /\ mailboxes[i].name = mailboxes[j].name => i = j

\* An installation with some of the mailboxes, each polled before; row i has
\* token i if it needs one.
Init ==
  /\ mailboxes \in [Ids -> [name : Names, secret : Secrets, enabled : {TRUE}] \union {NoRow}]
  /\ \A i \in Ids :
       Exists(i) => /\ i \in Tokens
                    /\ mailboxes[i].secret = IF mailboxes[i].name \in Microsoft
                                              THEN i ELSE Password
                    /\ \A j \in Ids : mailboxes[j].name = mailboxes[i].name => i = j
  /\ cursor = [i \in Ids |-> mailboxes[i].name]
  /\ issued = MaxId
  /\ origin = [t \in Tokens |-> IF t \in Ids /\ Exists(t) THEN <<t, mailboxes[t].name>>
                                                         ELSE None]
  /\ accepted = {t \in Tokens : t \in Ids /\ Exists(t)}
  /\ traded = {}
  /\ lost = {}
  /\ used = {i \in Ids : Exists(i)}
  /\ reused = {}
  /\ pc = [c \in Clients |-> "idle"]
  /\ job = [c \in Clients |-> "none"]
  /\ todo = [c \in Clients |-> {}]
  /\ box = [c \in Clients |-> None]
  /\ got = [c \in Clients |-> None]
  /\ waited = [c \in Clients |-> 0]
  /\ pace = [c \in Clients |-> Interval]
  /\ demands = 0
  /\ mishaps = 0

-----------------------------------------------------------------------------
(* Commands and polls begin                                                *)

Goto(c, l) == pc' = [pc EXCEPT ![c] = l]

\* Only the service acts without being asked to.
Demand == demands < MaxDemands /\ demands' = demands + 1

Mishap == mishaps < MaxMishaps /\ mishaps' = mishaps + 1

Loaded(i) == [id |-> i, name |-> mailboxes[i].name, secret |-> mailboxes[i].secret]

EnabledIds == {i \in Ids : Exists(i) /\ mailboxes[i].enabled}

\* EmailSource.poll lists the enabled mailboxes; with none it ends at once.
StartPoll(c) ==
  /\ pc[c] = "idle"
  /\ IF c = Service THEN UNCHANGED demands ELSE Demand
  /\ todo' = [todo EXCEPT ![c] = {Loaded(i) : i \in EnabledIds}]
  /\ job' = [job EXCEPT ![c] = "poll"]
  /\ Goto(c, "polling")
  /\ UNCHANGED <<mailboxes, cursor, serverVars, histVars, box, got, waited, pace, mishaps>>

\* `icr mailbox test`.
StartTest(c) ==
  /\ pc[c] = "idle"
  /\ c # Service
  /\ Demand
  /\ \E i \in Ids : Exists(i) /\ box' = [box EXCEPT ![c] = Loaded(i)]
  /\ job' = [job EXCEPT ![c] = "test"]
  /\ Goto(c, "resolving")
  /\ UNCHANGED <<mailboxes, cursor, serverVars, histVars, todo, got, waited, pace, mishaps>>

\* `icr mailbox authorize`, after begin_device_code has shown its prompt.
StartAuthorize(c) ==
  /\ pc[c] = "idle"
  /\ c # Service
  /\ Demand
  /\ \E i \in Ids : /\ Exists(i)
                    /\ mailboxes[i].name \in Microsoft
                    /\ box' = [box EXCEPT ![c] = Loaded(i)]
  /\ job' = [job EXCEPT ![c] = "authorize"]
  /\ Goto(c, "signing")
  /\ UNCHANGED <<mailboxes, cursor, serverVars, histVars, todo, got, waited, pace, mishaps>>

\* The client is through with the mailbox at hand: a poll goes to the next.
Leave(c) ==
  /\ box' = [box EXCEPT ![c] = None]
  /\ got' = [got EXCEPT ![c] = None]
  /\ job' = [job EXCEPT ![c] = IF @ = "poll" THEN @ ELSE "none"]
  /\ waited' = [waited EXCEPT ![c] = 0]
  /\ pace' = [pace EXCEPT ![c] = Interval]
  /\ Goto(c, IF job[c] = "poll" THEN "polling" ELSE "idle")

NextMailbox(c) ==
  /\ pc[c] = "polling"
  /\ \E m \in todo[c] :
       /\ box' = [box EXCEPT ![c] = m]
       /\ todo' = [todo EXCEPT ![c] = @ \ {m}]
  /\ Goto(c, "resolving")
  /\ UNCHANGED <<mailboxes, cursor, serverVars, histVars, job, got, waited, pace, boundVars>>

EndPoll(c) ==
  /\ pc[c] = "polling"
  /\ todo[c] = {}
  /\ job' = [job EXCEPT ![c] = "none"]
  /\ Goto(c, "idle")
  /\ UNCHANGED <<mailboxes, cursor, serverVars, histVars, todo, box, got, waited, pace,
                 boundVars>>

-----------------------------------------------------------------------------
(* resolve_credentials                                                     *)

UsePassword(c) ==
  /\ pc[c] = "resolving"
  /\ box[c].secret = Password
  /\ Goto(c, "scanning")
  /\ UNCHANGED <<mailboxes, cursor, serverVars, histVars, job, todo, box, got, waited, pace,
                 boundVars>>

\* Microsoft issues the next token, for the account a signed in.
Issue(c, a) ==
  /\ issued < MaxToken
  /\ issued' = issued + 1
  /\ origin' = [origin EXCEPT ![issued + 1] = <<box[c].id, a>>]
  /\ accepted' = accepted \union {issued + 1}

\* exchange_refresh_token, with and without a new token in the answer.
Trade(c) ==
  /\ pc[c] = "resolving"
  /\ box[c].secret \in accepted
  /\ \/ /\ Issue(c, box[c].name)
        /\ traded' = traded \union {box[c].secret}
        /\ got' = [got EXCEPT ![c] = issued + 1]
        /\ Goto(c, "received")
     \/ /\ Goto(c, "scanning")
        /\ UNCHANGED <<serverVars, got>>
  /\ UNCHANGED <<mailboxes, cursor, histVars, job, todo, box, waited, pace, boundVars>>

\* A bug: one mailbox that fails ends the whole poll.
FailAll(c) ==
  /\ pc[c] \in {"resolving", "scanning"}
  /\ box' = [box EXCEPT ![c] = None]
  /\ todo' = [todo EXCEPT ![c] = {}]
  /\ job' = [job EXCEPT ![c] = "none"]
  /\ Goto(c, "idle")
  /\ UNCHANGED <<mailboxes, cursor, serverVars, histVars, got, waited, pace, boundVars>>

\* No secret, a token no longer accepted, no answer; or the scan fails.
Fail(c) ==
  /\ pc[c] \in {"resolving", "scanning"}
  /\ Leave(c)
  /\ UNCHANGED <<mailboxes, cursor, serverVars, histVars, todo, boundVars>>

\* The token was traded, but the answer does not arrive.
LoseAnswer(c) ==
  /\ pc[c] = "resolving"
  /\ box[c].secret \in accepted
  /\ Mishap
  /\ Issue(c, box[c].name)
  /\ traded' = traded \union {box[c].secret}
  /\ lost' = lost \union {box[c].secret}
  /\ Leave(c)
  /\ UNCHANGED <<mailboxes, cursor, used, reused, todo, demands>>

\* A bug: the new token is kept for this session only.
StoreNothing(c) ==
  /\ pc[c] = "received"
  /\ got' = [got EXCEPT ![c] = None]
  /\ Goto(c, "scanning")
  /\ UNCHANGED <<mailboxes, cursor, serverVars, histVars, job, todo, box, waited, pace,
                 boundVars>>

\* update_mailbox_secret, by row id; a row that is gone takes nothing.
StoreToken(c) ==
  LET i == box[c].id IN
  /\ pc[c] = "received"
  /\ mailboxes' = IF Exists(i) THEN [mailboxes EXCEPT ![i].secret = got[c]] ELSE mailboxes
  /\ IF job[c] = "authorize"
     THEN Leave(c)
     ELSE /\ got' = [got EXCEPT ![c] = None]
          /\ Goto(c, "scanning")
          /\ UNCHANGED <<job, box, waited, pace>>
  /\ UNCHANGED <<cursor, serverVars, histVars, todo, boundVars>>

\* A bug: one position for all mailboxes.
SavedForAll(c) == [i \in Ids |-> box[c].name]

\* kv_set, under the id, whether the row is still there or not.
Saved(c) == [cursor EXCEPT ![box[c].id] = box[c].name]

\* scan_mailbox succeeds; module ImapScan has what it does.  A poll saves the
\* position, a test does not.
Scan(c) ==
  /\ pc[c] = "scanning"
  /\ cursor' = IF job[c] = "poll" THEN Saved(c) ELSE cursor
  /\ Leave(c)
  /\ UNCHANGED <<mailboxes, serverVars, histVars, todo, boundVars>>

-----------------------------------------------------------------------------
(* poll_device_code                                                        *)

\* A bug: one more round at the deadline.
WaitOnce(c) ==
  /\ pc[c] = "signing"
  /\ waited[c] <= Deadline
  /\ waited' = [waited EXCEPT ![c] = @ + pace[c]]
  /\ Goto(c, "asking")
  /\ UNCHANGED <<mailboxes, cursor, serverVars, histVars, job, todo, box, got, pace, boundVars>>

\* A bug: the sleep is not counted.
WaitUncounted(c) ==
  /\ pc[c] = "signing"
  /\ waited[c] < Deadline
  /\ Goto(c, "asking")
  /\ UNCHANGED <<mailboxes, cursor, serverVars, histVars, job, todo, box, got, waited, pace,
                 boundVars>>

Wait(c) ==
  /\ pc[c] = "signing"
  /\ waited[c] < Deadline
  /\ waited' = [waited EXCEPT ![c] = @ + pace[c]]
  /\ Goto(c, "asking")
  /\ UNCHANGED <<mailboxes, cursor, serverVars, histVars, job, todo, box, got, pace, boundVars>>

\* authorization_pending, slow_down
NotYet(c) ==
  /\ pc[c] = "asking"
  /\ \/ UNCHANGED pace
     \/ pace' = [pace EXCEPT ![c] = @ + SlowDown]
  /\ Goto(c, "signing")
  /\ UNCHANGED <<mailboxes, cursor, serverVars, histVars, job, todo, box, got, waited, boundVars>>

Approved(c) ==
  /\ pc[c] = "asking"
  /\ Issue(c, box[c].name)
  /\ got' = [got EXCEPT ![c] = issued + 1]
  /\ Goto(c, "received")
  /\ UNCHANGED <<mailboxes, cursor, traded, histVars, job, todo, box, waited, pace, boundVars>>

\* The deadline, or an answer that ends the wait: declined, expired, an error,
\* an approval without refresh token.
GiveUp(c) ==
  /\ \/ pc[c] = "signing" /\ waited[c] >= Deadline
     \/ pc[c] = "asking"
  /\ Leave(c)
  /\ UNCHANGED <<mailboxes, cursor, serverVars, histVars, todo, boundVars>>

-----------------------------------------------------------------------------
(* Everything else                                                         *)

\* SQLite: INTEGER PRIMARY KEY takes one more than the largest id there is.
IsNewId(i) == /\ \A j \in Ids : Exists(j) => j < i
              /\ i = 1 \/ \E j \in Ids : Exists(j) /\ j + 1 = i

\* A bug: the name is not unique.
AddAgain(n) ==
  /\ Demand
  /\ \E i \in Ids :
       /\ IsNewId(i)
       /\ mailboxes' = [mailboxes EXCEPT
                          ![i] = [name |-> n, enabled |-> TRUE,
                                  secret |-> IF n \in Microsoft THEN None ELSE Password]]
       /\ used' = used \union {i}
       /\ reused' = IF i \in used THEN reused \union {i} ELSE reused
  /\ UNCHANGED <<cursor, serverVars, lost, clientVars, mishaps>>

\* `icr mailbox add`
Add(n) ==
  /\ Demand
  /\ \A i \in Ids : mailboxes[i].name # n
  /\ \E i \in Ids :
       /\ IsNewId(i)
       /\ mailboxes' = [mailboxes EXCEPT
                          ![i] = [name |-> n, enabled |-> TRUE,
                                  secret |-> IF n \in Microsoft THEN None ELSE Password]]
       /\ used' = used \union {i}
       /\ reused' = IF i \in used THEN reused \union {i} ELSE reused
  /\ UNCHANGED <<cursor, serverVars, lost, clientVars, mishaps>>

\* `icr mailbox remove`, or the account it belongs to is removed: the row goes,
\* its position stays.
Remove(i) ==
  /\ Demand
  /\ Exists(i)
  /\ mailboxes' = [mailboxes EXCEPT ![i] = NoRow]
  /\ UNCHANGED <<cursor, serverVars, histVars, clientVars, mishaps>>

SetEnabled(i, b) ==
  /\ Demand
  /\ Exists(i)
  /\ mailboxes' = [mailboxes EXCEPT ![i].enabled = b]
  /\ UNCHANGED <<cursor, serverVars, histVars, clientVars, mishaps>>

\* `icr source reset email`
Reset ==
  /\ Demand
  /\ cursor' = [i \in Ids |-> None]
  /\ UNCHANGED <<mailboxes, serverVars, histVars, clientVars, mishaps>>

Crash(c) ==
  /\ Mishap
  /\ pc[c] # "idle"
  /\ lost' = IF pc[c] = "received" /\ box[c].secret \in Tokens
             THEN lost \union {box[c].secret} ELSE lost
  /\ Goto(c, "idle")
  /\ job' = [job EXCEPT ![c] = "none"]
  /\ todo' = [todo EXCEPT ![c] = {}]
  /\ box' = [box EXCEPT ![c] = None]
  /\ got' = [got EXCEPT ![c] = None]
  /\ waited' = [waited EXCEPT ![c] = 0]
  /\ pace' = [pace EXCEPT ![c] = Interval]
  /\ UNCHANGED <<mailboxes, cursor, serverVars, used, reused, demands>>

\* Microsoft stops taking a token that has a successor.
Invalidate(t) ==
  /\ t \in accepted \intersect traded
  /\ accepted' = accepted \ {t}
  /\ UNCHANGED <<mailboxes, cursor, issued, origin, traded, histVars, clientVars, boundVars>>

ClientStep(c) ==
  \/ NextMailbox(c) \/ EndPoll(c)
  \/ UsePassword(c) \/ Trade(c) \/ Fail(c) \/ StoreToken(c) \/ Scan(c)
  \/ Wait(c) \/ NotYet(c) \/ Approved(c) \/ GiveUp(c)

Next ==
  \/ \E c \in Clients : \/ StartPoll(c) \/ StartTest(c) \/ StartAuthorize(c)
                        \/ ClientStep(c) \/ LoseAnswer(c) \/ Crash(c)
  \/ \E n \in Names : Add(n)
  \/ \E i \in Ids : Remove(i) \/ \E b \in BOOLEAN : SetEnabled(i, b)
  \/ \E t \in Tokens : Invalidate(t)
  \/ Reset

Spec == Init /\ [][Next]_vars

\* The service polls again and again; sleeps and requests end.
Fairness ==
  /\ WF_vars(StartPoll(Service))
  /\ \A c \in Clients : WF_vars(ClientStep(c))

FairSpec == Spec /\ Fairness

-----------------------------------------------------------------------------
(* Properties                                                              *)

InHands(i, t) == \E c \in Clients : /\ pc[c] = "received"
                                    /\ job[c] # "authorize"
                                    /\ box[c].id = i
                                    /\ box[c].secret = t

\* "Dropping the new one works until the old one is invalidated, and then the
\* mailbox dies for no visible reason" (resolve_credentials).  The token on file
\* is one Microsoft takes, although polls, tests and authorizations of several
\* processes overlap and write over each other; or its successor is about to be
\* written, or was lost on the way.
TokenSurvives ==
  \A i \in Ids :
    LET t == mailboxes[i].secret IN
    Exists(i) /\ t \in Tokens => t \in accepted \/ InHands(i, t) \/ t \in lost

\* A mailbox has its own token and its own position, whatever becomes of the
\* others.  Ids given out again are left out: a position outlives its mailbox
\* (remove_mailbox), and a client may still write to the id what it got for the
\* mailbox before.
OwnState ==
  \A i \in Ids \ reused :
    Exists(i) => /\ cursor[i] \in {None, mailboxes[i].name}
                 /\ mailboxes[i].secret \in Tokens =>
                      origin[mailboxes[i].secret] = <<i, mailboxes[i].name>>

\* The wait for approval asks for the last time less than one interval after
\* the deadline, however often the server slows it down.
WaitBounded ==
  \A c \in Clients : pc[c] = "asking" => waited[c] < Deadline + pace[c]

\* `icr mailbox authorize` comes to an end although nobody ever approves.
AuthorizeEnds ==
  \A c \in Clients : pc[c] \in {"signing", "asking"} ~> pc[c] = "idle"

\* Every enabled mailbox has its turn again and again, whichever others fail at
\* every poll.
AllTried ==
  \A n \in Names :
    []<>(\/ \A i \in EnabledIds : mailboxes[i].name # n
         \/ pc[Service] = "resolving" /\ box[Service].name = n)
=============================================================================
