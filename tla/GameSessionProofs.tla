-------------------------- MODULE GameSessionProofs --------------------------
(***************************************************************************)
(* Proofs about GameSession, for any clients, accounts, servers, numbers   *)
(* of tries and batch sizes.                                               *)
(***************************************************************************)
EXTENDS GameSession, TLAPS

OneClient(c) == Begin(c) \/ Step(c) \/ Crash(c)

\* What a client has spent, at every point of a job.  A "details" job spends
\* nothing, and any other has something left until it is done.
TallyAt(at, j, b, s, batch) ==
  /\ b <= s /\ s <= j.asked
  /\ s - b <= Cap
  /\ at = "done" => b = j.asked
  /\ at = "executed" => s = b + batch
  /\ at \notin {"executed", "failed", "idle"} => s = b
  /\ at \in {"sent", "redirected", "outdated", "executed"} => j.kind # "details"
  /\ at \notin AtRest /\ j.kind # "details" => b < j.asked

TallyOf(c) == TallyAt(pc[c].at, job[c], bought[c], spent[c], Batch(c))

Tally == \A c \in Clients : TallyOf(c)

\* 1 for a fact that is out of date.
ServerStale(c, s) == IF s = home[Account(c)] THEN 0 ELSE 1
IdStale(c, i) == IF NeedsId(c) /\ i # current[Account(c)] THEN 1 ELSE 0

\* n of the surprises are needed to explain what went wrong so far.
Explained(c, n) == surprises[c] = MaxRecoveries \/ n <= surprises[c]

\* A call never fails, or is about to fail, more often than it was surprised.
ReasonOf(c) ==
  /\ pc[c].at \in {"start", "resolving"} /\ job[c].kind = "details" => tries[c] = 0
  /\ pc[c].at = "sent" =>
       Explained(c, tries[c] - 1 + ServerStale(c, server[c]) + IdStale(c, id[c]))
  /\ pc[c].at = "redirected" =>
       Explained(c, tries[c] + ServerStale(c, pc[c].to) + IdStale(c, id[c]))
  /\ pc[c].at = "outdated" => Explained(c, tries[c] + ServerStale(c, server[c]))
  /\ pc[c].at = "refreshing" =>
       /\ redirects[c] >= 1
       /\ Explained(c, tries[c] + redirects[c] - 1 + ServerStale(c, server[c]))
  /\ pc[c].at = "detailsRedirected" =>
       /\ redirects[c] >= 1
       /\ Explained(c, tries[c] + redirects[c] + ServerStale(c, pc[c].to))
  /\ pc[c].at = "detailed" =>
       /\ redirects[c] >= 1
       /\ Explained(c, tries[c] + redirects[c] - 1
                         + ServerStale(c, server[c]) + IdStale(c, pc[c].id))
  /\ pc[c].at = "gaveUp" => surprises[c] = MaxRecoveries

Reason == \A c \in Clients : ReasonOf(c)

-----------------------------------------------------------------------------
(* Type correctness                                                        *)

\* An answer that is on its way brings a server or an id.
LEMMA PCForms ==
  ASSUME NEW q \in PCs
  PROVE  /\ q.at \in AtRest \union {"start", "resolving", "sent", "outdated", "executed",
                       "refreshing", "redirected", "detailsRedirected", "detailed"}
         /\ q.at \in {"redirected", "detailsRedirected"} => q.to \in Servers
         /\ q.at = "detailed" => q.id \in Nat
BY DEF PCs, AtRest

\* A job has an account and asks for some chests, or none.
LEMMA JobForms ==
  ASSUME NEW j \in Jobs
  PROVE  /\ j.account \in Accounts
         /\ j.asked \in Nat
         /\ j.kind \in {"open", "buy", "details"}
         /\ j.kind = "details" <=> j.asked = 0
BY GameAssumption DEF Jobs

\* A batch is a number no larger than the cap, and than what is left.
LEMMA BatchType ==
  ASSUME TypeOK, NEW c \in Clients, bought[c] <= job[c].asked
  PROVE  /\ Batch(c) \in Nat
         /\ Batch(c) <= Cap
         /\ bought[c] + Batch(c) <= job[c].asked
         /\ bought[c] < job[c].asked => Batch(c) >= 1
<1>1. bought[c] \in Nat /\ job[c].asked \in Nat /\ Cap \in Nat \ {0}
  BY JobForms, GameAssumption DEF TypeOK
<1>2. QED
  BY <1>1 DEF Batch

\* There are at most two things to be surprised at.
LEMMA StaleType ==
  ASSUME NEW c, NEW s, NEW i
  PROVE  /\ Stale(c, s, i) = ServerStale(c, s) + IdStale(c, i)
         /\ ServerStale(c, s) \in {0, 1}
         /\ IdStale(c, i) \in {0, 1}
BY DEF Stale, ServerStale, IdStale

\* Where a client may go next.
LEMMA GotoType ==
  ASSUME TypeOK, NEW c \in Clients, NEW where, Goto(c, where),
         \/ \E at \in {"start", "resolving", "sent", "outdated", "executed", "refreshing"}
                        \union AtRest : where = [at |-> at]
         \/ \E s \in Servers : \/ where = [at |-> "redirected", to |-> s]
                               \/ where = [at |-> "detailsRedirected", to |-> s]
         \/ \E i \in Nat : where = [at |-> "detailed", id |-> i]
  PROVE  /\ pc' \in [Clients -> PCs]
         /\ pc'[c] = where
         /\ \A d \in Clients \ {c} : pc'[d] = pc[d]
<1>1. \A at \in {"start", "resolving", "sent", "outdated", "executed", "refreshing"}
               \union AtRest : [at |-> at] \in PCs
  BY DEF PCs
<1>2. /\ \A s \in Servers : /\ [at |-> "redirected", to |-> s] \in PCs
                            /\ [at |-> "detailsRedirected", to |-> s] \in PCs
      /\ \A i \in Nat : [at |-> "detailed", id |-> i] \in PCs
  BY DEF PCs
<1>3. where \in PCs
  BY <1>1, <1>2
<1>4. QED
  BY <1>3 DEF Goto, TypeOK

\* Every step keeps the types.
LEMMA TypeStep ==
  ASSUME TypeOK, Tally, [Next]_vars
  PROVE  TypeOK'
<1> USE GameAssumption DEF TypeOK, gameVars, dbVars, callVars, jobVars
<1>1. ASSUME NEW c \in Clients, Begin(c)
      PROVE  TypeOK'
  <2>1. pc' \in [Clients -> PCs]
    BY <1>1, GotoType DEF Begin
  <2>2. PICK j \in Jobs : /\ job' = [job EXCEPT ![c] = j]
                          /\ NewSession(c, j) \/ SameSession(c, j)
    BY <1>1 DEF Begin
  <2>3. j.account \in Accounts /\ instance_id[j.account] \in Nat
    BY JobForms
  <2>4. job' \in [Clients -> Jobs]
    BY <2>2
  <2>5. id' \in [Clients -> Nat] /\ server' \in [Clients -> Servers \union {NoServer}]
    <3>1. CASE NewSession(c, j)
      BY <2>3, <3>1 DEF NewSession
    <3>2. CASE SameSession(c, j)
      BY <2>3, <3>2 DEF SameSession
    <3>3. QED
      BY <2>2, <3>1, <3>2
  <2>6. QED
    BY <1>1, <2>1, <2>4, <2>5 DEF Begin
<1>2. ASSUME NEW c \in Clients, NEW s \in Servers, FirstRequest(c, s),
             play_server' \in Servers \union {NoServer}
      PROVE  TypeOK'
  <2>1. Stale(c, s, id[c]) \in Nat
    BY StaleType
  <2>2. pc' \in [Clients -> PCs]
    BY <1>2, GotoType DEF FirstRequest
  <2>3. /\ tries' \in [Clients -> 0 .. MaxRecoveries]
        /\ redirects' \in [Clients -> 0 .. MaxRecoveries]
        /\ surprises' \in [Clients -> 0 .. MaxRecoveries]
    BY <1>2, <2>1 DEF FirstRequest
  <2>4. QED
    BY <1>2, <2>2, <2>3 DEF FirstRequest
<1>3. ASSUME NEW c \in Clients, Call(c) \/ Resolved(c)
      PROVE  TypeOK'
  <2>1. CASE Call(c)
    BY <1>2, <2>1 DEF Call, Known
  <2>2. CASE Resolved(c)
    BY <1>2, <2>2 DEF Resolved
  <2>3. QED
    BY <1>3, <2>1, <2>2
<1>4. ASSUME NEW c \in Clients, AskMaster(c) \/ Outdate(c) \/ Refresh(c) \/ Fail(c) \/ Crash(c)
      PROVE  TypeOK'
  <2>1. pc' \in [Clients -> PCs]
    BY <1>4, GotoType DEF AskMaster, Outdate, Refresh, Fail, Crash, AtRest
  <2>2. QED
    BY <1>4, <2>1 DEF AskMaster, Outdate, Refresh, Fail, Crash
<1>5. ASSUME NEW c \in Clients, Redirect(c) \/ GiveDetails(c)
      PROVE  TypeOK'
  <2>1. home[Account(c)] \in Servers /\ current[Account(c)] \in Nat
    BY JobForms DEF Account
  <2>2. pc' \in [Clients -> PCs]
    BY <1>5, <2>1, GotoType DEF Redirect, GiveDetails
  <2>3. QED
    BY <1>5, <2>2 DEF Redirect, GiveDetails
<1>6. ASSUME NEW c \in Clients, NextTry(c)
      PROVE  pc' \in [Clients -> PCs] /\ tries' \in [Clients -> 0 .. MaxRecoveries]
  <2>1. pc' \in [Clients -> PCs]
    <3>1. CASE Goto(c, [at |-> "sent"])
      BY <3>1, GotoType
    <3>2. CASE Goto(c, [at |-> "gaveUp"])
      BY <3>2, GotoType DEF AtRest
    <3>3. QED
      BY <1>6, <3>1, <3>2 DEF NextTry
  <2>2. \/ UNCHANGED tries
        \/ tries[c] < MaxRecoveries /\ tries' = [tries EXCEPT ![c] = @ + 1]
    BY <1>6, Zenon DEF NextTry, Again
  <2>3. QED
    BY <2>1, <2>2
<1>7. ASSUME NEW c \in Clients, Redirected(c)
      PROVE  TypeOK'
  <2>1. pc[c].to \in Servers
    BY <1>7, PCForms DEF Redirected
  <2>2. QED
    BY <1>6, <1>7, <2>1 DEF Redirected, SetServer
<1>8. ASSUME NEW c \in Clients, DetailsRedirected(c)
      PROVE  TypeOK'
  <2>1. pc[c].to \in Servers
    BY <1>8, PCForms DEF DetailsRedirected
  <2>2. pc' \in [Clients -> PCs]
    <3>1. CASE Goto(c, [at |-> "refreshing"])
      BY <3>1, GotoType
    <3>2. CASE Goto(c, [at |-> "gaveUp"])
      BY <3>2, GotoType DEF AtRest
    <3>3. QED
      BY <1>8, <3>1, <3>2 DEF DetailsRedirected
  <2>3. redirects' \in [Clients -> 0 .. MaxRecoveries]
    <3>1. \/ UNCHANGED redirects
          \/ redirects[c] < MaxRecoveries /\ redirects' = [redirects EXCEPT ![c] = @ + 1]
      BY <1>8, Zenon DEF DetailsRedirected, Again
    <3>2. QED
      BY <3>1
  <2>4. QED
    BY <1>8, <2>1, <2>2, <2>3 DEF DetailsRedirected, SetServer
<1>9. ASSUME NEW c \in Clients, Detailed(c)
      PROVE  TypeOK'
  <2>1. pc[c].id \in Nat
    BY <1>9, PCForms DEF Detailed
  <2>2. CASE job[c].kind = "details"
    <3>1. pc' \in [Clients -> PCs]
      BY <1>9, <2>2, GotoType DEF Detailed, AtRest
    <3>2. QED
      BY <1>9, <2>1, <2>2, <3>1 DEF Detailed
  <2>3. CASE job[c].kind # "details"
    BY <1>6, <1>9, <2>1, <2>3 DEF Detailed
  <2>4. QED
    BY <2>2, <2>3
<1>10. ASSUME NEW c \in Clients, Execute(c) \/ Return(c)
       PROVE  TypeOK'
  <2>1. Batch(c) \in Nat /\ spent[c] \in Nat /\ bought[c] \in Nat
    BY BatchType, JobForms DEF Tally, TallyOf, TallyAt
  <2>2. pc' \in [Clients -> PCs]
    BY <1>10, GotoType DEF Execute, Return, AtRest
  <2>3. bought' \in [Clients -> Nat] /\ spent' \in [Clients -> Nat]
    BY <1>10, <2>1 DEF Execute, Return
  <2>4. QED
    BY <1>10, <2>2, <2>3 DEF Execute, Return
<1>11. ASSUME NEW C, Surprised(C)
       PROVE  surprises' \in [Clients -> 0 .. MaxRecoveries]
  BY <1>11 DEF Surprised
<1>12. ASSUME NEW a \in Accounts, Move(a) \/ Renew(a)
       PROVE  TypeOK'
  BY <1>11, <1>12 DEF Move, Renew
<1>13. CASE UNCHANGED vars
  BY <1>13 DEF vars
<1>14. QED
  BY <1>1, <1>3, <1>4, <1>5, <1>7, <1>8, <1>9, <1>10, <1>12, <1>13 DEF Next, Step

-----------------------------------------------------------------------------
(* One client at a time                                                    *)

\* What a client's own step leaves alone: the game, and every other client.
LEMMA OneClientStep ==
  ASSUME TypeOK, NEW c \in Clients, OneClient(c), NEW d \in Clients, d # c
  PROVE  /\ UNCHANGED gameVars
         /\ pc'[d] = pc[d] /\ job'[d] = job[d]
         /\ server'[d] = server[d] /\ id'[d] = id[d]
         /\ tries'[d] = tries[d] /\ redirects'[d] = redirects[d]
         /\ bought'[d] = bought[d] /\ spent'[d] = spent[d]
         /\ surprises'[d] = surprises[d]
<1> USE DEF gameVars, dbVars, callVars, jobVars, Goto
<1>1. CASE Begin(c) \/ Crash(c)
  BY <1>1 DEF Begin, NewSession, SameSession, Crash, TypeOK
<1>2. ASSUME NEW s, FirstRequest(c, s)
      PROVE  /\ UNCHANGED <<gameVars, id, jobVars>>
             /\ pc'[d] = pc[d] /\ server'[d] = server[d]
             /\ tries'[d] = tries[d] /\ redirects'[d] = redirects[d]
             /\ surprises'[d] = surprises[d]
  BY <1>2 DEF FirstRequest, TypeOK
<1>3. CASE Call(c) \/ Resolved(c)
  BY <1>2, <1>3 DEF Call, Resolved
<1>4. CASE AskMaster(c) \/ Redirect(c) \/ Outdate(c) \/ GiveDetails(c) \/ Refresh(c) \/ Fail(c)
  BY <1>4 DEF AskMaster, Redirect, Outdate, GiveDetails, Refresh, Fail, TypeOK
<1>5. CASE Execute(c) \/ Return(c)
  BY <1>5 DEF Execute, Return, TypeOK
<1>6. ASSUME NextTry(c)
      PROVE  pc'[d] = pc[d] /\ tries'[d] = tries[d]
  BY <1>6 DEF NextTry, TypeOK
<1>7. CASE Redirected(c) \/ DetailsRedirected(c)
  BY <1>6, <1>7 DEF Redirected, DetailsRedirected, SetServer, TypeOK
<1>8. CASE Detailed(c)
  BY <1>6, <1>8 DEF Detailed, TypeOK
<1>9. QED
  BY <1>1, <1>3, <1>4, <1>5, <1>7, <1>8 DEF OneClient, Step

\* Moves and renewals touch no client but for the count of its surprises.
LEMMA GameStep ==
  ASSUME NEW a \in Accounts, Move(a) \/ Renew(a)
  PROVE  UNCHANGED <<pc, job, server, id, tries, redirects, bought, spent>>
BY DEF Move, Renew, callVars, jobVars, dbVars

-----------------------------------------------------------------------------
(* Spending                                                                *)

\* A client's own step keeps its tally: only Execute spends, once per request
\* that arrived, and a request is only sent again when it was not executed.
LEMMA OwnTally ==
  ASSUME TypeOK, NEW c \in Clients, TallyOf(c), OneClient(c)
  PROVE  TallyOf(c)'
<1> DEFINE Fits(at) == TallyAt(at, job[c], bought[c], spent[c], Batch(c))
<1>1. /\ bought[c] \in Nat /\ spent[c] \in Nat /\ Cap \in Nat
      /\ job[c] \in Jobs /\ job[c].asked \in Nat
      /\ job[c].kind = "details" <=> job[c].asked = 0
  BY JobForms, GameAssumption DEF TypeOK
<1>2. Fits(pc[c].at)
  BY DEF TallyOf
<1>3. ASSUME NEW at, Goto(c, [at |-> at]), UNCHANGED jobVars, Fits(at)
      PROVE  TallyOf(c)'
  <2>1. pc'[c].at = at
    BY <1>3 DEF Goto, TypeOK
  <2>2. Batch(c)' = Batch(c)
    BY <1>3 DEF Batch, jobVars
  <2>3. QED
    BY <1>3, <2>1, <2>2 DEF TallyOf, jobVars
<1>4. CASE Begin(c)
  <2>1. PICK j \in Jobs : job' = [job EXCEPT ![c] = j]
    BY <1>4 DEF Begin
  <2>2. job'[c] = j /\ bought'[c] = 0 /\ spent'[c] = 0 /\ pc'[c].at = "start"
    BY <1>4, <2>1 DEF Begin, Goto, TypeOK
  <2>3. j.asked \in Nat /\ (j.kind = "details" <=> j.asked = 0)
    BY JobForms
  <2>4. QED
    BY <1>1, <2>2, <2>3 DEF TallyOf, TallyAt
<1>5. ASSUME NEW s, FirstRequest(c, s), pc[c].at \in {"start", "resolving"}
      PROVE  TallyOf(c)'
  <2>1. UNCHANGED jobVars
    BY <1>5 DEF FirstRequest
  <2>2. CASE job[c].kind = "details" /\ Goto(c, [at |-> "refreshing"])
    <3>1. Fits("refreshing")
      BY <1>1, <1>2, <1>5, <2>2 DEF TallyAt, AtRest
    <3>2. QED
      BY <1>3, <2>1, <2>2, <3>1
  <2>3. CASE job[c].kind # "details" /\ Goto(c, [at |-> "sent"])
    <3>1. Fits("sent")
      BY <1>1, <1>2, <1>5, <2>3 DEF TallyAt, AtRest
    <3>2. QED
      BY <1>3, <2>1, <2>3, <3>1
  <2>4. QED
    BY <1>5, <2>2, <2>3 DEF FirstRequest
<1>6. CASE Call(c) \/ Resolved(c)
  BY <1>5, <1>6 DEF Call, Resolved
<1>7. CASE AskMaster(c)
  <2>1. Fits("resolving")
    BY <1>1, <1>2, <1>7 DEF AskMaster, TallyAt, AtRest
  <2>2. QED
    BY <1>3, <1>7, <2>1 DEF AskMaster
<1>8. CASE Redirect(c) \/ GiveDetails(c)
  <2>1. UNCHANGED jobVars
    BY <1>8 DEF Redirect, GiveDetails
  <2>2. \/ pc[c].at = "sent" /\ pc'[c].at = "redirected"
        \/ pc[c].at = "refreshing" /\ pc'[c].at = "detailsRedirected"
        \/ pc[c].at = "refreshing" /\ pc'[c].at = "detailed"
    <3>1. ASSUME NEW where, Goto(c, where)
          PROVE  pc'[c] = where
      BY <3>1 DEF Goto, TypeOK
    <3>2. CASE Redirect(c) /\ pc[c].at = "sent"
      BY <3>1, <3>2 DEF Redirect
    <3>3. CASE Redirect(c) /\ pc[c].at = "refreshing"
      BY <3>1, <3>3 DEF Redirect
    <3>4. CASE GiveDetails(c)
      BY <3>1, <3>4 DEF GiveDetails
    <3>5. QED
      BY <1>8, <3>2, <3>3, <3>4 DEF Redirect
  <2>3. Batch(c)' = Batch(c)
    BY <2>1 DEF Batch, jobVars
  <2>4. Fits(pc'[c].at)
    BY <1>1, <1>2, <2>2 DEF TallyAt, AtRest
  <2>5. QED
    BY <2>1, <2>3, <2>4 DEF TallyOf, jobVars
<1>9. CASE Outdate(c)
  <2>1. Fits("outdated")
    BY <1>1, <1>2, <1>9 DEF Outdate, TallyAt, AtRest
  <2>2. QED
    BY <1>3, <1>9, <2>1 DEF Outdate
<1>10. CASE Refresh(c)
  <2>1. Fits("refreshing")
    BY <1>1, <1>2, <1>10 DEF Refresh, TallyAt, AtRest
  <2>2. QED
    BY <1>3, <1>10, <2>1 DEF Refresh
<1>11. CASE Fail(c) \/ Crash(c)
  <2>1. Fits("failed") /\ Fits("idle")
    BY <1>1, <1>2 DEF TallyAt, AtRest
  <2>2. QED
    BY <1>3, <1>11, <2>1 DEF Fail, Crash
<1>12. CASE Execute(c)
  <2>1. Batch(c)' = Batch(c)
    BY <1>12 DEF Execute, Batch
  <2>2. /\ UNCHANGED <<job, bought>> /\ spent'[c] = spent[c] + Batch(c)
        /\ pc'[c].at = "executed" /\ pc[c].at = "sent"
    BY <1>12 DEF Execute, Goto, TypeOK
  <2>3. /\ Batch(c) \in Nat /\ Batch(c) <= Cap /\ bought[c] + Batch(c) <= job[c].asked
    BY <1>1, <1>2, BatchType DEF TallyAt
  <2>4. QED
    BY <1>1, <1>2, <2>1, <2>2, <2>3 DEF TallyOf, TallyAt, AtRest
<1>13. CASE Return(c)
  <2>1. /\ UNCHANGED <<job, spent>> /\ bought'[c] = bought[c] + Batch(c)
        /\ pc'[c].at = IF bought'[c] = job[c].asked THEN "done" ELSE "start"
        /\ pc[c].at = "executed"
    BY <1>13 DEF Return, Goto, TypeOK
  <2>2. /\ Batch(c) \in Nat /\ bought[c] + Batch(c) <= job[c].asked
    BY <1>1, <1>2, BatchType DEF TallyAt
  <2>3. QED
    BY <1>1, <1>2, <2>1, <2>2 DEF TallyOf, TallyAt, AtRest
<1>14. ASSUME NextTry(c), UNCHANGED jobVars, Fits("sent"), Fits("gaveUp")
       PROVE  TallyOf(c)'
  BY <1>3, <1>14 DEF NextTry
<1>15. CASE Redirected(c)
  <2>1. Fits("sent") /\ Fits("gaveUp")
    BY <1>1, <1>2, <1>15 DEF Redirected, TallyAt, AtRest
  <2>2. QED
    BY <1>14, <1>15, <2>1 DEF Redirected
<1>16. CASE DetailsRedirected(c)
  <2>1. Fits("refreshing") /\ Fits("gaveUp")
    BY <1>1, <1>2, <1>16 DEF DetailsRedirected, TallyAt, AtRest
  <2>2. QED
    BY <1>3, <1>16, <2>1 DEF DetailsRedirected
<1>17. CASE Detailed(c) /\ job[c].kind = "details"
  <2>1. Fits("done") /\ Fits("failed")
    BY <1>1, <1>2, <1>17 DEF Detailed, TallyAt, AtRest
  <2>2. QED
    BY <1>3, <1>17, <2>1 DEF Detailed
<1>18. CASE Detailed(c) /\ job[c].kind # "details"
  <2>1. Fits("sent") /\ Fits("gaveUp")
    BY <1>1, <1>2, <1>18 DEF Detailed, TallyAt, AtRest
  <2>2. QED
    BY <1>14, <1>18, <2>1 DEF Detailed
<1>19. QED
  BY <1>4, <1>6, <1>7, <1>8, <1>9, <1>10, <1>11, <1>12, <1>13, <1>15, <1>16, <1>17, <1>18
     DEF OneClient, Step

-----------------------------------------------------------------------------
(* Giving up                                                               *)

\* A client's own step: every failure of a request pays for one of the facts
\* that were out of date when the server handled it, and the session has the
\* new fact before it asks again.
LEMMA OwnReason ==
  ASSUME TypeOK, NEW c \in Clients, TallyOf(c), ReasonOf(c), OneClient(c)
  PROVE  ReasonOf(c)'
<1> DEFINE a == Account(c)
<1>1. /\ tries[c] \in 0 .. MaxRecoveries /\ redirects[c] \in 0 .. MaxRecoveries
      /\ surprises[c] \in 0 .. MaxRecoveries /\ MaxRecoveries \in Nat
      /\ pc[c].at \in {"sent", "redirected", "outdated", "executed"} => job[c].kind # "details"
  BY GameAssumption DEF TypeOK, TallyOf, TallyAt
<1>2. \A s, i : ServerStale(c, s) \in {0, 1} /\ IdStale(c, i) \in {0, 1}
  BY StaleType
<1>3. ASSUME NEW where, Goto(c, where)
      PROVE  pc'[c] = where
  BY <1>3 DEF Goto, TypeOK
<1>4. ASSUME UNCHANGED gameVars, UNCHANGED job
      PROVE  \A s, i : /\ ServerStale(c, s)' = ServerStale(c, s)
                       /\ IdStale(c, i)' = IdStale(c, i)
  BY <1>4 DEF ServerStale, IdStale, NeedsId, Account, gameVars
<1>5. CASE Begin(c)
  <2>1. pc'[c] = [at |-> "start"] /\ tries'[c] = 0
    BY <1>3, <1>5 DEF Begin, TypeOK
  <2>2. QED
    BY <2>1 DEF ReasonOf
<1>6. ASSUME NEW s, FirstRequest(c, s), pc[c].at \in {"start", "resolving"}
      PROVE  ReasonOf(c)'
  <2>1. /\ UNCHANGED gameVars /\ UNCHANGED job /\ id'[c] = id[c] /\ server'[c] = s
    BY <1>6 DEF FirstRequest, TypeOK, jobVars
  <2>2. \/ surprises'[c] = ServerStale(c, s) + IdStale(c, id[c])
        \/ surprises'[c] = MaxRecoveries
    BY <1>6, StaleType DEF FirstRequest, TypeOK
  <2>3. CASE job[c].kind = "details"
    <3>1. pc'[c] = [at |-> "refreshing"] /\ redirects'[c] = 1 /\ tries'[c] = tries[c]
      BY <1>3, <1>6, <2>3 DEF FirstRequest, TypeOK
    <3>2. tries[c] = 0 /\ IdStale(c, id[c]) = 0
      BY <1>6, <2>3 DEF ReasonOf, IdStale, NeedsId
    <3>3. QED
      BY <1>1, <1>2, <1>4, <2>1, <2>2, <3>1, <3>2 DEF ReasonOf, Explained
  <2>4. CASE job[c].kind # "details"
    <3>1. pc'[c] = [at |-> "sent"] /\ tries'[c] = 1
      BY <1>3, <1>6, <2>4 DEF FirstRequest, TypeOK
    <3>2. QED
      BY <1>1, <1>2, <1>4, <2>1, <2>2, <3>1 DEF ReasonOf, Explained
  <2>5. QED
    BY <2>3, <2>4
<1>7. CASE Call(c) \/ Resolved(c)
  BY <1>6, <1>7 DEF Call, Resolved
<1>8. CASE AskMaster(c) \/ Fail(c) \/ Crash(c) \/ Execute(c)
  <2>1. /\ pc'[c].at \in {"resolving", "failed", "idle", "executed"}
        /\ pc'[c].at = "resolving" => UNCHANGED <<job, tries>> /\ pc[c].at = "start"
    BY <1>3, <1>8 DEF AskMaster, Fail, Crash, Execute, callVars, jobVars
  <2>2. QED
    BY <1>1, <2>1 DEF ReasonOf
<1>9. CASE Redirect(c) \/ Outdate(c) \/ GiveDetails(c)
  <2>1. UNCHANGED gameVars /\ UNCHANGED <<job, server, id, tries, redirects, surprises>>
    BY <1>9 DEF Redirect, Outdate, GiveDetails, callVars, jobVars
  <2>2. ServerStale(c, home[a]) = 0 /\ IdStale(c, current[a]) = 0
    BY DEF ServerStale, IdStale
  <2>3. CASE Redirect(c) /\ pc[c].at = "sent"
    <3>1. pc'[c] = [at |-> "redirected", to |-> home[a]] /\ ServerStale(c, server[c]) = 1
      BY <1>3, <2>3 DEF Redirect, ServerStale
    <3>2. QED
      BY <1>1, <1>2, <1>4, <2>1, <2>2, <2>3, <3>1 DEF ReasonOf, Explained
  <2>4. CASE Redirect(c) /\ pc[c].at = "refreshing"
    <3>1. pc'[c] = [at |-> "detailsRedirected", to |-> home[a]] /\ ServerStale(c, server[c]) = 1
      BY <1>3, <2>4 DEF Redirect, ServerStale
    <3>2. pc'[c].at = "detailsRedirected" /\ ServerStale(c, pc[c].to)' = 0
      BY <1>4, <2>1, <2>2, <3>1
    <3>3. redirects[c] >= 1 /\ Explained(c, tries[c] + redirects[c])
      BY <1>1, <2>4, <3>1 DEF ReasonOf, Explained
    <3>4. QED
      BY <1>1, <2>1, <3>2, <3>3 DEF ReasonOf, Explained
  <2>5. CASE Outdate(c)
    <3>1. pc'[c] = [at |-> "outdated"] /\ pc[c].at = "sent" /\ IdStale(c, id[c]) = 1
      BY <1>3, <2>5 DEF Outdate, IdStale
    <3>2. QED
      BY <1>1, <1>2, <1>4, <2>1, <3>1 DEF ReasonOf, Explained
  <2>6. CASE GiveDetails(c)
    <3>1. pc'[c] = [at |-> "detailed", id |-> current[a]] /\ pc[c].at = "refreshing"
      BY <1>3, <2>6 DEF GiveDetails
    <3>2. QED
      BY <1>1, <1>2, <1>4, <2>1, <2>2, <3>1 DEF ReasonOf, Explained
  <2>7. QED
    BY <1>9, <2>3, <2>4, <2>5, <2>6 DEF Redirect
<1>10. ASSUME NextTry(c)
       PROVE  \/ pc'[c] = [at |-> "sent"] /\ tries'[c] = tries[c] + 1
              \/ pc'[c] = [at |-> "gaveUp"] /\ tries[c] >= MaxRecoveries
  BY <1>1, <1>10 DEF NextTry, Again, Goto, TypeOK
<1>11. CASE Redirected(c)
  <2>1. /\ UNCHANGED gameVars /\ UNCHANGED <<job, id, surprises>>
        /\ server'[c] = pc[c].to /\ pc[c].at = "redirected" /\ NextTry(c)
    BY <1>11 DEF Redirected, SetServer, jobVars, TypeOK
  <2>2. QED
    BY <1>1, <1>2, <1>4, <1>10, <2>1 DEF ReasonOf, Explained
<1>12. CASE Refresh(c)
  <2>1. /\ UNCHANGED gameVars /\ UNCHANGED <<job, server, tries, surprises>>
        /\ redirects'[c] = 1 /\ pc[c].at = "outdated" /\ pc'[c] = [at |-> "refreshing"]
    BY <1>3, <1>12 DEF Refresh, jobVars, TypeOK
  <2>2. QED
    BY <1>1, <1>2, <1>4, <2>1 DEF ReasonOf, Explained
<1>13. CASE DetailsRedirected(c)
  <2>1. /\ UNCHANGED gameVars /\ UNCHANGED <<job, tries, surprises>>
        /\ server'[c] = pc[c].to /\ pc[c].at = "detailsRedirected"
        /\ \/ pc'[c] = [at |-> "refreshing"] /\ redirects'[c] = redirects[c] + 1
           \/ pc'[c] = [at |-> "gaveUp"] /\ redirects[c] >= MaxRecoveries
    BY <1>1, <1>3, <1>13 DEF DetailsRedirected, SetServer, Again, jobVars, TypeOK
  <2>2. QED
    BY <1>1, <1>2, <1>4, <2>1 DEF ReasonOf, Explained
<1>14. CASE Detailed(c) /\ job[c].kind = "details"
  <2>1. pc'[c].at \in {"done", "failed"}
    BY <1>3, <1>14 DEF Detailed
  <2>2. QED
    BY <2>1 DEF ReasonOf
<1>15. CASE Detailed(c) /\ job[c].kind # "details"
  <2>1. /\ UNCHANGED gameVars /\ UNCHANGED <<job, server, surprises>>
        /\ id'[c] = pc[c].id /\ pc[c].at = "detailed" /\ NextTry(c)
    BY <1>15 DEF Detailed, jobVars, TypeOK
  <2>2. QED
    BY <1>1, <1>2, <1>4, <1>10, <2>1 DEF ReasonOf, Explained
<1>16. CASE Return(c)
  <2>1. pc'[c].at \in {"done", "start"} /\ UNCHANGED job /\ job[c].kind # "details"
    BY <1>1, <1>3, <1>16 DEF Return
  <2>2. QED
    BY <2>1 DEF ReasonOf
<1>17. QED
  BY <1>5, <1>7, <1>8, <1>9, <1>11, <1>12, <1>13, <1>14, <1>15, <1>16 DEF OneClient, Step

\* A move or a renewal puts one more fact out of date, and the calls it
\* concerns are surprised once more.
LEMMA GameReason ==
  ASSUME TypeOK, NEW a \in Accounts, Move(a) \/ Renew(a), NEW c \in Clients, ReasonOf(c)
  PROVE  ReasonOf(c)'
<1>1. UNCHANGED <<pc, job, server, id, tries, redirects>>
  BY GameStep
<1>2. /\ tries[c] \in 0 .. MaxRecoveries /\ redirects[c] \in 0 .. MaxRecoveries
      /\ surprises[c] \in 0 .. MaxRecoveries /\ MaxRecoveries \in Nat
  BY GameAssumption DEF TypeOK
<1>3. \A s, i : /\ ServerStale(c, s) \in {0, 1} /\ IdStale(c, i) \in {0, 1}
                /\ ServerStale(c, s)' \in {0, 1} /\ IdStale(c, i)' \in {0, 1}
  BY DEF ServerStale, IdStale
<1>4. CASE surprises'[c] = MaxRecoveries
  BY <1>1, <1>4 DEF ReasonOf, Explained
<1>5. ASSUME NEW n \in Int, NEW m \in Int, Explained(c, n), m <= n + 1,
             surprises'[c] = surprises[c] + 1, surprises[c] < MaxRecoveries
      PROVE  Explained(c, m)'
  BY <1>2, <1>5 DEF Explained
<1>6. CASE /\ surprises'[c] = surprises[c] + 1
           /\ surprises[c] < MaxRecoveries
           /\ \A s, i : ServerStale(c, s)' + IdStale(c, i)' <= ServerStale(c, s) + IdStale(c, i) + 1
           /\ pc[c].at # "gaveUp"
  <2>1. pc[c].at = "sent" =>
          Explained(c, tries[c] - 1 + ServerStale(c, server[c]) + IdStale(c, id[c]))'
    BY <1>1, <1>2, <1>3, <1>5, <1>6 DEF ReasonOf
  <2>2. pc[c].at = "redirected" =>
          Explained(c, tries[c] + ServerStale(c, pc[c].to) + IdStale(c, id[c]))'
    BY <1>1, <1>2, <1>3, <1>5, <1>6 DEF ReasonOf
  <2>3. pc[c].at = "outdated" => Explained(c, tries[c] + ServerStale(c, server[c]))'
    BY <1>1, <1>2, <1>3, <1>5, <1>6 DEF ReasonOf
  <2>4. pc[c].at = "refreshing" =>
          /\ redirects'[c] >= 1
          /\ Explained(c, tries[c] + redirects[c] - 1 + ServerStale(c, server[c]))'
    BY <1>1, <1>2, <1>3, <1>5, <1>6 DEF ReasonOf
  <2>5. pc[c].at = "detailsRedirected" =>
          /\ redirects'[c] >= 1
          /\ Explained(c, tries[c] + redirects[c] + ServerStale(c, pc[c].to))'
    BY <1>1, <1>2, <1>3, <1>5, <1>6 DEF ReasonOf
  <2>6. pc[c].at = "detailed" =>
          /\ redirects'[c] >= 1
          /\ Explained(c, tries[c] + redirects[c] - 1
                            + ServerStale(c, server[c]) + IdStale(c, pc[c].id))'
    BY <1>1, <1>2, <1>3, <1>5, <1>6 DEF ReasonOf
  <2>7. QED
    BY <1>1, <1>6, <2>1, <2>2, <2>3, <2>4, <2>5, <2>6 DEF ReasonOf
<1>7. CASE /\ surprises'[c] = surprises[c]
           /\ \A s, i : /\ ServerStale(c, s)' = ServerStale(c, s)
                        /\ IdStale(c, i)' = IdStale(c, i)
  BY <1>1, <1>2, <1>7 DEF ReasonOf, Explained
<1>8. CASE ~InCall(c)
  <2>1. surprises'[c] = surprises[c]
    BY <1>8 DEF Move, Renew, Surprised
  <2>2. QED
    BY <1>1, <1>8, <2>1 DEF ReasonOf, InCall, AtRest
<1>9. CASE InCall(c) /\ surprises[c] < MaxRecoveries
  <2>1. CASE Move(a)
    <3>1. CASE Account(c) = a
      <4>1. surprises'[c] = surprises[c] + 1 /\ UNCHANGED <<current, job>>
        BY <1>9, <2>1, <3>1 DEF Move, Surprised, jobVars
      <4>2. QED
        BY <1>3, <1>6, <1>9, <4>1 DEF IdStale, NeedsId, Account, InCall, AtRest
    <3>2. CASE Account(c) # a
      <4>1. surprises'[c] = surprises[c] /\ UNCHANGED <<current, job>>
        BY <2>1, <3>2 DEF Move, Surprised, jobVars
      <4>2. home'[Account(c)] = home[Account(c)]
        BY <2>1, <3>2 DEF Move, TypeOK
      <4>3. QED
        BY <1>7, <4>1, <4>2 DEF ServerStale, IdStale, NeedsId, Account
    <3>3. QED
      BY <3>1, <3>2
  <2>2. CASE Renew(a)
    <3>1. CASE Account(c) = a /\ NeedsId(c)
      <4>1. surprises'[c] = surprises[c] + 1 /\ UNCHANGED <<home, job>>
        BY <1>9, <2>2, <3>1 DEF Renew, Surprised, jobVars
      <4>2. QED
        BY <1>3, <1>6, <1>9, <4>1 DEF ServerStale, Account, InCall, AtRest
    <3>2. CASE ~(Account(c) = a /\ NeedsId(c))
      <4>1. surprises'[c] = surprises[c] /\ UNCHANGED <<home, job>>
        BY <2>2, <3>2 DEF Renew, Surprised, jobVars
      <4>2. NeedsId(c) => current'[Account(c)] = current[Account(c)]
        BY <2>2, <3>2 DEF Renew, TypeOK
      <4>3. QED
        BY <1>7, <4>1, <4>2 DEF ServerStale, IdStale, NeedsId, Account
    <3>3. QED
      BY <3>1, <3>2
  <2>3. QED
    BY <2>1, <2>2
<1>10. CASE InCall(c) /\ surprises[c] >= MaxRecoveries
  <2>1. surprises'[c] = surprises[c]
    BY <1>2, <1>10 DEF Move, Renew, Surprised
  <2>2. QED
    BY <1>2, <1>4, <1>10, <2>1
<1>11. QED
  BY <1>2, <1>8, <1>9, <1>10

-----------------------------------------------------------------------------
(* The theorems                                                            *)

Inv == TypeOK /\ Tally /\ Reason

\* At first nobody has done anything.
LEMMA InvInit == Init => Inv
<1> SUFFICES ASSUME Init
             PROVE  Inv
  OBVIOUS
<1>1. TypeOK
  BY GameAssumption DEF Init, TypeOK, PCs, Jobs, AtRest
<1>2. ASSUME NEW c \in Clients
      PROVE  TallyOf(c) /\ ReasonOf(c)
  <2>1. /\ pc[c] = [at |-> "idle"] /\ bought[c] = 0 /\ spent[c] = 0
        /\ job[c].asked = 0 /\ Cap \in Nat
    BY GameAssumption DEF Init
  <2>2. QED
    BY <2>1 DEF TallyOf, TallyAt, ReasonOf, AtRest
<1>3. QED
  BY <1>1, <1>2 DEF Inv, Tally, Reason

\* Every step keeps the types, the tallies and the reasons.
LEMMA InvStep == Inv /\ [Next]_vars => Inv'
<1> SUFFICES ASSUME Inv, [Next]_vars
             PROVE  Inv'
  OBVIOUS
<1>1. TypeOK /\ Tally /\ Reason
  BY DEF Inv
<1>2. TypeOK'
  BY <1>1, TypeStep
<1>3. ASSUME NEW c \in Clients
      PROVE  TallyOf(c)' /\ ReasonOf(c)'
  <2>1. TallyOf(c) /\ ReasonOf(c)
    BY <1>1 DEF Tally, Reason
  <2>2. ASSUME UNCHANGED gameVars,
               pc'[c] = pc[c], job'[c] = job[c], server'[c] = server[c], id'[c] = id[c],
               tries'[c] = tries[c], redirects'[c] = redirects[c],
               bought'[c] = bought[c], spent'[c] = spent[c], surprises'[c] = surprises[c]
        PROVE  TallyOf(c)' /\ ReasonOf(c)'
    <3>1. Batch(c)' = Batch(c)
      BY <2>2 DEF Batch
    <3>2. \A s, i : ServerStale(c, s)' = ServerStale(c, s) /\ IdStale(c, i)' = IdStale(c, i)
      BY <2>2 DEF ServerStale, IdStale, NeedsId, Account, gameVars
    <3>3. QED
      BY <2>1, <2>2, <3>1, <3>2 DEF TallyOf, ReasonOf, Explained
  <2>3. ASSUME NEW d \in Clients, OneClient(d)
        PROVE  TallyOf(c)' /\ ReasonOf(c)'
    <3>1. CASE d = c
      BY <1>1, <2>1, <2>3, <3>1, OwnTally, OwnReason
    <3>2. CASE d # c
      BY <1>1, <2>2, <2>3, <3>2, OneClientStep
    <3>3. QED
      BY <3>1, <3>2
  <2>4. ASSUME NEW a \in Accounts, Move(a) \/ Renew(a)
        PROVE  TallyOf(c)' /\ ReasonOf(c)'
    <3>1. UNCHANGED <<pc, job, bought, spent>>
      BY <2>4, GameStep
    <3>2. TallyOf(c)'
      BY <2>1, <3>1 DEF TallyOf, Batch
    <3>3. QED
      BY <1>1, <2>1, <2>4, <3>2, GameReason
  <2>5. CASE UNCHANGED vars
    BY <2>2, <2>5 DEF vars, dbVars, callVars, jobVars
  <2>6. QED
    BY <2>3, <2>4, <2>5 DEF Next, OneClient
<1>4. QED
  BY <1>2, <1>3 DEF Inv, Tally, Reason

\* The types of every variable.
THEOREM TypeCorrect == Spec => []TypeOK
<1>1. Inv => TypeOK
  BY DEF Inv
<1>2. QED
  BY <1>1, InvInit, InvStep, PTL DEF Spec

\* However often servers move, ids are renewed and requests are lost, no batch
\* is executed twice, and no more than one is in doubt (GameSession.call,
\* chests.py).
THEOREM NothingSpentTwice == Spec => []SpentAsAsked
<1>1. Inv => SpentAsAsked
  BY DEF Inv, Tally, TallyOf, TallyAt, SpentAsAsked
<1>2. QED
  BY <1>1, InvInit, InvStep, PTL DEF Spec

\* A call that meets fewer surprises than MAX_RECOVERIES, and whose requests
\* are answered, succeeds: the sequence the comment at MAX_RECOVERIES names is
\* one of those it survives.
THEOREM SurvivesSurprises == Spec => []GivesUpForGoodReason
<1>1. Inv => GivesUpForGoodReason
  BY DEF Inv, Reason, ReasonOf, GivesUpForGoodReason
<1>2. QED
  BY <1>1, InvInit, InvStep, PTL DEF Spec

-----------------------------------------------------------------------------
(* A job gets done                                                         *)

\* Two ranks compare at the first place where they differ.
LEMMA BelowFacts ==
  ASSUME NEW a, NEW b, NEW c, NEW d, NEW e, NEW f,
         NEW u, NEW v, NEW w, NEW x, NEW y, NEW z,
         \/ a < u
         \/ a = u /\ b < v
         \/ a = u /\ b = v /\ c < w
         \/ a = u /\ b = v /\ c = w /\ d < x
         \/ a = u /\ b = v /\ c = w /\ d = x /\ e < y
         \/ a = u /\ b = v /\ c = w /\ d = x /\ e = y /\ f < z
  PROVE  Below(<<a, b, c, d, e, f>>, <<u, v, w, x, y, z>>)
<1> DEFINE r == <<a, b, c, d, e, f>>
           s == <<u, v, w, x, y, z>>
<1>1. CASE a < u
  BY <1>1, r[1] < s[1] DEF Below
<1>2. CASE a = u /\ b < v
  BY <1>2, r[2] < s[2], r[1] = s[1] DEF Below
<1>3. CASE a = u /\ b = v /\ c < w
  BY <1>3, r[3] < s[3], r[1] = s[1], r[2] = s[2] DEF Below
<1>4. CASE a = u /\ b = v /\ c = w /\ d < x
  BY <1>4, r[4] < s[4], r[1] = s[1], r[2] = s[2], r[3] = s[3] DEF Below
<1>5. CASE a = u /\ b = v /\ c = w /\ d = x /\ e < y
  BY <1>5, r[5] < s[5], r[1] = s[1], r[2] = s[2], r[3] = s[3], r[4] = s[4] DEF Below
<1>6. CASE a = u /\ b = v /\ c = w /\ d = x /\ e = y /\ f < z
  BY <1>6, r[6] < s[6], r[1] = s[1], r[2] = s[2], r[3] = s[3], r[4] = s[4], r[5] = s[5]
     DEF Below
<1>7. QED
  BY <1>1, <1>2, <1>3, <1>4, <1>5, <1>6

\* What the places of a rank are, by the point a client is at.
LEMMA PlaceFacts ==
  ASSUME NEW c \in Clients
  PROVE  /\ pc[c].at = "start" => Phase(c) = 2
         /\ pc[c].at = "resolving" => Phase(c) = 1
         /\ pc[c].at \notin {"start", "resolving"} => Phase(c) = 0
         /\ pc[c].at = "sent" => Leg(c) = 2
         /\ pc[c].at \in {"redirected", "outdated", "executed"} => Leg(c) = 1
         /\ pc[c].at \in {"refreshing", "detailsRedirected", "detailed"} => Leg(c) = 0
         /\ pc[c].at = "refreshing" => Half(c) = 1
         /\ pc[c].at # "refreshing" => Half(c) = 0
BY DEF Phase, Leg, Half

LEMMA NextPlaceFacts ==
  ASSUME NEW c \in Clients
  PROVE  /\ pc'[c].at = "resolving" => Phase(c)' = 1
         /\ pc'[c].at \notin {"start", "resolving"} => Phase(c)' = 0
         /\ pc'[c].at = "sent" => Leg(c)' = 2
         /\ pc'[c].at \in {"redirected", "outdated", "executed"} => Leg(c)' = 1
         /\ pc'[c].at \in {"refreshing", "detailsRedirected", "detailed"} => Leg(c)' = 0
         /\ pc'[c].at = "refreshing" => Half(c)' = 1
         /\ pc'[c].at # "refreshing" => Half(c)' = 0
BY DEF Phase, Leg, Half

\* A client's own step ends its job or brings it nearer to its end.
LEMMA OwnAdvance ==
  ASSUME TypeOK, NEW c \in Clients, TallyOf(c), Step(c)
  PROVE  pc'[c].at \in AtRest \/ Below(Rank(c)', Rank(c))
<1> DEFINE Nearer ==
             \/ bought'[c] > bought[c]
             \/ /\ bought'[c] = bought[c]
                /\ \/ Phase(c)' < Phase(c)
                   \/ /\ Phase(c)' = Phase(c)
                      /\ \/ tries'[c] > tries[c]
                         \/ tries'[c] = tries[c] /\ Leg(c)' < Leg(c)
                         \/ /\ tries'[c] = tries[c] /\ Leg(c)' = Leg(c)
                            /\ \/ redirects'[c] > redirects[c]
                               \/ redirects'[c] = redirects[c] /\ Half(c)' < Half(c)
<1> USE DEF Goto, jobVars
<1>1. /\ bought[c] \in Nat /\ job[c].asked \in Nat /\ MaxRecoveries \in Nat
      /\ tries[c] \in Nat /\ redirects[c] \in Nat
  BY JobForms, GameAssumption DEF TypeOK
<1>2. Step(c) => /\ UNCHANGED job
                 /\ bought'[c] \in Nat /\ tries'[c] \in Nat /\ redirects'[c] \in Nat
  <2>1. UNCHANGED job
    BY DEF Step, Call, AskMaster, Resolved, FirstRequest, Redirect, Outdate, Execute,
         GiveDetails, Redirected, Refresh, DetailsRedirected, Detailed, Return, Fail
  <2>2. CASE Return(c)
    BY <1>1, <2>1, <2>2, BatchType DEF Return, callVars, TallyOf, TallyAt, TypeOK
  <2>3. CASE ~Return(c)
    BY <1>1, <2>1, <2>3 DEF Step, Call, AskMaster, Resolved, FirstRequest, Redirect, Outdate,
         Execute, GiveDetails, Redirected, Refresh, DetailsRedirected, Detailed, Fail,
         NextTry, callVars, TypeOK
  <2>4. QED
    BY <2>1, <2>2, <2>3
<1>3. ASSUME Nearer
      PROVE  Below(Rank(c)', Rank(c))
  <2>1. job' = job
    BY <1>2
  <2>2. bought'[c] > bought[c] => job[c].asked - bought'[c] < job[c].asked - bought[c]
    BY <1>1, <1>2
  <2>3. tries'[c] > tries[c] => MaxRecoveries - tries'[c] < MaxRecoveries - tries[c]
    BY <1>1, <1>2
  <2>4. redirects'[c] > redirects[c]
          => MaxRecoveries - redirects'[c] < MaxRecoveries - redirects[c]
    BY <1>1, <1>2
  <2>5. QED
    BY <1>3, <2>1, <2>2, <2>3, <2>4, BelowFacts DEF Rank
<1> HIDE DEF Nearer
<1>4. ASSUME NEW s, FirstRequest(c, s), pc[c].at \in {"start", "resolving"}
      PROVE  Nearer
  <2>1. pc'[c].at \in {"refreshing", "sent"} /\ bought' = bought
    BY <1>4 DEF FirstRequest, TypeOK
  <2>2. QED
    BY <1>1, <1>4, <2>1, PlaceFacts, NextPlaceFacts DEF Nearer
<1>5. CASE Call(c) \/ Resolved(c)
  BY <1>3, <1>4, <1>5 DEF Call, Resolved
<1>6. CASE AskMaster(c)
  <2>1. pc[c].at = "start" /\ pc'[c].at = "resolving" /\ bought' = bought
    BY <1>6 DEF AskMaster, TypeOK
  <2>2. QED
    BY <1>1, <1>3, <2>1, PlaceFacts, NextPlaceFacts DEF Nearer
<1>7. CASE Redirect(c) \/ Outdate(c) \/ Execute(c) \/ GiveDetails(c)
  <2>1. /\ \/ pc[c].at = "sent" /\ pc'[c].at \in {"redirected", "outdated", "executed"}
           \/ pc[c].at = "refreshing" /\ pc'[c].at \in {"detailsRedirected", "detailed"}
        /\ UNCHANGED <<bought, tries, redirects>>
    BY <1>7 DEF Redirect, Outdate, Execute, GiveDetails, callVars, TypeOK
  <2>2. QED
    BY <1>1, <1>3, <2>1, PlaceFacts, NextPlaceFacts DEF Nearer
<1>8. ASSUME NextTry(c), UNCHANGED bought,
             pc[c].at \in {"redirected", "detailed"}
      PROVE  pc'[c].at \in AtRest \/ Nearer
  <2>1. \/ pc'[c].at = "gaveUp"
        \/ pc'[c].at = "sent" /\ tries'[c] = tries[c] + 1
    BY <1>8 DEF NextTry, TypeOK
  <2>2. QED
    BY <1>1, <1>8, <2>1, PlaceFacts, NextPlaceFacts DEF Nearer, AtRest
<1>9. CASE Redirected(c)
  BY <1>3, <1>8, <1>9 DEF Redirected
<1>10. CASE Refresh(c)
  <2>1. pc[c].at = "outdated" /\ pc'[c].at = "refreshing" /\ UNCHANGED <<bought, tries>>
    BY <1>10 DEF Refresh, TypeOK
  <2>2. QED
    BY <1>1, <1>3, <2>1, PlaceFacts, NextPlaceFacts DEF Nearer
<1>11. CASE DetailsRedirected(c)
  <2>1. /\ pc[c].at = "detailsRedirected" /\ UNCHANGED <<bought, tries>>
        /\ \/ pc'[c].at = "gaveUp"
           \/ pc'[c].at = "refreshing" /\ redirects'[c] = redirects[c] + 1
    BY <1>11 DEF DetailsRedirected, TypeOK
  <2>2. QED
    BY <1>1, <1>3, <2>1, PlaceFacts, NextPlaceFacts DEF Nearer, AtRest
<1>12. CASE Detailed(c)
  <2>1. CASE job[c].kind = "details"
    BY <1>12, <2>1 DEF Detailed, AtRest, TypeOK
  <2>2. CASE job[c].kind # "details"
    BY <1>3, <1>8, <1>12, <2>2 DEF Detailed
  <2>3. QED
    BY <2>1, <2>2
<1>13. CASE Return(c)
  <2>1. bought'[c] = bought[c] + Batch(c) /\ pc[c].at = "executed"
    BY <1>13 DEF Return, TypeOK
  <2>2. Batch(c) \in Nat /\ Batch(c) >= 1
    <3>1. bought[c] < job[c].asked
      BY <2>1 DEF TallyOf, TallyAt, AtRest
    <3>2. QED
      BY <1>1, <3>1, BatchType
  <2>3. QED
    BY <1>1, <1>3, <2>1, <2>2 DEF Nearer
<1>14. CASE Fail(c)
  BY <1>14 DEF Fail, AtRest, TypeOK
<1>15. QED
  BY <1>5, <1>6, <1>7, <1>9, <1>10, <1>11, <1>12, <1>13, <1>14 DEF Step

\* A job is a number of requests known when it starts, whatever the servers
\* answer and however often the account moves meanwhile.
THEOREM JobsAdvance == Spec => JobAdvances
<1> DEFINE Still(c) == UNCHANGED <<pc[c], job[c], bought[c], tries[c], redirects[c]>>
           Good(c) == \/ pc'[c].at \in AtRest
                      \/ Below(Rank(c)', Rank(c))
                      \/ Still(c)
<1>1. ASSUME TypeOK, Tally, [Next]_vars, NEW c \in Clients, pc[c].at \notin AtRest
      PROVE  Good(c)
  <2>1. CASE Step(c)
    BY <1>1, <2>1, OwnAdvance DEF Tally
  <2>2. CASE Crash(c)
    BY <1>1, <2>2 DEF Crash, Goto, AtRest, TypeOK
  <2>3. ~Begin(c)
    BY <1>1 DEF Begin
  <2>4. ASSUME NEW d \in Clients, d # c, OneClient(d)
        PROVE  Good(c)
    BY <1>1, <2>4, OneClientStep
  <2>5. ASSUME NEW a \in Accounts, Move(a) \/ Renew(a)
        PROVE  Good(c)
    BY <2>5, GameStep
  <2>6. CASE UNCHANGED vars
    BY <2>6 DEF vars, callVars, jobVars
  <2>7. QED
    BY <1>1, <2>1, <2>2, <2>3, <2>4, <2>5, <2>6 DEF Next, OneClient
<1>2. Inv /\ [Next]_vars => [\A c \in Clients : pc[c].at \notin AtRest => Good(c)]_vars
  BY <1>1 DEF Inv
<1>3. QED
  BY <1>2, InvInit, InvStep, PTL DEF Spec, JobAdvances

-----------------------------------------------------------------------------
(* The refinement                                                          *)

\* At first nobody is asked for anything.
LEMMA ErrandInit == Init => Caller!EInit
BY DEF Init, Caller!EInit, Stage, Asked, AtRest

\* A step of client c that changes nothing its caller sees.
Unseen(c) ==
  /\ Stage'[c] = Stage[c] /\ job'[c] = job[c]
  /\ spent'[c] = spent[c] /\ bought'[c] = bought[c]

\* To its caller, a client's own step is the beginning or the end of an errand,
\* a batch made or learnt of, or nothing.
LEMMA OwnErrand ==
  ASSUME Inv, NEW c \in Clients, OneClient(c)
  PROVE  \/ Unseen(c)
         \/ \E n \in 0 .. MaxCount : Caller!Take(c, n)
         \/ Caller!Make(c) \/ Caller!Learn(c)
         \/ \E e \in Caller!Ends : Caller!End(c, e)
<1> USE DEF gameVars, dbVars, callVars, jobVars
<1>0. /\ TypeOK /\ TypeOK' /\ TallyOf(c)
      /\ bought[c] \in Nat /\ spent[c] \in Nat /\ job[c].asked \in Nat
      /\ Cap \in Nat /\ Batch(c) \in Nat
      /\ pc[c] \in PCs /\ job[c] \in Jobs /\ job'[c] \in Jobs
  <2>1. TypeOK /\ TallyOf(c)
    BY DEF Inv, Tally
  <2>2. TypeOK'
    <3>1. Next
      BY DEF Next, OneClient
    <3>2. TypeOK /\ Tally
      BY DEF Inv
    <3>3. QED
      BY <3>1, <3>2, TypeStep
  <2>3. /\ bought[c] \in Nat /\ spent[c] \in Nat /\ job[c].asked \in Nat
        /\ pc[c] \in PCs /\ job[c] \in Jobs /\ job'[c] \in Jobs
    BY <2>1, <2>2, JobForms DEF TypeOK
  <2>4. bought[c] <= job[c].asked
    BY <2>1, <2>3 DEF TallyOf, TallyAt
  <2>5. Batch(c) \in Nat /\ Cap \in Nat
    BY <2>1, <2>4, BatchType, GameAssumption
  <2>6. QED
    BY <2>1, <2>2, <2>3, <2>5
<1>1. \A d \in Clients \ {c} : Stage'[d] = Stage[d] /\ Asked'[d] = Asked[d]
  BY <1>0, OneClientStep DEF Stage, Asked
<1>2. ASSUME NEW e \in Caller!Ends, pc[c].at \notin AtRest, pc'[c].at = e,
             UNCHANGED jobVars,
             e = "done" => bought[c] = job[c].asked,
             e = "gaveUp" => spent[c] = bought[c]
      PROVE  Caller!End(c, e)
  <2>1. Stage[c] = "busy" /\ Stage'[c] = e
    BY <1>2 DEF Stage, AtRest, Caller!Ends
  <2>2. Stage' = [Stage EXCEPT ![c] = e] /\ Asked' = Asked
    BY <1>1, <1>2, <2>1 DEF Stage, Asked
  <2>3. Asked[c] = job[c].asked
    BY DEF Asked
  <2>4. QED
    BY <1>2, <2>1, <2>2, <2>3 DEF Caller!End
<1>3. CASE Begin(c)
  <2>1. PICK j \in Jobs : job' = [job EXCEPT ![c] = j]
    BY <1>3 DEF Begin
  <2>2. j.asked \in 0 .. MaxCount
    BY GameAssumption DEF Jobs
  <2>3. Stage[c] \in Caller!Ends /\ Stage'[c] = "busy"
    BY <1>0, <1>3 DEF Begin, Goto, Stage, AtRest, Caller!Ends, TypeOK
  <2>4. Stage' = [Stage EXCEPT ![c] = "busy"]
    BY <1>1, <2>3 DEF Stage
  <2>5. Asked' = [Asked EXCEPT ![c] = j.asked]
    BY <1>0, <1>1, <2>1 DEF Asked, TypeOK
  <2>6. Caller!Take(c, j.asked)
    BY <1>3, <2>3, <2>4, <2>5 DEF Begin, Caller!Take
  <2>7. QED
    BY <2>2, <2>6
<1>4. CASE Execute(c)
  <2>1. /\ pc[c].at = "sent" /\ pc'[c].at = "executed"
        /\ spent' = [spent EXCEPT ![c] = @ + Batch(c)] /\ UNCHANGED <<job, bought>>
    BY <1>0, <1>4 DEF Execute, Goto, TypeOK
  <2>2. spent[c] = bought[c] /\ bought[c] < job[c].asked
    BY <1>0, <2>1 DEF TallyOf, TallyAt, AtRest
  <2>3. Batch(c) \in 1 .. Cap /\ spent[c] + Batch(c) <= job[c].asked
    BY <1>0, <2>2, BatchType
  <2>4. Stage' = Stage /\ Stage[c] = "busy"
    BY <1>1, <2>1 DEF Stage, AtRest
  <2>5. Asked' = Asked /\ Asked[c] = job[c].asked
    BY <2>1 DEF Asked
  <2>6. QED
    BY <2>1, <2>2, <2>3, <2>4, <2>5 DEF Caller!Make
<1>5. CASE Return(c)
  <2>1. /\ pc[c].at = "executed"
        /\ bought' = [bought EXCEPT ![c] = @ + Batch(c)] /\ UNCHANGED <<job, spent>>
        /\ pc'[c].at = IF bought'[c] = job[c].asked THEN "done" ELSE "start"
    BY <1>0, <1>5 DEF Return, Goto, TypeOK
  <2>2. spent[c] = bought[c] + Batch(c) /\ bought[c] < job[c].asked
    BY <1>0, <2>1 DEF TallyOf, TallyAt, AtRest
  <2>3. bought' = [bought EXCEPT ![c] = spent[c]] /\ spent[c] # bought[c]
    BY <1>0, <2>1, <2>2, BatchType
  <2>4. bought'[c] = spent[c]
    BY <1>0, <2>3 DEF TypeOK
  <2>5. /\ Stage[c] = "busy"
        /\ Stage'[c] = IF spent[c] = job[c].asked THEN "done" ELSE "busy"
    BY <2>1, <2>4 DEF Stage, AtRest
  <2>6. Stage' = [Stage EXCEPT ![c] = IF spent[c] = job[c].asked THEN "done" ELSE "busy"]
    BY <1>1, <2>5 DEF Stage
  <2>7. Asked' = Asked /\ Asked[c] = job[c].asked
    BY <2>1 DEF Asked
  <2>8. QED
    BY <2>1, <2>3, <2>5, <2>6, <2>7 DEF Caller!Learn
<1>6. CASE Fail(c) \/ Crash(c)
  <2>1. /\ pc[c].at \notin AtRest /\ UNCHANGED jobVars
        /\ \E e \in {"failed", "idle"} : pc'[c].at = e
    BY <1>0, <1>6 DEF Fail, Crash, Goto, AtRest, TypeOK
  <2>2. QED
    BY <1>2, <2>1 DEF Caller!Ends
<1>7. ASSUME pc[c].at \in {"redirected", "detailsRedirected", "detailed"}, UNCHANGED jobVars,
             \/ pc'[c].at \in {"sent", "refreshing", "failed", "gaveUp"}
             \/ pc'[c].at = "done" /\ job[c].kind = "details"
      PROVE  Unseen(c) \/ \E e \in Caller!Ends : Caller!End(c, e)
  <2>1. spent[c] = bought[c] /\ spent[c] <= job[c].asked
    BY <1>0, <1>7 DEF TallyOf, TallyAt
  <2>2. job[c].kind = "details" => bought[c] = job[c].asked
    BY <1>0, <2>1, JobForms
  <2>3. pc[c].at \notin AtRest
    BY <1>7 DEF AtRest
  <2>4. CASE pc'[c].at \in {"failed", "gaveUp", "done"}
    BY <1>2, <1>7, <2>1, <2>2, <2>3, <2>4 DEF Caller!Ends
  <2>5. CASE pc'[c].at \in {"sent", "refreshing"}
    BY <1>7, <2>3, <2>5 DEF Unseen, Stage, AtRest
  <2>6. QED
    BY <1>7, <2>4, <2>5
<1>8. CASE Redirected(c) \/ DetailsRedirected(c) \/ Detailed(c)
  BY <1>0, <1>7, <1>8
     DEF Redirected, DetailsRedirected, Detailed, NextTry, Goto, TypeOK
<1>9. CASE \/ Call(c) \/ AskMaster(c) \/ Resolved(c) \/ Redirect(c) \/ Outdate(c)
           \/ GiveDetails(c) \/ Refresh(c)
  <2>1. pc[c].at \notin AtRest /\ pc'[c].at \notin AtRest /\ UNCHANGED jobVars
    BY <1>0, <1>9
       DEF Call, AskMaster, Resolved, FirstRequest, Redirect, Outdate, GiveDetails, Refresh,
           Goto, AtRest, TypeOK
  <2>2. QED
    BY <2>1 DEF Unseen, Stage
<1>10. QED
  BY <1>3, <1>4, <1>5, <1>6, <1>8, <1>9 DEF OneClient, Step

\* What one client's caller does not see, no caller sees.
LEMMA NobodySees ==
  ASSUME TypeOK, TypeOK', NEW c \in Clients, OneClient(c), Unseen(c)
  PROVE  UNCHANGED Caller!errandVars
<1>1. \A d \in Clients : /\ Stage'[d] = Stage[d] /\ job'[d] = job[d]
                         /\ spent'[d] = spent[d] /\ bought'[d] = bought[d]
  BY OneClientStep DEF Unseen, Stage
<1>2. Stage' = Stage /\ Asked' = Asked
  BY <1>1 DEF Stage, Asked
<1>3. spent' = spent /\ bought' = bought
  BY <1>1 DEF TypeOK
<1>4. QED
  BY <1>2, <1>3 DEF Caller!errandVars

LEMMA ErrandStep ==
  ASSUME Inv, [Next]_vars
  PROVE  [Caller!ENext]_(Caller!errandVars)
<1>1. TypeOK /\ TypeOK'
  BY TypeStep DEF Inv
<1>2. ASSUME NEW c \in Clients, OneClient(c)
      PROVE  [Caller!ENext]_(Caller!errandVars)
  BY <1>1, <1>2, OwnErrand, NobodySees DEF Caller!ENext
<1>3. ASSUME UNCHANGED <<pc, job, bought, spent>>
      PROVE  UNCHANGED Caller!errandVars
  BY <1>3 DEF Stage, Asked, Caller!errandVars
<1>4. CASE UNCHANGED vars
  BY <1>3, <1>4 DEF vars, jobVars
<1>5. QED
  BY <1>2, <1>3, <1>4, GameStep DEF Next, OneClient

\* A session with its recoveries implements Errand, for any clients, accounts,
\* servers and numbers of tries.
THEOREM CallsAreErrands == Spec => ImplementsErrand
<1>1. Inv /\ [Next]_vars => [Caller!ENext]_(Caller!errandVars)
  BY ErrandStep
<1>2. QED
  BY <1>1, ErrandInit, InvInit, InvStep, PTL DEF Spec, ImplementsErrand, Caller!ESpec
=============================================================================
