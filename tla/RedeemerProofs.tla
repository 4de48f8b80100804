--------------------------- MODULE RedeemerProofs ---------------------------
(***************************************************************************)
(* Proofs about Redeemer, for any accounts, codes, credentials and retry   *)
(* ceiling, any number of web handlers, crashes and operator actions.      *)
(***************************************************************************)
EXTENDS Redeemer, FiniteSetTheorems, TLAPS

\* Setting the credentials_ok flag keeps the types, whether the row is there
\* or not.
LEMMA FlagType ==
  ASSUME RepoTypeOK, NEW a \in Accounts, NEW ok \in BOOLEAN, SetCredentialsOk(a, ok)
  PROVE  RepoTypeOK'
<1> USE DEF SetCredentialsOk, RepoTypeOK
<1>1. CASE Exists(a)
  <2>1. accounts[a] \in AccountRow
    BY <1>1 DEF Exists, NoAccount
  <2>2. [accounts[a] EXCEPT !.credentials_ok = ok] \in AccountRow
    BY <2>1 DEF AccountRow
  <2>3. accounts' = [accounts EXCEPT ![a] = [accounts[a] EXCEPT !.credentials_ok = ok]]
    BY <1>1
  <2>4. accounts' \in [Accounts -> AccountRow \union {NoAccount}]
    BY <2>2, <2>3
  <2>5. QED
    BY <2>4
<1>2. CASE ~Exists(a)
  BY <1>2
<1>3. QED
  BY <1>1, <1>2

\* Every operation on the database keeps its types.
LEMMA AdministerType ==
  ASSUME RepoTypeOK, Administer
  PROVE  RepoTypeOK'
<1> USE RepoAssumption DEF RepoTypeOK, AccountRow, NoAccount, Exists, Scopes
<1>1. ASSUME NEW a \in Accounts, NEW k \in Creds, AddAccount(a, k)
      PROVE  RepoTypeOK'
  BY <1>1 DEF AddAccount
<1>2. ASSUME NEW a \in Accounts, NEW k \in Creds, UpdateCredentials(a, k)
      PROVE  RepoTypeOK'
  <2>1. accounts[a] \in AccountRow
    BY <1>2 DEF UpdateCredentials
  <2>2. [enabled |-> accounts[a].enabled, credentials_ok |-> TRUE, creds |-> k] \in AccountRow
    BY <2>1
  <2>3. accounts' = [accounts EXCEPT ![a] = [enabled |-> accounts[a].enabled,
                                             credentials_ok |-> TRUE, creds |-> k]]
    BY <1>2, <2>1 DEF UpdateCredentials
  <2>4. accounts' \in [Accounts -> AccountRow \union {NoAccount}]
    BY <2>2, <2>3
  <2>5. QED
    BY <1>2, <2>4 DEF UpdateCredentials
<1>3. ASSUME NEW a \in Accounts, NEW on \in BOOLEAN, SetAccountEnabled(a, on)
      PROVE  RepoTypeOK'
  BY <1>3 DEF SetAccountEnabled
<1>4. ASSUME NEW a \in Accounts, RefreshAccount(a)
      PROVE  RepoTypeOK'
  BY <1>4, FlagType DEF RefreshAccount
<1>5. ASSUME NEW a \in Accounts, RemoveAccount(a)
      PROVE  RepoTypeOK'
  BY <1>5 DEF RemoveAccount
<1>6. ASSUME NEW c \in Codes, NEW scope \in Scopes \ {Absent}, AddCode(c, scope)
      PROVE  RepoTypeOK'
  BY <1>6 DEF AddCode
<1>7. QED
  BY <1>1, <1>2, <1>3, <1>4, <1>5, <1>6 DEF Administer

\* A ledger row written by record_redemption is a ledger row.
LEMMA RecordType ==
  ASSUME RepoTypeOK, NEW p \in Pairs, NEW s \in Terminal \union Retryable,
         RecordRedemption(p, s)
  PROVE  RepoTypeOK'
<1>1. redemptions[p].attempts \in Nat
  BY DEF RepoTypeOK, RedemptionRow, NoRow
<1>2. [status |-> s, attempts |-> redemptions[p].attempts + 1] \in RedemptionRow
  BY <1>1 DEF RedemptionRow
<1>3. QED
  BY <1>2 DEF RecordRedemption, RepoTypeOK

-----------------------------------------------------------------------------
(* Types, and what each program point implies                              *)

LEMMA TypeInit == Init => TypeOK /\ Shape
<1> SUFFICES ASSUME Init
             PROVE  TypeOK /\ Shape
  OBVIOUS
<1> USE RepoAssumption, RedeemerAssumption DEF Init
<1>1. RepoTypeOK
  BY DEF RepoTypeOK, AccountRow, NoAccount, Scopes
<1>2. TypeOK
  BY <1>1 DEF TypeOK, PCs
<1>3. Shape
  BY DEF Shape, SubmittingPCs, RunPCs
<1>4. QED
  BY <1>2, <1>3

\* What only a runner knows to be settled are codes for credentials.
LEMMA OutcomeType ==
  ASSUME TypeOK, Shape, NEW r \in Runners
  PROVE  Outcome(r) \in SUBSET (Creds \X Codes)
<1>1. CASE reply[r] \in Terminal
  <2>1. reply[r] # None
    BY <1>1, RedeemerAssumption DEF Replies
  <2>2. snapshot[r] \in Creds /\ item[r] \in Pairs
    BY <2>1 DEF TypeOK, Shape, SubmittingPCs
  <2>3. QED
    BY <2>2 DEF Outcome, Coupon, Pairs
<1>2. CASE reply[r] \notin Terminal
  BY <1>2 DEF Outcome
<1>3. QED
  BY <1>1, <1>2

LEMMA TypeStep ==
  ASSUME TypeOK, Shape, [Next]_vars
  PROVE  TypeOK' /\ Shape'
<1> USE RepoAssumption, RedeemerAssumption
<1> USE DEF TypeOK, Shape, repoVars, boundVars, Goto, PCs, RunPCs, SubmittingPCs,
            Acquire, Release
<1>1. ASSUME NEW r \in Runners, StartPoll(r)
      PROVE  TypeOK' /\ Shape'
  BY <1>1 DEF StartPoll, RepoTypeOK, Demand
<1>2. ASSUME NEW r \in Runners, EndPoll(r)
      PROVE  TypeOK' /\ Shape'
  BY <1>2 DEF EndPoll, RepoTypeOK
<1>3. ASSUME NEW r \in Runners, Trigger(r)
      PROVE  TypeOK' /\ Shape'
  BY <1>3 DEF Trigger, RepoTypeOK, Locking, Demand
<1>4. ASSUME NEW r \in Runners, StartRun(r)
      PROVE  TypeOK' /\ Shape'
  BY <1>4 DEF StartRun, OutstandingWork, RepoTypeOK, Runners
<1>5. ASSUME NEW r \in Runners, StartCommand(r)
      PROVE  TypeOK' /\ Shape'
  BY <1>5 DEF StartCommand, OutstandingWork, RepoTypeOK, Demand
<1>6. ASSUME NEW r \in Runners, EndRun(r)
      PROVE  TypeOK' /\ Shape'
  BY <1>6 DEF EndRun, Stop, RepoTypeOK
<1>7. ASSUME NEW r \in Runners, SkipAccount(r)
      PROVE  TypeOK' /\ Shape'
  BY <1>7 DEF SkipAccount, ItemsOf, RepoTypeOK
<1>8. ASSUME NEW r \in Runners, LoadAccount(r)
      PROVE  TypeOK' /\ Shape'
  BY <1>8 DEF LoadAccount, ItemsOf, RepoTypeOK, AccountRow, NoAccount, Exists
<1>9. ASSUME NEW r \in Runners, EndBatch(r)
      PROVE  TypeOK' /\ Shape'
  BY <1>9 DEF EndBatch, RepoTypeOK
<1>10. ASSUME NEW r \in Runners, Submit(r)
       PROVE  TypeOK' /\ Shape'
  BY <1>10 DEF Submit, ItemsOf, RepoTypeOK
<1>11. ASSUME NEW r \in Runners, Answer(r)
       PROVE  TypeOK' /\ Shape'
  <2>1. snapshot[r] \in Creds /\ item[r] \in Pairs
    BY <1>11 DEF Answer
  <2>2. settled' \in SUBSET (Creds \X Codes) /\ doubtful' \in SUBSET (Creds \X Codes)
    BY <1>11, <2>1 DEF Answer, Coupon, Pairs
  <2>3. reply' \in [Runners -> Replies \union {None}] /\ reply'[r] # None
    BY <1>11 DEF Answer
  <2>4. TypeOK'
    BY <1>11, <2>2, <2>3 DEF Answer, RepoTypeOK
  <2>5. \A q \in Runners \ {r} : reply'[q] = reply[q] /\ pc'[q] = pc[q]
    BY <1>11 DEF Answer
  <2>6. Shape'
    BY <1>11, <2>3, <2>5 DEF Answer
  <2>7. QED
    BY <2>4, <2>6
<1>12. ASSUME NEW r \in Runners, Record(r)
       PROVE  TypeOK' /\ Shape'
  BY <1>12, RecordType, OutcomeType DEF Record, NextItem, Replies, Retryable
<1>13. ASSUME NEW r \in Runners, RecordRaises(r)
       PROVE  TypeOK' /\ Shape'
  BY <1>13, OutcomeType DEF RecordRaises, Stop, RepoTypeOK
<1>14. ASSUME NEW r \in Runners, RejectCredentials(r)
       PROVE  TypeOK' /\ Shape'
  BY <1>14, FlagType DEF RejectCredentials, NextItem, ItemsOf
<1>15. CASE RedeemIfWork
  BY <1>15 DEF RedeemIfWork, RepoTypeOK, Runners, Locking
<1>16. ASSUME NEW S \in SUBSET Runners, Crash(S)
       PROVE  TypeOK' /\ Shape'
  <2>1. UNION {Outcome(r) : r \in S} \in SUBSET (Creds \X Codes)
    BY OutcomeType
  <2>2. QED
    BY <1>16, <2>1 DEF Crash, RepoTypeOK
<1>17. CASE Operate
  BY <1>17, AdministerType DEF Operate, Demand, runVars
<1>18. CASE UNCHANGED vars
  BY <1>18 DEF vars, runVars, RepoTypeOK
<1>19. QED
  BY <1>1, <1>2, <1>3, <1>4, <1>5, <1>6, <1>7, <1>8, <1>9, <1>10, <1>11, <1>12,
     <1>13, <1>14, <1>15, <1>16, <1>17, <1>18
     DEF Next, RunStep, CrashService, CrashCommand, Runners

\* The types of every variable.
THEOREM TypeCorrect == Spec => []TypeOK
<1>1. Init => TypeOK /\ Shape
  BY TypeInit
<1>2. TypeOK /\ Shape /\ [Next]_vars => (TypeOK /\ Shape)'
  BY TypeStep
<1>3. QED
  BY <1>1, <1>2, PTL DEF Spec

LEMMA TypeInvariant == Spec => [](TypeOK /\ Shape)
<1>1. TypeOK /\ Shape /\ [Next]_vars => (TypeOK /\ Shape)'
  BY TypeStep
<1>2. QED
  BY <1>1, TypeInit, PTL DEF Spec

-----------------------------------------------------------------------------
(* The lock of the service process                                         *)

LEMMA LockStep ==
  ASSUME TypeOK, Shape, LockHeld, [Next]_vars
  PROVE  LockHeld'
<1> USE RedeemerAssumption
<1> USE DEF TypeOK, LockHeld, Goto, RunPCs, Acquire, Release, Runners
<1>1. ASSUME NEW r \in Runners, StartPoll(r)
      PROVE  LockHeld'
  BY <1>1 DEF StartPoll
<1>2. ASSUME NEW r \in Runners, EndPoll(r)
      PROVE  LockHeld'
  BY <1>2 DEF EndPoll
<1>3. ASSUME NEW r \in Runners, Trigger(r)
      PROVE  LockHeld'
  BY <1>3 DEF Trigger
<1>4. ASSUME NEW r \in Runners, StartRun(r)
      PROVE  LockHeld'
  BY <1>4 DEF StartRun
<1>5. ASSUME NEW r \in Runners, StartCommand(r)
      PROVE  LockHeld'
  BY <1>5 DEF StartCommand
<1>6. ASSUME NEW r \in Runners, Stop(r), pc[r] \in RunPCs
      PROVE  LockHeld'
  BY <1>6 DEF Stop
<1>7. ASSUME NEW r \in Runners, pc[r] \in RunPCs, UNCHANGED lock,
             pc' = pc \/ \E l \in RunPCs : Goto(r, l)
      PROVE  LockHeld'
  BY <1>7
<1>8. ASSUME NEW r \in Runners, RunStep(r)
      PROVE  LockHeld'
  BY <1>6, <1>7, <1>8
     DEF RunStep, EndRun, SkipAccount, LoadAccount, EndBatch, Submit, Answer,
         Record, RecordRaises, RejectCredentials, NextItem
<1>9. CASE RedeemIfWork
  BY <1>9 DEF RedeemIfWork
<1>10. CASE CrashService
  BY <1>10 DEF CrashService, Crash
<1>11. CASE CrashCommand
  BY <1>11 DEF CrashCommand, Crash
<1>12. CASE Operate
  BY <1>12 DEF Operate, runVars
<1>13. CASE UNCHANGED vars
  BY <1>13 DEF vars, runVars
<1>14. QED
  BY <1>1, <1>2, <1>3, <1>4, <1>5, <1>8, <1>9, <1>10, <1>11, <1>12, <1>13 DEF Next

LEMMA LockInvariant == Spec => []LockHeld
<1>1. Init => LockHeld
  BY RedeemerAssumption DEF Init, LockHeld, RunPCs, Runners
<1>2. TypeOK /\ Shape /\ LockHeld /\ [Next]_vars => LockHeld'
  BY LockStep
<1>3. QED
  BY <1>1, <1>2, TypeInvariant, PTL DEF Spec

\* The lock leaves the service room for one submission at a time, whatever
\* commands do in other processes.
THEOREM Serialised == Spec => []OneSubmissionAtATime
<1>1. LockHeld => OneSubmissionAtATime
  BY DEF LockHeld, OneSubmissionAtATime, Runners, RunPCs, SubmittingPCs
<1>2. QED
  BY <1>1, LockInvariant, PTL

-----------------------------------------------------------------------------
(* The ledger                                                              *)

\* While commands keep apart from other runs, a runner inside a run is alone in
\* having work, or an item in flight, or anything else.
LEMMA Alone ==
  ASSUME TypeOK, Shape, LockHeld, CommandsAlone, NEW r \in Runners, pc[r] \in RunPCs
  PROVE  \A q \in Runners \ {r} :
           work[q] = {} /\ item[q] = None /\ reply[q] = None /\ snapshot[q] = NoCreds
<1> SUFFICES ASSUME NEW q \in Runners \ {r}
             PROVE  pc[q] \notin RunPCs
  BY DEF Shape, RunPCs, SubmittingPCs
<1>1. CASE r \in Commands \/ q \in Commands
  BY <1>1 DEF CommandsAlone
<1>2. CASE r \in Locking /\ q \in Locking
  BY <1>2 DEF LockHeld
<1>3. QED
  BY <1>1, <1>2 DEF Runners

\* What holds of the ledger and of the work lists at every step as long as
\* commands keep apart: the retry ceiling is kept exactly.
Ceiling == \A p \in Pairs : redemptions[p].attempts <= MaxAttempts
LedgerInv == WorkStillOpen /\ Ceiling

\* An open pair has an attempt left and no terminal status.
LEMMA OpenRowFacts ==
  ASSUME RepoTypeOK, NEW p \in Pairs, OpenRow(redemptions[p])
  PROVE  /\ redemptions[p].attempts \in Nat
         /\ redemptions[p].attempts < MaxAttempts
         /\ redemptions[p].status \notin Terminal
BY RepoAssumption DEF RepoTypeOK, OpenRow, NoRow, RedemptionRow, Retryable, Terminal

\* The operator, and the sources, leave a ledger row as it is or delete it.
LEMMA AdministerRows ==
  ASSUME RepoTypeOK, Administer
  PROVE  /\ redemptions' \in [Pairs -> RedemptionRow \union {NoRow}]
         /\ \A p \in Pairs : redemptions'[p] \in {redemptions[p], NoRow}
BY DEF Administer, AddAccount, UpdateCredentials, SetAccountEnabled, RefreshAccount,
       SetCredentialsOk, RemoveAccount, AddCode, RepoTypeOK

\* What each step can do to the ledger: nothing; record one outcome, the one
\* in the hands of a runner; or delete rows.
LEMMA LedgerSteps ==
  ASSUME TypeOK, [Next]_vars
  PROVE  \/ UNCHANGED redemptions
         \/ \E r \in Runners : Record(r)
         \/ Operate
BY DEF Next, RunStep, StartPoll, EndPoll, Trigger, StartRun, StartCommand, EndRun,
       SkipAccount, LoadAccount, EndBatch, Submit, Answer, RecordRaises,
       RejectCredentials, SetCredentialsOk, RedeemIfWork, CrashService, CrashCommand,
       Crash, repoVars, vars

\* What each step can do to what a runner has to do: nothing, take on work
\* that is outstanding, move an item from the list to the request, or drop.
LEMMA WorkSteps ==
  ASSUME TypeOK, Shape, [Next]_vars, NEW q \in Runners
  PROVE  \/ /\ work'[q] \subseteq OutstandingWork
            /\ item'[q] = item[q]
         \/ /\ work'[q] \subseteq work[q]
            /\ item'[q] \in work[q] \union {item[q], None}
<1> USE DEF TypeOK, Shape, repoVars, runVars, vars
<1>1. CASE \E r \in Runners : StartRun(r) \/ StartCommand(r)
  BY <1>1 DEF StartRun, StartCommand
<1>2. CASE \E r \in Runners : EndRun(r) \/ RecordRaises(r)
  BY <1>2 DEF EndRun, RecordRaises, Stop
<1>3. CASE \E r \in Runners : SkipAccount(r) \/ LoadAccount(r) \/ EndBatch(r)
  BY <1>3 DEF SkipAccount, LoadAccount, EndBatch
<1>4. CASE \E r \in Runners : Submit(r)
  BY <1>4 DEF Submit, ItemsOf
<1>5. CASE \E r \in Runners : Record(r) \/ RejectCredentials(r)
  <2>1. PICK r \in Runners : Record(r) \/ RejectCredentials(r)
    BY <1>5
  <2>2. item' = [item EXCEPT ![r] = None]
    BY <2>1 DEF Record, RejectCredentials, NextItem
  <2>3. work' = work \/ work' = [work EXCEPT ![r] = @ \ ItemsOf(r, batch[r])]
    BY <2>1 DEF Record, RejectCredentials
  <2>4. QED
    BY <2>2, <2>3
<1>6. CASE \E r \in Runners : Answer(r) \/ StartPoll(r) \/ EndPoll(r) \/ Trigger(r)
  BY <1>6 DEF Answer, StartPoll, EndPoll, Trigger
<1>7. CASE RedeemIfWork \/ Operate \/ UNCHANGED vars
  BY <1>7 DEF RedeemIfWork, Operate
<1>8. CASE CrashService \/ CrashCommand
  BY <1>8 DEF CrashService, CrashCommand, Crash
<1>9. QED
  BY <1>1, <1>2, <1>3, <1>4, <1>5, <1>6, <1>7, <1>8 DEF Next, RunStep

LEMMA LedgerStep ==
  ASSUME TypeOK, Shape, LockHeld, LedgerInv, CommandsAlone, [Next]_vars
  PROVE  LedgerInv'
<1> USE DEF LedgerInv
<1>1. ASSUME UNCHANGED redemptions
      PROVE  LedgerInv'
  <2>1. Ceiling'
    BY <1>1 DEF Ceiling
  <2>2. ASSUME NEW q \in Runners
        PROVE  /\ \A p \in work'[q] : OpenRow(redemptions[p])
               /\ item'[q] # None => OpenRow(redemptions[item'[q]])
    <3>1. CASE work'[q] \subseteq OutstandingWork /\ item'[q] = item[q]
      BY <3>1 DEF OutstandingWork, WorkStillOpen
    <3>2. CASE work'[q] \subseteq work[q] /\ item'[q] \in work[q] \union {item[q], None}
      BY <3>2 DEF WorkStillOpen
    <3>3. QED
      BY <3>1, <3>2, WorkSteps
  <2>3. WorkStillOpen'
    BY <1>1, <2>2 DEF WorkStillOpen, OpenRow
  <2>4. QED
    BY <2>1, <2>3
<1>2. ASSUME NEW r \in Runners, Record(r)
      PROVE  LedgerInv'
  <2> DEFINE p == item[r]
  <2>1. p \in Pairs /\ OpenRow(redemptions[p])
    BY <1>2 DEF Record, Shape, SubmittingPCs, WorkStillOpen, TypeOK
  <2>2. /\ redemptions' \in [Pairs -> RedemptionRow \union {NoRow}]
        /\ \A x \in Pairs \ {p} : redemptions'[x] = redemptions[x]
        /\ redemptions'[p].attempts = redemptions[p].attempts + 1
    <3>1. redemptions'[p].attempts = redemptions[p].attempts + 1
      BY <1>2, <2>1 DEF Record, RecordRedemption, TypeOK, RepoTypeOK
    <3>2. \A x \in Pairs \ {p} : redemptions'[x] = redemptions[x]
      BY <1>2, <2>1 DEF Record, RecordRedemption, TypeOK, RepoTypeOK
    <3>3. TypeOK'
      BY TypeStep
    <3>4. QED
      BY <3>1, <3>2, <3>3 DEF TypeOK, RepoTypeOK
  <2>3. Ceiling'
    <3>1. redemptions'[p].attempts <= MaxAttempts
      BY <2>1, <2>2, OpenRowFacts, RepoAssumption DEF TypeOK
    <3>2. QED
      BY <2>2, <3>1 DEF Ceiling
  <2>4. \A q \in Runners \ {r} : work[q] = {} /\ item[q] = None
    BY <1>2, Alone DEF Record, RunPCs
  <2>5. p \notin work[r] /\ work' = work /\ item' = [item EXCEPT ![r] = None]
    BY <1>2 DEF Record, NextItem, Shape
  <2>6. \A q \in Runners : item'[q] = None /\ \A x \in work'[q] : x \in Pairs \ {p}
    BY <2>4, <2>5 DEF TypeOK
  <2>7. WorkStillOpen'
    BY <2>2, <2>4, <2>5, <2>6 DEF WorkStillOpen, OpenRow
  <2>8. QED
    BY <2>3, <2>7
<1>3. ASSUME Operate
      PROVE  LedgerInv'
  <2>1. \A p \in Pairs : redemptions'[p] \in {redemptions[p], NoRow}
    BY <1>3, AdministerRows DEF Operate, TypeOK
  <2>2. Ceiling'
    BY <2>1, RepoAssumption DEF Ceiling, NoRow
  <2>3. work' = work /\ item' = item
    BY <1>3 DEF Operate, runVars
  <2>4. \A p \in Pairs : OpenRow(redemptions[p]) => OpenRow(redemptions'[p])
    BY <2>1 DEF OpenRow
  <2>5. WorkStillOpen'
    <3>1. \A q \in Runners : work[q] \subseteq Pairs /\ item[q] \in Pairs \union {None}
      BY DEF TypeOK
    <3>2. QED
      BY <2>3, <2>4, <3>1 DEF WorkStillOpen, OpenRow
  <2>6. QED
    BY <2>2, <2>5
<1>4. QED
  BY <1>1, <1>2, <1>3, LedgerSteps

LEMMA LedgerInit == Init => LedgerInv
BY RepoAssumption DEF Init, LedgerInv, WorkStillOpen, Ceiling, NoRow

LEMMA LedgerInvariant == Spec /\ []CommandsAlone => []LedgerInv
<1>1. TypeOK /\ Shape /\ LockHeld /\ LedgerInv /\ CommandsAlone /\ [Next]_vars => LedgerInv'
  BY LedgerStep
<1>2. QED
  BY <1>1, LedgerInit, TypeInvariant, LockInvariant, PTL DEF Spec

\* The work list of a run, read once, never asks for a pair that the ledger
\* has closed in the meantime, as long as commands keep apart from other runs.
THEOREM WorkListStaysOpen == Spec /\ []CommandsAlone => []WorkStillOpen
BY LedgerInvariant, PTL DEF LedgerInv

-----------------------------------------------------------------------------
(* The retry ceiling, commands included                                    *)

\* The commands and one more runner.
LEMMA CommandsAndOne ==
  ASSUME NEW l, NEW H \in SUBSET (Commands \union {l})
  PROVE  /\ IsFiniteSet(H)
         /\ Cardinality(H) \in Nat
         /\ Cardinality(H) <= Cardinality(Commands) + 1
<1> DEFINE Most == Commands \union {l}
<1>1. IsFiniteSet(Commands) /\ Cardinality(Commands) \in Nat
  BY RedeemerAssumption, FS_CardinalityType
<1>2. /\ IsFiniteSet(Most)
      /\ Cardinality(Most) = IF l \in Commands THEN Cardinality(Commands)
                                              ELSE Cardinality(Commands) + 1
  BY <1>1, FS_AddElement
<1>3. IsFiniteSet(H) /\ Cardinality(H) <= Cardinality(Most)
  BY <1>2, FS_Subset
<1>4. Cardinality(H) \in Nat
  BY <1>3, FS_CardinalityType
<1>5. QED
  BY <1>1, <1>2, <1>3, <1>4

\* Besides the commands only the holder of the lock can hold a pair.
LEMMA HoldersAreFew ==
  ASSUME Shape, LockHeld, NEW p \in Pairs
  PROVE  Holding(p) \in SUBSET (Commands \union {lock})
<1>1. ASSUME NEW r \in Locking, p \in work[r] \/ item[r] = p
      PROVE  r = lock
  <2>1. pc[r] \in RunPCs
    BY <1>1, RedeemerAssumption DEF Shape, Runners, RunPCs, SubmittingPCs
  <2>2. QED
    BY <2>1 DEF LockHeld
<1>2. QED
  BY <1>1 DEF Holding, Runners

\* A pair gets a new holder only while it is outstanding.
LEMMA HoldingSteps ==
  ASSUME TypeOK, Shape, [Next]_vars, NEW p \in Pairs, p \notin OutstandingWork
  PROVE  Holding(p)' \subseteq Holding(p)
<1> SUFFICES ASSUME NEW q \in Runners, p \in work'[q] \/ item'[q] = p
             PROVE  p \in work[q] \/ item[q] = p
  BY DEF Holding
<1>1. p # None
  BY RedeemerAssumption
<1>2. QED
  BY <1>1, WorkSteps

LEMMA InStoreStep ==
  ASSUME TypeOK, Shape, LockHeld, AttemptsInStore, [Next]_vars
  PROVE  AttemptsInStore'
<1> SUFFICES ASSUME NEW p \in Pairs
             PROVE  redemptions'[p].attempts + Cardinality(Holding(p)')
                      <= MaxAttempts + Cardinality(Commands)
  BY DEF AttemptsInStore, Holding
<1> USE RepoAssumption
<1>1. Cardinality(Commands) \in Nat
  BY RedeemerAssumption, FS_CardinalityType
<1>2. TypeOK' /\ Shape' /\ LockHeld'
  BY TypeStep, LockStep
<1>3. /\ IsFiniteSet(Holding(p)) /\ Cardinality(Holding(p)) \in Nat
      /\ Cardinality(Holding(p)) <= Cardinality(Commands) + 1
  BY HoldersAreFew, CommandsAndOne
<1>4. /\ IsFiniteSet(Holding(p)') /\ Cardinality(Holding(p)') \in Nat
      /\ Cardinality(Holding(p)') <= Cardinality(Commands) + 1
  <2>1. Holding(p)' \in SUBSET (Commands \union {lock'})
    <3>1. ASSUME NEW r \in Locking, p \in work'[r] \/ item'[r] = p
          PROVE  r = lock'
      BY <1>2, <3>1, RedeemerAssumption
         DEF Shape, LockHeld, Runners, RunPCs, SubmittingPCs
    <3>2. QED
      BY <3>1 DEF Holding, Runners
  <2>2. QED
    BY <2>1, CommandsAndOne
<1>5. redemptions[p].attempts \in Nat
  BY DEF TypeOK, RepoTypeOK, RedemptionRow, NoRow
<1>6. redemptions[p].attempts + Cardinality(Holding(p)) <= MaxAttempts + Cardinality(Commands)
  BY DEF AttemptsInStore
<1>7. ASSUME Holding(p)' \subseteq Holding(p), redemptions'[p] = redemptions[p]
      PROVE  redemptions'[p].attempts + Cardinality(Holding(p)')
               <= MaxAttempts + Cardinality(Commands)
  <2>1. Cardinality(Holding(p)') <= Cardinality(Holding(p))
    BY <1>3, <1>7, FS_Subset
  <2>2. QED
    BY <1>1, <1>3, <1>4, <1>5, <1>6, <1>7, <2>1
<1>8. CASE UNCHANGED redemptions
  <2>1. CASE p \in OutstandingWork
    <3>1. redemptions[p].attempts < MaxAttempts
      BY <2>1, OpenRowFacts DEF OutstandingWork, TypeOK
    <3>2. QED
      BY <1>1, <1>4, <1>5, <1>8, <3>1
  <2>2. CASE p \notin OutstandingWork
    BY <1>7, <1>8, <2>2, HoldingSteps
  <2>3. QED
    BY <2>1, <2>2
<1>9. ASSUME NEW r \in Runners, Record(r)
      PROVE  redemptions'[p].attempts + Cardinality(Holding(p)')
               <= MaxAttempts + Cardinality(Commands)
  <2>1. /\ item[r] \in Pairs /\ item[r] \notin work[r]
        /\ work' = work /\ item' = [item EXCEPT ![r] = None]
    BY <1>9 DEF Record, NextItem, Shape, SubmittingPCs, TypeOK
  <2>2. CASE p # item[r]
    <3>1. redemptions'[p] = redemptions[p]
      BY <1>9, <2>1, <2>2 DEF Record, RecordRedemption, TypeOK, RepoTypeOK
    <3>2. Holding(p)' \subseteq Holding(p)
      BY <2>1, RedeemerAssumption DEF Holding, TypeOK
    <3>3. QED
      BY <1>7, <3>1, <3>2
  <2>3. CASE p = item[r]
    <3>1. redemptions'[p].attempts = redemptions[p].attempts + 1
      BY <1>9, <2>1, <2>3 DEF Record, RecordRedemption, TypeOK, RepoTypeOK
    <3>2. r \in Holding(p) /\ Holding(p)' \subseteq Holding(p) \ {r}
      BY <2>1, <2>3, RedeemerAssumption DEF Holding, TypeOK
    <3>3. /\ IsFiniteSet(Holding(p) \ {r})
          /\ Cardinality(Holding(p) \ {r}) = Cardinality(Holding(p)) - 1
      BY <1>3, <3>2, FS_RemoveElement
    <3>4. Cardinality(Holding(p)') <= Cardinality(Holding(p)) - 1
      BY <3>2, <3>3, FS_Subset
    <3>5. QED
      BY <1>1, <1>3, <1>4, <1>5, <1>6, <3>1, <3>4
  <2>4. QED
    BY <2>2, <2>3
<1>10. CASE Operate
  <2>1. redemptions'[p] \in {redemptions[p], NoRow}
    BY <1>10, AdministerRows DEF Operate, TypeOK
  <2>2. Holding(p)' = Holding(p)
    BY <1>10 DEF Operate, runVars, Holding
  <2>3. CASE redemptions'[p] = NoRow
    BY <1>1, <1>4, <2>3 DEF NoRow
  <2>4. QED
    BY <1>7, <2>1, <2>2, <2>3
<1>11. QED
  BY <1>8, <1>9, <1>10, LedgerSteps

\* No pair is attempted more than max_redeem_attempts times by the service,
\* over all its runs and restarts, and each command adds one at the most.
THEOREM RetryCeiling == Spec => []AttemptsBounded
<1>1. Init => AttemptsInStore
  <2> SUFFICES ASSUME Init, NEW p \in Pairs
               PROVE  redemptions[p].attempts + Cardinality(Holding(p))
                        <= MaxAttempts + Cardinality(Commands)
    BY DEF AttemptsInStore
  <2>1. Holding(p) = {}
    BY RedeemerAssumption DEF Init, Holding
  <2>2. Cardinality(Holding(p)) = 0 /\ redemptions[p].attempts = 0
    BY <2>1, FS_EmptySet DEF Init, NoRow
  <2>3. Cardinality(Commands) \in Nat
    BY RedeemerAssumption, FS_CardinalityType
  <2>4. QED
    BY <2>2, <2>3, RepoAssumption
<1>2. TypeOK /\ Shape /\ LockHeld /\ AttemptsInStore /\ [Next]_vars => AttemptsInStore'
  BY InStoreStep
<1>3. TypeOK /\ Shape /\ LockHeld /\ AttemptsInStore => AttemptsBounded
  <2> SUFFICES ASSUME TypeOK, Shape, LockHeld, AttemptsInStore, NEW p \in Pairs
               PROVE  redemptions[p].attempts <= MaxAttempts + Cardinality(Commands)
    BY DEF AttemptsBounded
  <2>1. Cardinality(Holding(p)) \in Nat /\ redemptions[p].attempts \in Nat
    <3>1. Cardinality(Holding(p)) \in Nat
      BY HoldersAreFew, CommandsAndOne
    <3>2. redemptions[p].attempts \in Nat
      BY DEF TypeOK, RepoTypeOK, RedemptionRow, NoRow
    <3>3. QED
      BY <3>1, <3>2
  <2>2. Cardinality(Commands) \in Nat
    BY RedeemerAssumption, FS_CardinalityType
  <2>3. QED
    BY <2>1, <2>2, RepoAssumption DEF AttemptsInStore
<1>4. QED
  BY <1>1, <1>2, <1>3, TypeInvariant, LockInvariant, PTL DEF Spec

-----------------------------------------------------------------------------
(* What is settled is not asked again                                      *)

\* A terminal row stays as it is until it is deleted, as long as commands keep
\* apart from other runs: `command_overlaps` shows that the condition is needed.
THEOREM TerminalKept == Spec /\ []CommandsAlone => TerminalNeverRetried
<1>1. ASSUME TypeOK, Shape, LedgerInv, [Next]_vars, NEW p \in Pairs,
             redemptions[p].status \in Terminal
      PROVE  redemptions'[p] \in {redemptions[p], NoRow}
  <2>1. CASE UNCHANGED redemptions
    BY <2>1
  <2>2. ASSUME NEW r \in Runners, Record(r)
        PROVE  redemptions'[p] = redemptions[p]
    <3>1. item[r] \in Pairs /\ OpenRow(redemptions[item[r]])
      BY <1>1, <2>2 DEF Record, Shape, SubmittingPCs, LedgerInv, WorkStillOpen, TypeOK
    <3>2. p # item[r]
      BY <1>1, <3>1, OpenRowFacts DEF TypeOK
    <3>3. QED
      BY <1>1, <2>2, <3>1, <3>2 DEF Record, RecordRedemption, TypeOK, RepoTypeOK
  <2>3. CASE Operate
    BY <1>1, <2>3, AdministerRows DEF Operate, TypeOK
  <2>4. QED
    BY <1>1, <2>1, <2>2, <2>3, LedgerSteps
<1>2. TypeOK /\ Shape /\ LedgerInv /\ [Next]_vars
        => [\A p \in Pairs : redemptions[p].status \in Terminal
                             => redemptions'[p] \in {redemptions[p], NoRow}]_vars
  BY <1>1
<1>3. QED
  BY <1>2, TypeInvariant, LedgerInvariant, PTL DEF Spec, TerminalNeverRetried

\* Flagging an account leaves every account its credentials.
LEMMA FlagKeepsCreds ==
  ASSUME RepoTypeOK, NEW a \in Accounts, NEW ok \in BOOLEAN, SetCredentialsOk(a, ok)
  PROVE  \A b \in Accounts : accounts'[b].creds = accounts[b].creds
<1>1. \A b \in Accounts : accounts[b] \in AccountRow \union {NoAccount}
  BY DEF RepoTypeOK
<1>2. QED
  BY <1>1 DEF SetCredentialsOk, RepoTypeOK, AccountRow, NoAccount

\* No operation gives credentials to two accounts.
LEMMA AdministerUnique ==
  ASSUME RepoTypeOK, UniqueCreds, Administer
  PROVE  UniqueCreds'
<1> USE RepoAssumption DEF UniqueCreds, Exists
<1>1. ASSUME \A b \in Accounts : accounts'[b].creds = accounts[b].creds
      PROVE  UniqueCreds'
  BY <1>1
<1>2. ASSUME NEW a \in Accounts, NEW k \in Creds, AddAccount(a, k) \/ UpdateCredentials(a, k)
      PROVE  UniqueCreds'
  <2>1. /\ accounts'[a].creds = k
        /\ \A b \in Accounts \ {a} : accounts'[b] = accounts[b] /\ accounts[b].creds # k
    BY <1>2 DEF AddAccount, UpdateCredentials, RepoTypeOK
  <2>2. QED
    BY <2>1
<1>3. ASSUME NEW a \in Accounts, NEW on \in BOOLEAN, SetAccountEnabled(a, on)
      PROVE  UniqueCreds'
  <2>1. \A b \in Accounts : accounts[b] \in AccountRow \union {NoAccount}
    BY DEF RepoTypeOK
  <2>2. \A b \in Accounts : accounts'[b].creds = accounts[b].creds
    BY <1>3, <2>1 DEF SetAccountEnabled, RepoTypeOK, AccountRow, NoAccount
  <2>3. QED
    BY <1>1, <2>2
<1>4. ASSUME NEW a \in Accounts, RefreshAccount(a)
      PROVE  UniqueCreds'
  BY <1>1, <1>4, FlagKeepsCreds DEF RefreshAccount
<1>5. ASSUME NEW a \in Accounts, RemoveAccount(a)
      PROVE  UniqueCreds'
  BY <1>5 DEF RemoveAccount, RepoTypeOK, NoAccount
<1>6. ASSUME NEW c \in Codes, NEW scope \in Scopes \ {Absent}, AddCode(c, scope)
      PROVE  UniqueCreds'
  BY <1>6 DEF AddCode
<1>7. QED
  BY <1>2, <1>3, <1>4, <1>5, <1>6 DEF Administer

\* A step keeps what is known of settled coupons if it takes away no credentials
\* and no row, gives up outcomes only into doubt, and moves a batch only to an
\* account with the credentials it has.
LEMMA KnownStays ==
  ASSUME TypeOK, CouponInv,
         \A a \in Accounts : accounts'[a].creds = accounts[a].creds,
         redemptions' = redemptions, settled' = settled, doubtful \subseteq doubtful',
         \A r \in Runners : Outcome(r) \subseteq Outcome(r)' \union doubtful',
         \A r \in Runners : \/ snapshot'[r] = snapshot[r] /\ batch'[r] = batch[r]
                            \/ snapshot'[r] = NoCreds
                            \/ /\ batch'[r] \in Accounts
                               /\ snapshot'[r] = accounts[batch'[r]].creds,
         \A r \in Runners : snapshot[r] # NoCreds => batch[r] \in Accounts
  PROVE  CouponInv'
<1> USE DEF CouponInv
<1>1. UniqueCreds'
  BY DEF UniqueCreds, Exists
<1>2. \A q : CouponOnFile(q) => CouponOnFile(q)'
  BY DEF CouponOnFile
<1>3. \A q : Awaited(q) => Awaited(q)' \/ q \in doubtful'
  BY DEF Awaited
<1>4. SettledKnown'
  BY <1>2, <1>3 DEF SettledKnown
<1>5. StaleDoubtful'
  BY <1>3 DEF StaleDoubtful
<1>6. QED
  BY <1>1, <1>4, <1>5


\* What a runner alone knows depends on its own variables, and only while it
\* has an answer in hand.
LEMMA OutcomeFacts ==
  ASSUME Shape, NEW r \in Runners
  PROVE  /\ pc[r] # "answered" => Outcome(r) = {}
         /\ reply[r] = "bad_credentials" => Outcome(r) = {}
         /\ reply'[r] = reply[r] /\ snapshot'[r] = snapshot[r] /\ item'[r] = item[r]
              => Outcome(r)' = Outcome(r)
BY RedeemerAssumption DEF Shape, Outcome, Coupon, Replies, Terminal

LEMMA AnswerKnown ==
  ASSUME TypeOK, Shape, CouponInv, NEW r \in Runners, Answer(r)
  PROVE  CouponInv'
<1> DEFINE q == Coupon(r)
<1>1. /\ pc[r] = "sent" /\ Outcome(r) = {}
      /\ UNCHANGED <<accounts, redemptions, snapshot, item, batch>>
      /\ \A s \in Runners \ {r} : Outcome(s)' = Outcome(s)
  <2>1. \A s \in Runners \ {r} : reply'[s] = reply[s]
    BY DEF Answer, TypeOK
  <2>2. QED
    BY <2>1, OutcomeFacts DEF Answer, repoVars
<1>2. settled \subseteq settled' /\ settled' \subseteq settled \union {q}
      /\ doubtful \subseteq doubtful'
  BY DEF Answer
<1>3. ASSUME q \in settled' PROVE q \in settled \/ q \in doubtful' \/ q \in Outcome(r)'
  <2>1. PICK o \in Replies : /\ reply' = [reply EXCEPT ![r] = o]
                             /\ o \in Terminal \union {"error"} \/ UNCHANGED settled
                             /\ o = "error" => doubtful' = doubtful \union ({q} \intersect settled')
    BY DEF Answer
  <2>2. CASE o \in Terminal
    BY <1>1, <2>1, <2>2 DEF Outcome, Coupon, TypeOK
  <2>3. CASE o \notin Terminal
    BY <1>3, <2>1, <2>3
  <2>4. QED
    BY <2>2, <2>3
<1>4. \A x : Awaited(x) => Awaited(x)'
  BY <1>1 DEF Awaited
<1>5. \A x : CouponOnFile(x) => CouponOnFile(x)'
  BY <1>1 DEF CouponOnFile
<1>6. SettledKnown'
  BY <1>2, <1>3, <1>4, <1>5 DEF CouponInv, SettledKnown, Awaited
<1>7. StaleDoubtful'
  <2> SUFFICES ASSUME NEW s \in Runners, snapshot[s] # NoCreds,
                      accounts[batch[s]].creds # snapshot[s],
                      NEW x \in settled', x[1] = snapshot[s]
               PROVE  x \in doubtful' \/ Awaited(x)'
    BY <1>1 DEF StaleDoubtful
  <2>1. CASE x \in settled
    BY <1>2, <1>4, <2>1 DEF CouponInv, StaleDoubtful
  <2>2. CASE x \notin settled
    BY <1>2, <1>3, <2>2 DEF Awaited
  <2>3. QED
    BY <2>1, <2>2
<1>8. UniqueCreds'
  BY <1>1 DEF CouponInv, UniqueCreds, Exists
<1>9. QED
  BY <1>6, <1>7, <1>8 DEF CouponInv

LEMMA RecordKnown ==
  ASSUME TypeOK, Shape, LockHeld, LedgerInv, CommandsAlone, CouponInv,
         NEW r \in Runners, Record(r)
  PROVE  CouponInv'
<1> DEFINE p == item[r]
           s == IF reply[r] = "error" THEN "failed" ELSE reply[r]
<1>1. /\ p \in Pairs /\ snapshot[r] # NoCreds /\ batch[r] \in Accounts
      /\ OpenRow(redemptions[p])
  BY DEF Record, Shape, SubmittingPCs, LedgerInv, WorkStillOpen, TypeOK
<1>2. /\ UNCHANGED <<accounts, snapshot, batch, settled>>
      /\ redemptions' = [redemptions EXCEPT
                           ![p] = [status |-> s, attempts |-> redemptions[p].attempts + 1]]
  BY <1>1 DEF Record, RecordRedemption, TypeOK, RepoTypeOK
<1>3. \A x \in Runners \ {r} : Outcome(x) = {} /\ snapshot[x] = NoCreds
  BY Alone, OutcomeFacts DEF Record, RunPCs, Shape, SubmittingPCs
<1>4. \A x : CouponOnFile(x) => CouponOnFile(x)'
  <2> SUFFICES ASSUME NEW x, NEW a \in Accounts, accounts[a].creds = x[1],
                      redemptions[<<a, x[2]>>].status \in Terminal
               PROVE  redemptions'[<<a, x[2]>>] = redemptions[<<a, x[2]>>]
    BY <1>2 DEF CouponOnFile
  <2>1. <<a, x[2]>> # p
    BY <1>1, OpenRowFacts DEF TypeOK
  <2>2. QED
    BY <1>2, <2>1 DEF TypeOK, RepoTypeOK
<1>5. \A x \in Outcome(r) : x \in doubtful' \/ CouponOnFile(x)'
  <2>1. CASE accounts[p[1]].creds = snapshot[r] /\ reply[r] \in Terminal
    <3>1. Outcome(r) = {<<accounts[p[1]].creds, p[2]>>} /\ p = <<p[1], p[2]>> /\ p[1] \in Accounts
      BY <1>1, <2>1 DEF Outcome, Coupon, Pairs
    <3>2. redemptions'[p].status \in Terminal
      BY <1>1, <1>2, <2>1 DEF TypeOK, RepoTypeOK, Terminal
    <3>3. QED
      BY <1>2, <3>1, <3>2 DEF CouponOnFile
  <2>2. CASE accounts[p[1]].creds # snapshot[r] \/ reply[r] \notin Terminal
    BY <2>2 DEF Record, Outcome
  <2>3. QED
    BY <2>1, <2>2
<1>6. \A x \in doubtful \ doubtful' : CouponOnFile(x)'
  BY <1>5 DEF Record
<1>7. SettledKnown'
  <2> SUFFICES ASSUME NEW x \in settled
               PROVE  x \in doubtful' \/ CouponOnFile(x)'
    BY <1>2 DEF SettledKnown
  <2>1. CASE Awaited(x)
    BY <1>3, <1>5, <2>1 DEF Awaited
  <2>2. QED
    BY <1>4, <1>6, <2>1 DEF CouponInv, SettledKnown
<1>8. StaleDoubtful'
  <2> SUFFICES ASSUME NEW x \in Runners, snapshot[x] # NoCreds,
                      accounts[batch[x]].creds # snapshot[x],
                      NEW q \in settled, q[1] = snapshot[x]
               PROVE  q \in doubtful'
    BY <1>2 DEF StaleDoubtful
  <2>1. x = r /\ p[1] = batch[r]
    BY <1>1, <1>3 DEF Record, Shape, SubmittingPCs
  <2>2. doubtful' = doubtful \union Outcome(r)
    BY <2>1 DEF Record
  <2>3. q \in doubtful \/ q \in Outcome(r)
    BY <1>3, <2>1 DEF CouponInv, StaleDoubtful, Awaited
  <2>4. QED
    BY <2>2, <2>3
<1>9. UniqueCreds'
  BY <1>2 DEF CouponInv, UniqueCreds, Exists
<1>10. QED
  BY <1>7, <1>8, <1>9 DEF CouponInv

\* Steps of a run, or to it, that neither answer nor record: they lose no
\* outcome, and a batch is begun with the credentials that are on file.
LEMMA RunKnown ==
  ASSUME TypeOK, Shape, CouponInv, NEW r \in Runners,
         \/ StartPoll(r) \/ EndPoll(r) \/ Trigger(r) \/ StartRun(r) \/ StartCommand(r)
         \/ EndRun(r) \/ SkipAccount(r) \/ LoadAccount(r) \/ EndBatch(r) \/ Submit(r)
         \/ RecordRaises(r) \/ RejectCredentials(r)
  PROVE  CouponInv'
<1> USE DEF TypeOK
<1>1. /\ UNCHANGED <<redemptions, settled>>
      /\ \A a \in Accounts : accounts'[a].creds = accounts[a].creds
  <2>1. CASE RejectCredentials(r)
    <3>1. batch[r] \in Accounts
      BY <2>1 DEF RejectCredentials, Shape, SubmittingPCs
    <3>2. QED
      BY <2>1, <3>1, FlagKeepsCreds DEF RejectCredentials, SetCredentialsOk
  <2>2. CASE ~RejectCredentials(r)
    BY <2>2 DEF StartPoll, EndPoll, Trigger, StartRun, StartCommand, EndRun,
         SkipAccount, LoadAccount, EndBatch, Submit, RecordRaises, repoVars
  <2>3. QED
    BY <2>1, <2>2
<1>2. \A q \in Runners \ {r} : /\ reply'[q] = reply[q] /\ item'[q] = item[q]
                               /\ snapshot'[q] = snapshot[q] /\ batch'[q] = batch[q]
  BY DEF StartPoll, EndPoll, Trigger, StartRun, StartCommand, EndRun, SkipAccount,
         LoadAccount, EndBatch, Submit, RecordRaises, RejectCredentials, Stop, NextItem
<1>3. \/ UNCHANGED doubtful /\ Outcome(r) = {}
      \/ doubtful' = doubtful \union Outcome(r)
  <2>1. CASE pc[r] # "answered"
    BY <2>1, OutcomeFacts
       DEF StartPoll, EndPoll, Trigger, StartRun, StartCommand, EndRun, SkipAccount,
           LoadAccount, EndBatch, Submit, RecordRaises, RejectCredentials
  <2>2. CASE RecordRaises(r) \/ RejectCredentials(r)
    BY <2>2, OutcomeFacts DEF RecordRaises, RejectCredentials
  <2>3. QED
    BY <2>1, <2>2 DEF StartPoll, EndPoll, Trigger, StartRun, StartCommand, EndRun,
         SkipAccount, LoadAccount, EndBatch, Submit, RecordRaises, RejectCredentials
<1>4. \/ snapshot'[r] = snapshot[r] /\ batch'[r] = batch[r]
      \/ snapshot'[r] = NoCreds
      \/ /\ batch'[r] \in Accounts
         /\ snapshot'[r] = accounts[batch'[r]].creds
  <2>1. CASE LoadAccount(r)
    BY <2>1 DEF LoadAccount
  <2>2. CASE EndRun(r) \/ RecordRaises(r) \/ EndBatch(r)
    BY <2>2 DEF EndRun, RecordRaises, EndBatch, Stop
  <2>3. CASE \/ StartPoll(r) \/ EndPoll(r) \/ Trigger(r) \/ StartRun(r) \/ StartCommand(r)
             \/ SkipAccount(r) \/ Submit(r) \/ RejectCredentials(r)
    BY <2>3 DEF StartPoll, EndPoll, Trigger, StartRun, StartCommand, SkipAccount, Submit,
         RejectCredentials
  <2>4. QED
    BY <2>1, <2>2, <2>3
<1>5. \A q \in Runners : Outcome(q) \subseteq Outcome(q)' \union doubtful'
  BY <1>2, <1>3, OutcomeFacts
<1>6. \A q \in Runners : snapshot[q] # NoCreds => batch[q] \in Accounts
  BY DEF Shape
<1>7. QED
  BY <1>1, <1>2, <1>3, <1>4, <1>5, <1>6, KnownStays

\* A process that dies takes outcomes with it, all of them into doubt.
LEMMA CrashKnown ==
  ASSUME TypeOK, Shape, CouponInv, NEW S \in SUBSET Runners, Crash(S)
  PROVE  CouponInv'
<1>1. /\ UNCHANGED <<accounts, redemptions, settled>>
      /\ doubtful \subseteq doubtful'
  BY DEF Crash, repoVars
<1>2. \A q \in Runners \ S : /\ reply'[q] = reply[q] /\ item'[q] = item[q]
                             /\ snapshot'[q] = snapshot[q] /\ batch'[q] = batch[q]
  BY DEF Crash
<1>3. \A q \in S : snapshot'[q] = NoCreds /\ Outcome(q) \subseteq doubtful'
  BY DEF Crash
<1>4. \A q \in Runners : Outcome(q) \subseteq Outcome(q)' \union doubtful'
  BY <1>2, <1>3, OutcomeFacts
<1>5. \A q \in Runners : snapshot[q] # NoCreds => batch[q] \in Accounts
  BY DEF Shape, TypeOK
<1>6. QED
  BY <1>1, <1>2, <1>3, <1>4, <1>5, KnownStays

\* The operator: what the ledger loses by an operation is forgotten, not unknown.
LEMMA OperateKnown ==
  ASSUME TypeOK, Shape, CouponInv, Operate
  PROVE  CouponInv'
<1>1. /\ UNCHANGED <<settled, snapshot, batch, item, reply>>
      /\ doubtful' = doubtful \union (Forgotten \intersect settled)
      /\ Administer
  BY DEF Operate, runVars
<1>2. \A x : Awaited(x) => Awaited(x)'
  BY <1>1, OutcomeFacts DEF Awaited
<1>3. ASSUME NEW x \in settled, CouponOnFile(x)
      PROVE  x \in doubtful' \/ CouponOnFile(x)'
  <2>1. PICK a \in Accounts : /\ accounts[a].creds = x[1]
                              /\ redemptions[<<a, x[2]>>].status \in Terminal
    BY <1>3 DEF CouponOnFile
  <2>2. x = <<x[1], x[2]>> /\ x[1] \in Creds /\ x[2] \in Codes
    BY DEF TypeOK
  <2>3. Exists(a) /\ <<a, x[2]>> \in Pairs
    BY <2>1, <2>2, RepoAssumption DEF Exists, NoAccount, Pairs
  <2>4. CASE accounts'[a].creds = accounts[a].creds
               /\ redemptions'[<<a, x[2]>>] = redemptions[<<a, x[2]>>]
    BY <2>1, <2>4 DEF CouponOnFile
  <2>5. CASE ~ (accounts'[a].creds = accounts[a].creds
                /\ redemptions'[<<a, x[2]>>] = redemptions[<<a, x[2]>>])
    <3>1. x \in Forgotten
      <4> DEFINE p == <<a, x[2]>>
      <4>1. p \in Pairs /\ p[1] = a /\ p[2] = x[2] /\ x = <<accounts[p[1]].creds, p[2]>>
        BY <2>1, <2>2, <2>3
      <4>2. QED
        BY <2>3, <2>5, <4>1 DEF Forgotten
    <3>2. QED
      BY <1>1, <3>1
  <2>6. QED
    BY <2>4, <2>5
<1>4. SettledKnown'
  BY <1>1, <1>2, <1>3 DEF CouponInv, SettledKnown
<1>5. StaleDoubtful'
  <2> SUFFICES ASSUME NEW r \in Runners, snapshot[r] # NoCreds,
                      accounts'[batch[r]].creds # snapshot[r],
                      NEW q \in settled, q[1] = snapshot[r]
               PROVE  q \in doubtful' \/ Awaited(q)'
    BY <1>1 DEF StaleDoubtful
  <2> DEFINE a == batch[r]
  <2>1. a \in Accounts
    BY DEF Shape, TypeOK
  <2>2. CASE accounts[a].creds # snapshot[r]
    BY <1>1, <1>2, <2>2 DEF CouponInv, StaleDoubtful
  <2>3. CASE accounts[a].creds = snapshot[r]
    <3>1. q = <<q[1], q[2]>> /\ q[1] \in Creds /\ q[2] \in Codes
      BY DEF TypeOK
    <3>2. Exists(a) /\ <<a, q[2]>> \in Pairs
      BY <2>1, <2>3, <3>1, RepoAssumption DEF Exists, NoAccount, Pairs
    <3>3. q \in Forgotten
      <4> DEFINE p == <<a, q[2]>>
      <4>1. p \in Pairs /\ p[1] = a /\ p[2] = q[2] /\ q = <<accounts[p[1]].creds, p[2]>>
        BY <2>3, <3>1, <3>2
      <4>2. QED
        BY <2>3, <3>2, <4>1 DEF Forgotten
    <3>4. QED
      BY <1>1, <3>3
  <2>4. QED
    BY <2>2, <2>3
<1>6. UniqueCreds'
  BY <1>1, AdministerUnique DEF CouponInv, TypeOK
<1>7. QED
  BY <1>4, <1>5, <1>6 DEF CouponInv

LEMMA CouponInit == Init => CouponInv
BY RedeemerAssumption
   DEF Init, CouponInv, SettledKnown, StaleDoubtful, UniqueCreds

LEMMA CouponStep ==
  ASSUME TypeOK, Shape, LockHeld, LedgerInv, CommandsAlone, CouponInv, [Next]_vars
  PROVE  CouponInv'
<1>1. CASE RedeemIfWork \/ UNCHANGED vars
  <2>1. /\ UNCHANGED <<accounts, redemptions, settled, doubtful>>
        /\ UNCHANGED <<snapshot, batch, item, reply>>
    BY <1>1 DEF RedeemIfWork, vars, runVars, repoVars
  <2>2. \A q \in Runners : Outcome(q) \subseteq Outcome(q)'
    BY <2>1, OutcomeFacts
  <2>3. \A q \in Runners : snapshot[q] # NoCreds => batch[q] \in Accounts
    BY DEF Shape, TypeOK
  <2>4. QED
    BY <2>1, <2>2, <2>3, KnownStays
<1>2. CASE CrashService \/ CrashCommand
  BY <1>2, CrashKnown DEF CrashService, CrashCommand, Runners
<1>3. QED
  BY <1>1, <1>2, AnswerKnown, RecordKnown, RunKnown, OperateKnown DEF Next, RunStep

LEMMA CouponInvariant == Spec /\ []CommandsAlone => []CouponInv
<1>1. /\ TypeOK /\ Shape /\ LockHeld /\ LedgerInv /\ CommandsAlone /\ CouponInv
      /\ [Next]_vars
      => CouponInv'
  BY CouponStep
<1>2. QED
  BY <1>1, CouponInit, TypeInvariant, LockInvariant, LedgerInvariant, PTL DEF Spec

\* Only Submit takes a runner from its batch to a request.
LEMMA SubmitFacts ==
  ASSUME TypeOK, [Next]_vars, NEW r \in Runners, pc[r] = "batch", pc'[r] = "sent"
  PROVE  Submit(r)
<1> USE DEF TypeOK, Goto
<1>1. ASSUME NEW s \in Runners, s # r
      PROVE  ~ (\/ StartPoll(s) \/ EndPoll(s) \/ Trigger(s) \/ StartRun(s) \/ StartCommand(s)
                \/ RunStep(s))
  BY <1>1 DEF StartPoll, EndPoll, Trigger, StartRun, StartCommand, RunStep, EndRun,
       SkipAccount, LoadAccount, EndBatch, Submit, Answer, Record, RecordRaises,
       RejectCredentials, Stop, NextItem
<1>2. ~ (\/ StartPoll(r) \/ EndPoll(r) \/ Trigger(r) \/ StartRun(r) \/ StartCommand(r)
         \/ EndRun(r) \/ SkipAccount(r) \/ LoadAccount(r) \/ EndBatch(r) \/ Answer(r)
         \/ Record(r) \/ RecordRaises(r) \/ RejectCredentials(r))
  BY DEF StartPoll, EndPoll, Trigger, StartRun, StartCommand, EndRun,
       SkipAccount, LoadAccount, EndBatch, Answer, Record, RecordRaises,
       RejectCredentials, Stop, NextItem
<1>3. ~RedeemIfWork /\ ~CrashService /\ ~CrashCommand /\ ~Operate /\ ~UNCHANGED vars
  BY DEF RedeemIfWork, CrashService, CrashCommand, Crash, Operate, vars, runVars
<1>4. QED
  BY <1>1, <1>2, <1>3 DEF Next, RunStep

\* What the game server has settled is submitted again only for a reason the
\* ledger could not know of.
THEOREM NoNeedlessResubmission == Spec /\ []CommandsAlone => ResubmittedForAReason
<1>1. ASSUME TypeOK, Shape, LockHeld, LedgerInv, CommandsAlone, CouponInv, [Next]_vars,
             NEW r \in Runners, pc[r] = "batch", pc'[r] = "sent",
             <<snapshot[r], item'[r][2]>> \in settled
      PROVE  <<snapshot[r], item'[r][2]>> \in doubtful
  <2>1. Submit(r)
    BY <1>1, SubmitFacts
  <2> DEFINE p == item'[r]
             q == <<snapshot[r], p[2]>>
  <2>2. p \in work[r] /\ p[1] = batch[r]
    BY <1>1, <2>1 DEF Submit, ItemsOf, TypeOK
  <2>3. p \in Pairs /\ p = <<batch[r], p[2]>> /\ batch[r] \in Accounts
        /\ snapshot[r] \in Creds /\ OpenRow(redemptions[p])
    BY <1>1, <2>2 DEF TypeOK, Shape, Pairs, LedgerInv, WorkStillOpen
  <2>4. ~Awaited(q)
    <3>1. \A s \in Runners : Outcome(s) = {}
      BY <1>1, <2>1, Alone, OutcomeFacts DEF RunPCs, Shape
    <3>2. QED
      BY <3>1 DEF Awaited
  <2>5. CASE accounts[batch[r]].creds # snapshot[r]
    BY <1>1, <2>3, <2>4, <2>5, RepoAssumption DEF CouponInv, StaleDoubtful
  <2>6. CASE accounts[batch[r]].creds = snapshot[r]
    <3>1. ~CouponOnFile(q)
      <4> SUFFICES ASSUME NEW a \in Accounts, accounts[a].creds = snapshot[r],
                          redemptions[<<a, p[2]>>].status \in Terminal
                   PROVE  FALSE
        BY DEF CouponOnFile
      <4>1. a = batch[r]
        BY <1>1, <2>3, <2>6, RepoAssumption DEF CouponInv, UniqueCreds, Exists, NoAccount
      <4>2. QED
        BY <1>1, <2>3, <4>1, OpenRowFacts DEF TypeOK
    <3>2. QED
      BY <1>1, <2>4, <3>1 DEF CouponInv, SettledKnown
  <2>7. QED
    BY <2>5, <2>6
<1>2. /\ TypeOK /\ Shape /\ LockHeld /\ LedgerInv /\ CommandsAlone /\ CouponInv
      /\ [Next]_vars
      => [\A r \in Runners :
            pc[r] = "batch" /\ pc'[r] = "sent" /\ <<snapshot[r], item'[r][2]>> \in settled
            => <<snapshot[r], item'[r][2]>> \in doubtful]_vars
  BY <1>1
<1>3. QED
  BY <1>2, TypeInvariant, LockInvariant, LedgerInvariant, CouponInvariant, PTL
     DEF Spec, ResubmittedForAReason

\* README's "a code is never submitted twice for the same account, across
\* restarts", under what it takes: no run beside a command's, and nothing that
\* ever puts a settled code in doubt.
THEOREM NeverTwice == Spec /\ []CommandsAlone /\ [](doubtful = {}) => NeverSubmittedTwice
<1>1. ASSUME doubtful = {},
             [\A r \in Runners :
                pc[r] = "batch" /\ pc'[r] = "sent" /\ <<snapshot[r], item'[r][2]>> \in settled
                => <<snapshot[r], item'[r][2]>> \in doubtful]_vars
      PROVE  [\A r \in Runners :
                pc[r] = "batch" /\ pc'[r] = "sent"
                => <<snapshot[r], item'[r][2]>> \notin settled]_vars
  BY <1>1
<1>2. QED
  BY <1>1, NoNeedlessResubmission, PTL DEF ResubmittedForAReason, NeverSubmittedTwice

-----------------------------------------------------------------------------
(* A run gets done                                                         *)

LEMMA DistanceFacts ==
  ASSUME NEW r \in Runners
  PROVE  /\ Distance(r) \in Nat
         /\ pc[r] \in RunPCs => Distance(r) > 0
         /\ pc[r] = "sent" => Distance(r) = 5
         /\ pc[r] = "answered" => Distance(r) = 4
         /\ pc[r] = "batch" => Distance(r) \in {1, 3}
         /\ pc[r] = "batch" /\ ItemsOf(r, batch[r]) = {} => Distance(r) = 3
         /\ pc[r] = "listed" => Distance(r) = 2
BY DEF Distance, RunPCs

LEMMA NextDistanceFacts ==
  ASSUME NEW r \in Runners
  PROVE  /\ pc'[r] = "answered" => Distance(r)' = 4
         /\ pc'[r] = "batch" => Distance(r)' \in {1, 3}
         /\ pc'[r] = "batch" /\ ItemsOf(r, batch[r])' # {} => Distance(r)' = 1
         /\ pc'[r] = "listed" => Distance(r)' = 2
         /\ pc'[r] = "idle" => Distance(r)' = 0
BY DEF Distance

\* The step of a run takes something off its list, or brings it closer to that.
LEMMA RunStepAdvances ==
  ASSUME TypeOK, Shape, NEW r \in Runners, RunStep(r)
  PROVE  Closer(r)
<1> USE DistanceFacts, NextDistanceFacts DEF TypeOK, Closer, Goto, NextItem
<1>1. CASE EndRun(r) \/ RecordRaises(r)
  <2>1. work'[r] = {} /\ pc'[r] = "idle"
    BY <1>1 DEF EndRun, RecordRaises, Stop
  <2>2. Distance(r) > 0
    BY <1>1 DEF EndRun, RecordRaises, RunPCs
  <2>3. QED
    BY <2>1, <2>2
<1>2. CASE SkipAccount(r)
  BY <1>2 DEF SkipAccount, ItemsOf
<1>3. CASE LoadAccount(r)
  <2>1. pc[r] = "listed" /\ pc'[r] = "batch" /\ work' = work /\ ItemsOf(r, batch[r])' # {}
    BY <1>3 DEF LoadAccount, ItemsOf
  <2>2. QED
    BY <2>1
<1>4. CASE EndBatch(r)
  BY <1>4 DEF EndBatch
<1>5. CASE Submit(r)
  BY <1>5 DEF Submit, ItemsOf
<1>6. CASE Answer(r)
  BY <1>6 DEF Answer
<1>7. CASE Record(r)
  BY <1>7 DEF Record
<1>8. CASE RejectCredentials(r)
  <2>1. pc[r] = "answered" /\ pc'[r] = "batch" /\ work'[r] = work[r] \ ItemsOf(r, batch[r])
    BY <1>8 DEF RejectCredentials
  <2>2. QED
    BY <2>1
<1>9. QED
  BY <1>1, <1>2, <1>3, <1>4, <1>5, <1>6, <1>7, <1>8 DEF RunStep

\* A run is over after a number of steps known when it starts.
THEOREM RunsGetDone == Spec => RunAdvances
<1>1. ASSUME TypeOK, Shape, [Next]_vars, NEW r \in Runners, pc[r] \in RunPCs
      PROVE  Closer(r) \/ UNCHANGED <<pc[r], work[r], batch[r]>>
  <2> USE DEF TypeOK, Goto, NextItem
  <2>1. CASE RunStep(r)
    BY <1>1, <2>1, RunStepAdvances
  <2>2. ASSUME NEW s \in Runners \ {r}, RunStep(s)
        PROVE  UNCHANGED <<pc[r], work[r], batch[r]>>
    BY <1>1, <2>2 DEF RunStep, EndRun, SkipAccount, LoadAccount, EndBatch, Submit, Answer,
         Record, RecordRaises, RejectCredentials, Stop
  <2>3. ASSUME NEW s \in Runners,
               StartPoll(s) \/ EndPoll(s) \/ Trigger(s) \/ StartRun(s) \/ StartCommand(s)
        PROVE  UNCHANGED <<pc[r], work[r], batch[r]>>
    BY <1>1, <2>3 DEF StartPoll, EndPoll, Trigger, StartRun, StartCommand, RunPCs
  <2>4. ASSUME NEW S \in SUBSET Runners, Crash(S)
        PROVE  Closer(r) \/ UNCHANGED <<pc[r], work[r], batch[r]>>
    <3>1. CASE r \in S
      <4>1. pc'[r] = "idle" /\ work'[r] = {}
        BY <2>4, <3>1 DEF Crash
      <4>2. QED
        BY <1>1, <4>1, DistanceFacts, NextDistanceFacts DEF Closer
    <3>2. CASE r \notin S
      BY <1>1, <2>4, <3>2 DEF Crash
    <3>3. QED
      BY <3>1, <3>2
  <2>5. CASE RedeemIfWork \/ Operate \/ UNCHANGED vars
    BY <1>1, <2>5 DEF RedeemIfWork, Operate, vars, runVars, RunPCs
  <2>6. QED
    BY <1>1, <2>1, <2>2, <2>3, <2>4, <2>5 DEF Next, CrashService, CrashCommand, Runners
<1>2. TypeOK /\ Shape /\ [Next]_vars
        => [\A r \in Runners :
              pc[r] \in RunPCs => Closer(r) \/ UNCHANGED <<pc[r], work[r], batch[r]>>]_vars
  BY <1>1
<1>3. QED
  BY <1>2, TypeInvariant, PTL DEF Spec, RunAdvances

-----------------------------------------------------------------------------
(* The credentials_ok flag                                                 *)

\* What makes it inductive: a rejection is on its way only for credentials that
\* the game server does reject.
RejectionsDeserved ==
  \A r \in Runners : reply[r] = "bad_credentials" => snapshot[r] \notin GoodCreds
FlagInv == FlaggedOnlyIfBad /\ RejectionsDeserved

LEMMA AdministerFlags ==
  ASSUME RepoTypeOK, FlaggedOnlyIfBad, Administer
  PROVE  FlaggedOnlyIfBad'
<1> USE RepoAssumption, RedeemerAssumption DEF FlaggedOnlyIfBad, RepoTypeOK, NoAccount
<1>1. \A b \in Accounts : accounts[b] \in AccountRow \union {NoAccount}
  OBVIOUS
<1>2. ASSUME NEW a \in Accounts, NEW k \in Creds, AddAccount(a, k) \/ UpdateCredentials(a, k)
      PROVE  FlaggedOnlyIfBad'
  BY <1>2 DEF AddAccount, UpdateCredentials
<1>3. ASSUME NEW a \in Accounts, NEW on \in BOOLEAN, SetAccountEnabled(a, on)
      PROVE  FlaggedOnlyIfBad'
  BY <1>1, <1>3 DEF SetAccountEnabled, AccountRow
<1>4. ASSUME NEW a \in Accounts, RefreshAccount(a)
      PROVE  FlaggedOnlyIfBad'
  BY <1>1, <1>4 DEF RefreshAccount, SetCredentialsOk, AccountRow
<1>5. ASSUME NEW a \in Accounts, RemoveAccount(a)
      PROVE  FlaggedOnlyIfBad'
  BY <1>5 DEF RemoveAccount
<1>6. ASSUME NEW c \in Codes, NEW scope \in Scopes \ {Absent}, AddCode(c, scope)
      PROVE  FlaggedOnlyIfBad'
  BY <1>6 DEF AddCode
<1>7. QED
  BY <1>2, <1>3, <1>4, <1>5, <1>6 DEF Administer

LEMMA FlagStep ==
  ASSUME TypeOK, Shape, CredentialsKept, FlagInv, [Next]_vars
  PROVE  FlagInv'
<1> USE DEF FlagInv, TypeOK
<1>1. ASSUME NEW r \in Runners, RejectCredentials(r)
      PROVE  FlagInv'
  <2>1. batch[r] \in Accounts /\ snapshot[r] \in Creds \ GoodCreds
    BY <1>1 DEF RejectCredentials, Shape, SubmittingPCs, RejectionsDeserved
  <2>2. accounts[batch[r]].creds \notin GoodCreds
    BY <2>1, RepoAssumption, RedeemerAssumption DEF CredentialsKept
  <2>3. \A b \in Accounts : accounts[b] \in AccountRow \union {NoAccount}
    BY DEF RepoTypeOK
  <2>4. /\ \A b \in Accounts \ {batch[r]} : accounts'[b] = accounts[b]
        /\ accounts'[batch[r]].creds = accounts[batch[r]].creds
    BY <1>1, <2>1, <2>3 DEF RejectCredentials, SetCredentialsOk, RepoTypeOK, AccountRow, NoAccount
  <2>5. FlaggedOnlyIfBad'
    BY <2>2, <2>4 DEF FlaggedOnlyIfBad
  <2>6. RejectionsDeserved'
    BY <1>1, RedeemerAssumption DEF RejectCredentials, NextItem, RejectionsDeserved, Replies
  <2>7. QED
    BY <2>5, <2>6
<1>2. ASSUME NEW r \in Runners, Answer(r)
      PROVE  FlagInv'
  <2>1. FlaggedOnlyIfBad'
    BY <1>2 DEF Answer, FlaggedOnlyIfBad, repoVars
  <2>2. RejectionsDeserved'
    BY <1>2 DEF Answer, RejectionsDeserved
  <2>3. QED
    BY <2>1, <2>2
<1>3. ASSUME UNCHANGED accounts,
             \A r \in Runners : \/ reply'[r] = None
                                \/ reply'[r] = reply[r] /\ snapshot'[r] = snapshot[r]
      PROVE  FlagInv'
  BY <1>3, RedeemerAssumption DEF FlaggedOnlyIfBad, RejectionsDeserved, Replies
<1>4. CASE \E r \in Runners : StartPoll(r) \/ EndPoll(r) \/ Trigger(r) \/ StartRun(r)
                              \/ StartCommand(r) \/ SkipAccount(r) \/ Submit(r)
  BY <1>3, <1>4 DEF StartPoll, EndPoll, Trigger, StartRun, StartCommand, SkipAccount, Submit,
       repoVars
<1>5. CASE \E r \in Runners : EndRun(r) \/ RecordRaises(r) \/ Record(r)
  BY <1>3, <1>5 DEF EndRun, RecordRaises, Stop, Record, RecordRedemption, NextItem, repoVars
<1>6. CASE \E r \in Runners : LoadAccount(r) \/ EndBatch(r)
  BY <1>3, <1>6 DEF LoadAccount, EndBatch, Shape, repoVars
<1>7. CASE CrashService \/ CrashCommand
  BY <1>3, <1>7 DEF CrashService, CrashCommand, Crash, repoVars
<1>8. CASE RedeemIfWork \/ UNCHANGED vars
  BY <1>3, <1>8 DEF RedeemIfWork, vars, runVars, repoVars
<1>9. CASE Operate
  <2>1. UNCHANGED <<reply, snapshot>> /\ Administer
    BY <1>9 DEF Operate, runVars
  <2>2. QED
    BY <2>1, AdministerFlags DEF RejectionsDeserved
<1>10. QED
  BY <1>1, <1>2, <1>4, <1>5, <1>6, <1>7, <1>8, <1>9 DEF Next, RunStep

\* No account is flagged while it holds credentials the game server accepts,
\* provided none is given other credentials under a batch:
\* `stale_credentials` shows that the condition is needed.
THEOREM FlaggedJustly == Spec /\ []CredentialsKept => []FlaggedOnlyIfBad
<1>1. Init => FlagInv
  <2> SUFFICES ASSUME Init
               PROVE  FlagInv
    OBVIOUS
  <2>1. \A a \in Accounts :
          accounts[a] \in [enabled: {TRUE}, credentials_ok: {TRUE}, creds: Creds]
          \/ accounts[a] = NoAccount
    BY DEF Init
  <2>2. FlaggedOnlyIfBad
    <3> SUFFICES ASSUME NEW a \in Accounts, accounts[a].creds \in GoodCreds
                 PROVE  accounts[a].credentials_ok
      BY DEF FlaggedOnlyIfBad
    <3>1. accounts[a] # NoAccount
      BY RepoAssumption, RedeemerAssumption DEF NoAccount
    <3>2. accounts[a] \in [enabled: {TRUE}, credentials_ok: {TRUE}, creds: Creds]
      BY <2>1, <3>1
    <3>3. accounts[a].credentials_ok = TRUE
      BY <3>2
    <3>4. QED
      BY <3>3
  <2>3. RejectionsDeserved
    BY RedeemerAssumption DEF Init, RejectionsDeserved, Replies
  <2>4. QED
    BY <2>2, <2>3 DEF FlagInv
<1>2. TypeOK /\ Shape /\ CredentialsKept /\ FlagInv /\ [Next]_vars => FlagInv'
  BY FlagStep
<1>3. FlagInv => FlaggedOnlyIfBad
  BY DEF FlagInv
<1>4. QED
  BY <1>1, <1>2, <1>3, TypeInvariant, PTL DEF Spec

-----------------------------------------------------------------------------
(* The ledger implements RedemptionQueue                                   *)

\* Only Submit puts an item in flight.
LEMMA ItemSteps ==
  ASSUME TypeOK, [Next]_vars
  PROVE  \/ \E r \in Runners : Submit(r)
         \/ \A q \in Runners : item'[q] \in {item[q], None}
<1> USE DEF TypeOK, runVars, vars
<1>1. CASE \E r \in Runners : EndRun(r) \/ RecordRaises(r)
  BY <1>1 DEF EndRun, RecordRaises, Stop
<1>2. CASE \E r \in Runners : Record(r) \/ RejectCredentials(r)
  BY <1>2 DEF Record, RejectCredentials, NextItem
<1>3. CASE CrashService \/ CrashCommand
  BY <1>3 DEF CrashService, CrashCommand, Crash
<1>4. CASE \E r \in Runners :
             \/ StartPoll(r) \/ EndPoll(r) \/ Trigger(r) \/ StartRun(r) \/ StartCommand(r)
             \/ SkipAccount(r) \/ LoadAccount(r) \/ EndBatch(r) \/ Answer(r)
  BY <1>4 DEF StartPoll, EndPoll, Trigger, StartRun, StartCommand, SkipAccount,
              LoadAccount, EndBatch, Answer
<1>5. CASE RedeemIfWork \/ Operate \/ UNCHANGED vars
  BY <1>5 DEF RedeemIfWork, Operate
<1>6. QED
  BY <1>1, <1>2, <1>3, <1>4, <1>5 DEF Next, RunStep

LEMMA QueueInit == Init => Queue!QInit
<1> SUFFICES ASSUME Init
             PROVE  Queue!QInit
  OBVIOUS
<1>1. Submitting = {}
  BY DEF Init, Submitting
<1>2. \A p \in Pairs : redemptions[p].attempts = 0 /\ 0 \in 0 .. MaxAttempts
  BY RepoAssumption DEF Init, NoRow
<1>3. QueueEntry \in [Pairs -> [attempts: 0 .. MaxAttempts, closed: BOOLEAN]]
  BY <1>2 DEF QueueEntry
<1>4. QED
  BY <1>1, <1>3 DEF Queue!QInit

LEMMA QueueStep ==
  ASSUME TypeOK, Shape, LockHeld, LedgerInv, CommandsAlone, [Next]_vars
  PROVE  [Queue!QNext]_(Queue!queueVars)
<1>1. ASSUME NEW r \in Runners, Submit(r)
      PROVE  Queue!QNext
  <2> DEFINE p == item'[r]
  <2>1. /\ p \in work[r]
        /\ item' = [item EXCEPT ![r] = p]
        /\ pc[r] = "batch"
        /\ UNCHANGED redemptions
    BY <1>1 DEF Submit, ItemsOf, TypeOK, repoVars
  <2>2. p \in Pairs /\ OpenRow(redemptions[p])
    BY <2>1 DEF LedgerInv, WorkStillOpen, TypeOK
  <2>3. \A q \in Runners : item[q] = None
    BY <2>1, Alone DEF RunPCs, Shape, SubmittingPCs
  <2>4. Submitting = {}
    BY <2>3 DEF Submitting
  <2>5. item'[r] = p /\ p # None /\ \A q \in Runners \ {r} : item'[q] = None
    BY <2>1, <2>2, <2>3, RedeemerAssumption DEF TypeOK
  <2>6. Submitting' = {p}
    BY <2>5 DEF Submitting
  <2>7. QueueEntry' = QueueEntry
    BY <2>1 DEF QueueEntry
  <2>8. ~QueueEntry[p].closed /\ QueueEntry[p].attempts < MaxAttempts
    BY <2>2, OpenRowFacts DEF QueueEntry, TypeOK
  <2>9. Queue!Begin(p)
    BY <2>4, <2>6, <2>7, <2>8 DEF Queue!Begin
  <2>10. QED
    BY <2>2, <2>9 DEF Queue!QNext
<1>2. ASSUME NEW r \in Runners, Record(r)
      PROVE  Queue!QNext
  <2> DEFINE p == item[r]
             s == IF reply[r] = "error" THEN "failed" ELSE reply[r]
  <2>1. p \in Pairs /\ pc[r] = "answered"
    BY <1>2 DEF Record, Shape, SubmittingPCs, TypeOK
  <2>2. \A q \in Runners \ {r} : item[q] = None
    BY <2>1, Alone DEF RunPCs
  <2>3. Submitting = {p}
    BY <2>1, <2>2, RedeemerAssumption DEF Submitting
  <2>4. \A q \in Runners : item'[q] = None
    BY <1>2, <2>2 DEF Record, NextItem, TypeOK
  <2>5. Submitting' = {}
    BY <2>4 DEF Submitting
  <2>6. redemptions' = [redemptions EXCEPT
                          ![p] = [status |-> s, attempts |-> redemptions[p].attempts + 1]]
    BY <1>2, <2>1 DEF Record, RecordRedemption, TypeOK, RepoTypeOK
  <2>7. QueueEntry' = [QueueEntry EXCEPT
                         ![p] = [attempts |-> redemptions[p].attempts + 1,
                                 closed |-> s \in Terminal]]
    BY <2>1, <2>6 DEF QueueEntry, TypeOK, RepoTypeOK
  <2>8. QueueEntry[p].attempts = redemptions[p].attempts
    BY <2>1 DEF QueueEntry
  <2>9. Queue!Finish(p, s \in Terminal)
    BY <2>3, <2>5, <2>7, <2>8 DEF Queue!Finish
  <2>10. (s \in Terminal) \in BOOLEAN
    OBVIOUS
  <2>11. \E closes \in BOOLEAN : Queue!Finish(p, closes)
    BY <2>9, <2>10, Zenon
  <2>12. QED
    BY <2>1, <2>11, Zenon DEF Queue!QNext
<1>3. ASSUME Operate
      PROVE  Queue!QNext
  <2> DEFINE S == {p \in Pairs : redemptions'[p] = NoRow}
  <2>1. \A p \in Pairs : redemptions'[p] \in {redemptions[p], NoRow}
    BY <1>3, AdministerRows DEF Operate, TypeOK
  <2>2. Submitting' = Submitting
    BY <1>3 DEF Operate, runVars, Submitting
  <2>3. \A p \in Pairs :
          [attempts |-> redemptions'[p].attempts, closed |-> redemptions'[p].status \in Terminal]
            = IF p \in S THEN Queue!Fresh ELSE QueueEntry[p]
    <3>1. [attempts |-> NoRow.attempts, closed |-> NoRow.status \in Terminal] = Queue!Fresh
      <4>1. NoRow.attempts = 0 /\ NoRow.status \notin Terminal
        BY DEF NoRow, Terminal
      <4>2. (NoRow.status \in Terminal) = FALSE
        BY <4>1
      <4>3. QED
        BY <4>1, <4>2 DEF Queue!Fresh
    <3>2. QED
      BY <2>1, <3>1 DEF QueueEntry
  <2>4. QueueEntry' = [p \in Pairs |-> IF p \in S THEN Queue!Fresh ELSE QueueEntry[p]]
    BY <2>3 DEF QueueEntry
  <2>5. Queue!Forget(S)
    BY <2>2, <2>4 DEF Queue!Forget
  <2>6. QED
    BY <2>5 DEF Queue!QNext
<1>4. ASSUME UNCHANGED redemptions, \A q \in Runners : item'[q] \in {item[q], None}
      PROVE  [Queue!QNext]_(Queue!queueVars)
  <2>1. QueueEntry' = QueueEntry
    BY <1>4 DEF QueueEntry
  <2>2. CASE \A q \in Runners : item[q] = None
    BY <1>4, <2>1, <2>2 DEF Submitting, Queue!queueVars
  <2>3. ASSUME NEW r \in Runners, item[r] # None
        PROVE  [Queue!QNext]_(Queue!queueVars)
    <3>1. \A q \in Runners \ {r} : item[q] = None
      BY <2>3, Alone DEF Shape, RunPCs, SubmittingPCs
    <3>2. CASE item'[r] = item[r]
      <4>1. Submitting' = Submitting
        BY <1>4, <3>1, <3>2 DEF Submitting
      <4>2. QED
        BY <2>1, <4>1 DEF Queue!queueVars
    <3>3. CASE item'[r] = None
      <4>1. Submitting # {} /\ Submitting' = {}
        BY <1>4, <2>3, <3>1, <3>3 DEF Submitting
      <4>2. QED
        BY <2>1, <4>1 DEF Queue!Abandon, Queue!QNext
    <3>4. QED
      BY <1>4, <3>2, <3>3
  <2>4. QED
    BY <2>2, <2>3
<1>5. QED
  BY <1>1, <1>2, <1>3, <1>4, LedgerSteps, ItemSteps

\* The ledger is the queue the README promises: one attempt at a time, only
\* on open pairs, each counted, and nothing closed is attempted again, as long
\* as commands keep apart from other runs.
THEOREM LedgerIsQueue == Spec /\ []CommandsAlone => ImplementsQueue
<1>1. TypeOK /\ Shape /\ LockHeld /\ LedgerInv /\ CommandsAlone /\ [Next]_vars
        => [Queue!QNext]_(Queue!queueVars)
  BY QueueStep
<1>2. Spec /\ []CommandsAlone => [](TypeOK /\ Shape /\ LockHeld /\ LedgerInv)
  BY TypeInvariant, LockInvariant, LedgerInvariant, PTL
<1>3. QED
  BY <1>1, <1>2, QueueInit, PTL DEF Spec, ImplementsQueue, Queue!QSpec
=============================================================================
