-------------------------------- MODULE Repo --------------------------------
(***************************************************************************)
(* The database of icr as the redeemer sees it: the accounts, codes and    *)
(* redemptions tables, and the operations of db/repo.py on them.  Every    *)
(* operation is one SQLite transaction (BEGIN IMMEDIATE ... COMMIT), so    *)
(* each is one atomic action whichever process runs it.                    *)
(*                                                                         *)
(* A code is identified with its row.  An account is its row id: ids are   *)
(* INTEGER PRIMARY KEY without AUTOINCREMENT, so SQLite gives a new row    *)
(* the largest id in use plus one, and the id of a removed last account    *)
(* comes back with the next account.                                       *)
(***************************************************************************)
EXTENDS Naturals

CONSTANTS
  NumAccounts,   \* bound: account ids are 1 .. NumAccounts
  Codes,         \* the codes that may ever be put on file
  Creds,         \* game credentials: one (user_id, user_hash) pair each
  NoCreds,       \* the credentials column of a row that does not exist
  Absent,        \* scope of a code that is not on file
  Public,        \* scope of a code offered to every account (account_id NULL)
  MaxAttempts    \* settings.max_redeem_attempts

Accounts == 1 .. NumAccounts

ASSUME RepoAssumption ==
  /\ NumAccounts \in Nat
  /\ MaxAttempts \in Nat \ {0}
  /\ NoCreds \notin Creds
  /\ Absent # Public
  /\ Absent \notin Accounts
  /\ Public \notin Accounts

VARIABLES
  accounts,      \* [Accounts -> account row]
  codes,         \* [Codes -> scope]: Absent, Public or the owning account
  redemptions    \* [Pairs -> ledger row]

repoVars == <<accounts, codes, redemptions>>

-----------------------------------------------------------------------------
Pairs == Accounts \X Codes

AccountRow == [enabled: BOOLEAN, credentials_ok: BOOLEAN, creds: Creds]
NoAccount == [enabled |-> FALSE, credentials_ok |-> FALSE, creds |-> NoCreds]

Scopes == {Absent, Public} \union Accounts

\* What a redeemcoupon call may settle a code with.  "refused" stands for
\* already_redeemed, expired, invalid (not_valid_combo) and cannot_redeem,
\* which every part of the program treats alike except in its wording.
Terminal == {"success", "refused"}

\* The retryable statuses that are ever written: "pending" is in the code's
\* list but no statement stores it.
Retryable == {"failed"}

NoRow == [status |-> "none", attempts |-> 0]
RedemptionRow == [status: Terminal \union Retryable, attempts: Nat]

Exists(a) == accounts[a].creds # NoCreds

RepoTypeOK ==
  /\ accounts \in [Accounts -> AccountRow \union {NoAccount}]
  /\ codes \in [Codes -> Scopes]
  /\ redemptions \in [Pairs -> RedemptionRow \union {NoRow}]

-----------------------------------------------------------------------------
(* The work queue                                                          *)

\* A bug: the retry ceiling is checked with <=.
OpenRowOffByOne(row) ==
  \/ row = NoRow
  \/ /\ row.status \in Retryable
     /\ row.attempts <= MaxAttempts

\* A pair the ledger still allows to be attempted.
OpenRow(row) ==
  \/ row = NoRow
  \/ /\ row.status \in Retryable
     /\ row.attempts < MaxAttempts

Redeemable(a) == accounts[a].enabled /\ accounts[a].credentials_ok

InScope(a, c) == codes[c] \in {Public, a}

OutstandingWork ==
  {p \in Pairs : /\ Redeemable(p[1])
                 /\ InScope(p[1], p[2])
                 /\ OpenRow(redemptions[p])}

\* A bug: the INSERT leaves attempts at the column's DEFAULT 0.
RecordUncounted(p, s) ==
  /\ Exists(p[1]) /\ codes[p[2]] # Absent
  /\ redemptions' = [redemptions EXCEPT
                       ![p] = [status |-> s,
                               attempts |-> IF @ = NoRow THEN 0 ELSE @.attempts + 1]]
  /\ UNCHANGED <<accounts, codes>>

\* record_redemption: the upsert of one ledger row.  Any earlier status is
\* overwritten.  Its foreign keys require both parent rows.
CanRecord(p) == Exists(p[1]) /\ codes[p[2]] # Absent

RecordRedemption(p, s) ==
  /\ CanRecord(p)
  /\ redemptions' = [redemptions EXCEPT
                       ![p] = [status |-> s, attempts |-> @.attempts + 1]]
  /\ UNCHANGED <<accounts, codes>>

\* UPDATE ... WHERE id = ?: no row, no effect.
SetCredentialsOk(a, ok) ==
  /\ accounts' = IF Exists(a) THEN [accounts EXCEPT ![a].credentials_ok = ok]
                              ELSE accounts
  /\ UNCHANGED <<codes, redemptions>>

-----------------------------------------------------------------------------
(* What the operator does, from the web pages or another process           *)

IsNewRowId(a) ==
  /\ \A b \in Accounts : Exists(b) => b < a
  /\ a # 1 => Exists(a - 1)

AddAccount(a, k) ==
  /\ IsNewRowId(a)
  /\ \A b \in Accounts : accounts[b].creds # k        \* UNIQUE (user_id, user_hash)
  /\ accounts' = [accounts EXCEPT
                    ![a] = [enabled |-> TRUE, credentials_ok |-> TRUE, creds |-> k]]
  /\ UNCHANGED <<codes, redemptions>>

SetAccountEnabled(a, on) ==
  /\ Exists(a)
  /\ accounts' = [accounts EXCEPT ![a].enabled = on]
  /\ UNCHANGED <<codes, redemptions>>

UpdateCredentials(a, k) ==
  /\ Exists(a)
  /\ \A b \in Accounts \ {a} : accounts[b].creds # k
  /\ accounts' = [accounts EXCEPT ![a] = [enabled |-> @.enabled,
                                          credentials_ok |-> TRUE, creds |-> k]]
  /\ UNCHANGED <<codes, redemptions>>

\* `icr account refresh`: the inventory call it made was accepted.
RefreshAccount(a) ==
  /\ Exists(a)
  /\ SetCredentialsOk(a, TRUE)

\* A bug: removal forgets to clear the flags, as a soft delete would.
RemoveAccountSoftly(a) ==
  /\ Exists(a)
  /\ accounts' = [accounts EXCEPT ![a].creds = NoCreds]
  /\ UNCHANGED <<codes, redemptions>>

\* ON DELETE CASCADE: the account's personal codes go with it, and every
\* redemption of either.
RemoveAccount(a) ==
  /\ Exists(a)
  /\ accounts' = [accounts EXCEPT ![a] = NoAccount]
  /\ codes' = [c \in Codes |-> IF codes[c] = a THEN Absent ELSE codes[c]]
  /\ redemptions' = [p \in Pairs |-> IF p[1] = a \/ codes[p[2]] = a
                                     THEN NoRow ELSE redemptions[p]]

\* add_code: a new code takes the scope it arrives with; one already on file
\* is only ever widened to Public.  The foreign key is looked at only when
\* there is a row to insert.
CanAddCode(c, scope) == codes[c] = Absent /\ scope \in Accounts => Exists(scope)

\* A bug: an upsert that takes the scope of the latest arrival.
AddCodeRescoping(c, scope) ==
  /\ codes[c] = Absent /\ scope \in Accounts => Exists(scope)
  /\ codes' = [codes EXCEPT ![c] = scope]
  /\ UNCHANGED <<accounts, redemptions>>

AddCode(c, scope) ==
  /\ CanAddCode(c, scope)
  /\ codes' = IF codes[c] = Absent \/ scope = Public
              THEN [codes EXCEPT ![c] = scope] ELSE codes
  /\ UNCHANGED <<accounts, redemptions>>

\* Any one of them.
Administer ==
  \/ \E a \in Accounts, k \in Creds : AddAccount(a, k) \/ UpdateCredentials(a, k)
  \/ \E a \in Accounts, on \in BOOLEAN : SetAccountEnabled(a, on)
  \/ \E a \in Accounts : RefreshAccount(a) \/ RemoveAccount(a)
  \/ \E c \in Codes, scope \in Scopes \ {Absent} : AddCode(c, scope)
=============================================================================
