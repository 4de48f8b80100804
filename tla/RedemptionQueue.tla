-------------------------- MODULE RedemptionQueue ---------------------------
(***************************************************************************)
(* What the redemption ledger promises, whoever works on it: a set of      *)
(* (account, code) pairs, each attempted at most MaxAttempts times, one    *)
(* attempt at a time, and never again once it is closed.                   *)
(*                                                                         *)
(* The README states it for the user ("a code is never submitted twice for *)
(* the same account"), models.py for the statuses ("Terminal states are    *)
(* never retried; retryable ones are picked up again on a later tick until *)
(* max_redeem_attempts is reached") and service.py for the runs ("two      *)
(* overlapping redeem runs would double-submit the same code").            *)
(***************************************************************************)
EXTENDS Naturals

CONSTANTS
  QPairs,         \* the pairs
  QMax            \* attempts allowed per pair

VARIABLES
  entry,          \* [QPairs -> [attempts, closed]]
  inflight        \* the pairs being submitted at this moment

queueVars == <<entry, inflight>>

Fresh == [attempts |-> 0, closed |-> FALSE]

QInit ==
  /\ entry \in [QPairs -> [attempts: 0 .. QMax, closed: BOOLEAN]]
  /\ inflight = {}

\* An attempt starts on an open pair, and only while nothing else is in flight.
Begin(p) ==
  /\ ~entry[p].closed
  /\ entry[p].attempts < QMax
  /\ inflight = {}
  /\ inflight' = {p}
  /\ UNCHANGED entry

\* It ends with the outcome on file: the pair is closed, or may be retried.
Finish(p, closes) ==
  /\ p \in inflight
  /\ entry' = [entry EXCEPT ![p] = [attempts |-> @.attempts + 1, closed |-> closes]]
  /\ inflight' = inflight \ {p}

\* It ends with nothing on file: rejected credentials, a vanished row, a crash.
Abandon ==
  /\ inflight # {}
  /\ inflight' = {}
  /\ UNCHANGED entry

\* The history of a removed account or code is forgotten.
Forget(S) ==
  /\ entry' = [p \in QPairs |-> IF p \in S THEN Fresh ELSE entry[p]]
  /\ UNCHANGED inflight

QNext ==
  \/ \E p \in QPairs : Begin(p) \/ \E closes \in BOOLEAN : Finish(p, closes)
  \/ Abandon
  \/ \E S \in SUBSET QPairs : Forget(S)

QSpec == QInit /\ [][QNext]_queueVars
=============================================================================
