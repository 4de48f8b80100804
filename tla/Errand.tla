-------------------------------- MODULE Errand --------------------------------
(***************************************************************************)
(* What the callers of a game session rely on (redeemer.py and chests.py,  *)
(* which await its calls and know nothing of servers and instance ids): a  *)
(* client is asked for so many things, makes them in batches, and learns   *)
(* of one batch before it tries the next.  An errand that ends badly       *)
(* leaves at most the last batch in doubt, one that gave up leaves none.   *)
(***************************************************************************)
EXTENDS Naturals

CONSTANTS
  EClients,
  EMax,           \* most things asked for at once
  ECap            \* size of a batch

VARIABLES
  stage,          \* [EClients -> Ends or "busy"]
  asked,          \* [EClients -> 0 .. EMax]
  made,           \* [EClients -> how many there are]
  known           \* [EClients -> how many the client knows of]

errandVars == <<stage, asked, made, known>>

Ends == {"idle", "done", "failed", "gaveUp"}

EInit ==
  /\ stage = [c \in EClients |-> "idle"]
  /\ asked = [c \in EClients |-> 0]
  /\ made = [c \in EClients |-> 0]
  /\ known = [c \in EClients |-> 0]

Take(c, n) ==
  /\ stage[c] \in Ends
  /\ stage' = [stage EXCEPT ![c] = "busy"]
  /\ asked' = [asked EXCEPT ![c] = n]
  /\ made' = [made EXCEPT ![c] = 0]
  /\ known' = [known EXCEPT ![c] = 0]

Make(c) ==
  /\ stage[c] = "busy"
  /\ made[c] = known[c]
  /\ \E n \in 1 .. ECap : /\ made[c] + n <= asked[c]
                          /\ made' = [made EXCEPT ![c] = @ + n]
  /\ UNCHANGED <<stage, asked, known>>

Learn(c) ==
  /\ stage[c] = "busy"
  /\ made[c] # known[c]
  /\ known' = [known EXCEPT ![c] = made[c]]
  /\ stage' = [stage EXCEPT ![c] = IF made[c] = asked[c] THEN "done" ELSE "busy"]
  /\ UNCHANGED <<asked, made>>

End(c, e) ==
  /\ stage[c] = "busy"
  /\ e = "done" => known[c] = asked[c]
  /\ e = "gaveUp" => known[c] = made[c]
  /\ stage' = [stage EXCEPT ![c] = e]
  /\ UNCHANGED <<asked, made, known>>

ENext ==
  \E c \in EClients :
    \/ \E n \in 0 .. EMax : Take(c, n)
    \/ Make(c) \/ Learn(c)
    \/ \E e \in Ends : End(c, e)

ESpec == EInit /\ [][ENext]_errandVars
=============================================================================
