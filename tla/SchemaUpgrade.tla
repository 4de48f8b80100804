---------------------------- MODULE SchemaUpgrade ----------------------------
(***************************************************************************)
(* What migrate promises, whoever opens the database ("Apply every         *)
(* migration not yet recorded", db/__init__.py): the versions recorded are *)
(* the first so many, one more at a time and never one less; and whoever   *)
(* uses the database finds those of its own release.                       *)
(***************************************************************************)
EXTENDS Naturals

CONSTANTS
  ULast,          \* number of migrations
  Users,          \* processes
  Needs           \* [Users -> the last migration its release knows]

VARIABLES
  applied,        \* the versions recorded
  using           \* the processes that have the database open

upgradeVars == <<applied, using>>

UInit ==
  /\ \E n \in 0 .. ULast : applied = 1 .. n
  /\ using = {}

Apply(n) ==
  /\ applied = 1 .. n
  /\ applied' = 1 .. (n + 1)
  /\ UNCHANGED using

Enter(u) ==
  /\ 1 .. Needs[u] \subseteq applied
  /\ using' = using \union {u}
  /\ UNCHANGED applied

Quit(u) ==
  /\ using' = using \ {u}
  /\ UNCHANGED applied

UNext ==
  \/ \E n \in 0 .. (ULast - 1) : Apply(n)
  \/ \E u \in Users : Enter(u) \/ Quit(u)

USpec == UInit /\ [][UNext]_upgradeVars
=============================================================================
