----------------------------- MODULE MCRedeemer -----------------------------
(* Model checking of Redeemer: model values and their symmetry.            *)
EXTENDS Redeemer, TLC

CONSTANTS cycle, web, web2, command, c1, c2, k1, k2, k3

\* Credentials and codes are interchangeable; account ids are not, because
\* SQLite orders them.
Symmetry == Permutations(Codes) \union Permutations(GoodCreds)
              \union Permutations(Creds \ GoodCreds)
=============================================================================
