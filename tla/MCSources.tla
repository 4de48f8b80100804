------------------------------ MODULE MCSources ------------------------------
(* Model checking of Sources: one feed of each kind.                       *)
EXTENDS Sources, TLC

CONSTANTS channel, mailbox, page, c1, c2, k1, service, command

MCOwner == [m \in {mailbox} |-> 1]

MCRegistry == <<{channel}, {mailbox}, {page}>>

\* Personal and public scopes of a code meet in both orders, channel and mailbox
\* can have a backlog beyond the limit, and the channel has a message without a
\* code.
MCContent ==
  (channel :> <<{c1}, {}, {c2}>>) @@ (mailbox :> <<{c2}, {c1}>>) @@ (page :> <<{c1}>>)
=============================================================================
