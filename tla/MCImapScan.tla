------------------------------ MODULE MCImapScan ------------------------------
(* Model checking of ImapScan: one folder, or two.                         *)
EXTENDS ImapScan

CONSTANTS inbox, promotions, m1, m2, m3, m4, service

MCHome == [m \in Messages |-> IF m = m4 THEN promotions ELSE inbox]
=============================================================================
