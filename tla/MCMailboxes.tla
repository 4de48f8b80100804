---------------------------- MODULE MCMailboxes ----------------------------
(* Model checking of Mailboxes: a Microsoft mailbox and one with a password. *)
EXTENDS Mailboxes, TLC

CONSTANTS outlook, imap, service, command
=============================================================================
