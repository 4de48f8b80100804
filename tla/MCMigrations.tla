---------------------------- MODULE MCMigrations ----------------------------
(* Model checking of Migrations: the two scripts there are, and a command   *)
(* of the release before beside the service and a command of this one.      *)
EXTENDS Migrations, TLC

CONSTANTS service, command, old

\* Statements of 001_init.sql and 002_email_source.sql.
MCSize == <<6, 4>>

MCRelease == (service :> 2) @@ (command :> 2) @@ (old :> 1)
=============================================================================
