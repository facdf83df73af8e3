---------------------------- MODULE MCMigrations ----------------------------
(* Three operators, each free to run one command after another.            *)
EXTENDS Migrations

CONSTANTS ana, ben, eva
=============================================================================
