---------------------------- MODULE MCMigration ----------------------------
(* Instances of Migration for TLC.                                         *)
EXTENDS Migration

CONSTANTS t1, t2
==============================================================================
