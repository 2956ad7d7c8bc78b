---------------------------- MODULE MCMigration ----------------------------
(***************************************************************************)
(* Migration for TLC: two streams of up to two packets and batches of two, *)
(* so that the backfill takes several and is killed between and within     *)
(* them, twice.                                                            *)
(***************************************************************************)
EXTENDS Migration
=============================================================================
