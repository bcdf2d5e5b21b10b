---------------------------- MODULE MCMigration ----------------------------
(* Root module of the model-checking runs about a whole migration.        *)
EXTENDS Migration
=============================================================================
