----------------------------- MODULE MCMigrate -----------------------------
(* The migrations of the repository: three files, the second idempotent.    *)
EXTENDS Migrate

=============================================================================
