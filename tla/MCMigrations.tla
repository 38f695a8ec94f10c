---------------------------- MODULE MCMigrations ----------------------------
(* Small instances of Migrations for TLC. *)
EXTENDS Migrations

CONSTANTS r1, r2, r3

ThreeReplicas == {r1, r2, r3}
=============================================================================
