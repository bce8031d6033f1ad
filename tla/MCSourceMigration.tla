-------------------------- MODULE MCSourceMigration --------------------------
(***************************************************************************)
(* Instances of SourceMigration for TLC.                                   *)
(***************************************************************************)
EXTENDS SourceMigration

CONSTANTS a1, b1, c1, c2
=============================================================================
