--------------------------- MODULE MCMigrationScan ---------------------------
(* MigrationScan on all short files of a few tokens. *)
EXTENDS MigrationScan

Ascii == {"CREATE POLICY", "FOR SELECT", "WITH CHECK", "--", ";", "space", "newline"}
===============================================================================
