---------------------------- MODULE MCNotesExample ----------------------------
(* NotesExample with two tenants. *)
EXTENDS NotesExample

CONSTANTS a, b

\* One UUID in two spellings, another one, and a text that is no UUID.
Parsed == [id \in {"a", "A", "b", "acme"} |->
              IF id = "acme" THEN NoTenant ELSE IF id = "b" THEN b ELSE a]
===============================================================================
