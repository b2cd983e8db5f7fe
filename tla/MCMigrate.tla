----------------------------- MODULE MCMigrate -----------------------------
(***************************************************************************)
(* Two processes of one release and one of an older release, on a file     *)
(* none of them has opened.                                                *)
(***************************************************************************)
EXTENDS Migrate

CONSTANTS new1, new2, old

MCKnown == [p \in Processes |-> IF p = old THEN 1 ELSE 2]
============================================================================
