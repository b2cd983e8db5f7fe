----------------------------- MODULE MCServing -----------------------------
(***************************************************************************)
(* Two requests that read and want the one connection of the pool, a write *)
(* and a probe; one kill, failed listener or loss of power; two starts and *)
(* a maintenance command.                                                  *)
(***************************************************************************)
EXTENDS Serving
============================================================================
