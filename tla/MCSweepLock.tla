---------------------------- MODULE MCSweepLock ----------------------------
(***************************************************************************)
(* Three sweeps: one that is killed and leaves its lock, and two that may  *)
(* reclaim it.                                                             *)
(***************************************************************************)
EXTENDS SweepLock
============================================================================
