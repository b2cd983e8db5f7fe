-------------------------- MODULE MCFrictionRetry --------------------------
(***************************************************************************)
(* Reports that all have one content.  The window is 5 units of time, the  *)
(* spool keeps a file for 2, and a client's timeout, a flush and a         *)
(* request's journey last at most 1 each: that the four just fit into the  *)
(* window is what matters, not the proportions of 24 h, 20 h and seconds.  *)
(***************************************************************************)
EXTENDS FrictionRetry, TLC

CONSTANTS h1

MCContent == [r \in Reports |-> h1]
MCSymmetry == Permutations(Reports) \cup Permutations(Flushers)
MCTimes == 0..Horizon

(* The durations of this instance are safe ones.                           *)
ASSUME InstanceIsSafe == SafeDurations
============================================================================
