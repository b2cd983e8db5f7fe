---------------------------- MODULE MCWritePath ----------------------------
(***************************************************************************)
(* Small instances of WritePath: two servers on one database file, the     *)
(* first of them serving all requests but r2, and the bodies each request *)
(* draws from.                                                              *)
(***************************************************************************)
EXTENDS WritePath

CONSTANTS r1, r2, r3, s1, s2, k1, k2, h1, h2, fixed, wontfix

MCServerOf == [r \in Requests |-> IF r = r2 THEN s2 ELSE s1]
MCTimes == 0..2

Submit(key, hash) == [op |-> "submit", key |-> key, hash |-> hash]
Mark(ids, resolution) ==
    [op |-> "process", ids |-> ids, processed |-> TRUE, resolution |-> resolution]
Unmark(ids) ==
    [op |-> "process", ids |-> ids, processed |-> FALSE, resolution |-> Null]

(* Competing submissions on two servers, one key with two contents and one *)
(* friction, and batches over ids that exist and ids that do not, with     *)
(* resolutions that replace each other.  r1 and r3 share a connection; r1  *)
(* is sent again when it fails.                                            *)
MCInputs == [r \in Requests |->
    CASE r = r1 -> {Submit(k1, h1), Submit(NoKey, h1)}
      [] r = r2 -> {Submit(k1, h2), Submit(NoKey, h1), Mark({1}, fixed), Mark({1}, wontfix)}
      [] r = r3 -> {Submit(k1, h1), Mark({1, 2}, fixed), Mark({1}, Null), Unmark({1})}]

MCAttempts == [r \in Requests |-> IF r = r1 THEN 2 ELSE 1]
============================================================================
