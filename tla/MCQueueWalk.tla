---------------------------- MODULE MCQueueWalk ----------------------------
(***************************************************************************)
(* A small queue: one walker at a time makes passes of every kind the      *)
(* clients have, with pages of one and two rows.                           *)
(***************************************************************************)
EXTENDS QueueWalk

CONSTANTS w1

Pass(payload, size) ==
    [open |-> TRUE, payload |-> payload, size |-> size, cap |-> 0,
     firstTotal |-> FALSE, marks |-> FALSE]

(* process.sh list, its --include-processed with --limit, digest.sh, and   *)
(* the draining loop of docs/api.md.                                       *)
List == Pass(FALSE, 2)
ListLimited == [List EXCEPT !.open = FALSE, !.cap = 3]
Digest == [Pass(TRUE, 2) EXCEPT !.firstTotal = TRUE]
Drain == [Pass(TRUE, 1) EXCEPT !.marks = TRUE]

MCQueries == {List, ListLimited, Digest, Drain}
============================================================================
