---------------------------- MODULE MCKeyedSpool ----------------------------
(* Instances of KeyedSpool, with one run that cannot be sent in time.      *)
EXTENDS KeyedSpool, TLC

CONSTANTS r1, e1, n1, n2, c1, c2

Symmetry == Permutations(Names) \cup Permutations(Clients)
NoSlow == {}
OutputsSlow == {[key |-> r1, content |-> <<1, TRUE>>]}
============================================================================
