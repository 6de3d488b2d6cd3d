---------------------------- MODULE MCMemoryHeap ----------------------------
(***************************************************************************)
(* The heap for TLC: at most one allocation fails half way, and at most    *)
(* one of the nodes in use is empty (a request of size 0 is not refused).  *)
(***************************************************************************)
EXTENDS MemoryHeap, TLC

HandleSymmetry == Permutations(Handles)

Empty == {n \in Nodes : nodes[n].status # "INIT" /\ nodes[n].size = 0}

Bounded == Cardinality(lost) <= 1 /\ Cardinality(Empty) <= 1

MCSpec == Init /\ [][Next /\ Bounded']_vars
=============================================================================
