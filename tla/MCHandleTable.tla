--------------------------- MODULE MCHandleTable ---------------------------
(* The tables with few slots, so that they fill, expand and reuse slots.   *)
EXTENDS HandleTable

Symmetry == Permutations(Process) \cup Permutations(Handle)
=============================================================================
