---------------------------- MODULE MCOvertaking ----------------------------
EXTENDS Overtaking, TLC
TaskSymmetry == Permutations(Tasks)
=============================================================================
