--------------------------- MODULE MCProcessExit ---------------------------
(* An instance of ProcessExit: two processes that compete for the cores of one device. *)
EXTENDS ProcessExit, TLC
CONSTANTS h1, h2

Pair == {h1, h2}

BothAndFirst == (h1 :> {{0, 1}} @@ h2 :> {{0}})
Once == (h1 :> 1 @@ h2 :> 1)
NoCancel == (h1 :> 0 @@ h2 :> 0)
=============================================================================
