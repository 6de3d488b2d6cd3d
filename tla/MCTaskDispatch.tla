--------------------------- MODULE MCTaskDispatch ---------------------------
(***************************************************************************)
(* Instances of TaskDispatch: h1 needs both cores or one of them, h2 one   *)
(* core, so that their tasks compete.                                      *)
(***************************************************************************)
EXTENDS TaskDispatch, TLC
CONSTANTS h1, h2

Pair == {h1, h2}
OnlyH1 == {h1}

FirstAndSecond == (h1 :> {{0}} @@ h2 :> {{1}})
BothAndSecond == (h1 :> {{0, 1}} @@ h2 :> {{1}})
BothAndFirst  == (h1 :> {{0, 1}} @@ h2 :> {{0}})
OneCore     == (h1 :> {{0}})

Resubmit == (h1 :> 2 @@ h2 :> 1)
Once == (h1 :> 1 @@ h2 :> 1)
OnceH1 == (h1 :> 1)
TwiceH1 == (h1 :> 2)

NoCancel == (h1 :> 0 @@ h2 :> 0)
CancelH1 == (h1 :> 1 @@ h2 :> 0)
CancelOnly == (h1 :> 1)

(* Three bounds share one run: h1 submits twice, for both cores, or once,  *)
(* for the first, next to a task on the second core; or it submits once,   *)
(* for both cores, and is cancelled, next to a task on the first core.     *)
OneOrBothAndEither == (h1 :> {{0}, {0, 1}} @@ h2 :> {{0}, {1}})

WithCores(cores) == \A s \in Slots : tcb[s].task \in Pair => tcb[s].cores \in cores[tcb[s].task]

Resubmitting == WithCores(BothAndSecond) /\ cancel_found = {} /\ ~hw_cancel
SideBySide == WithCores(FirstAndSecond) /\ user[h1].left >= 1 /\ cancel_found = {} /\ ~hw_cancel
Cancelling == WithCores(BothAndFirst) /\ user[h1].left >= 1

Bounds == Resubmitting \/ SideBySide \/ Cancelling
=============================================================================
