---------------------------- MODULE MCTaskQueue -----------------------------
(***************************************************************************)
(* The queue for TLC.  Two bounds share one run: up to three tasks of any  *)
(* kind, so that heaps compete for the list, or up to six tasks of one     *)
(* kind, so that a heap is deep enough for the node that fills a hole to   *)
(* have to move up.  Tasks enter in the order of their numbers, which      *)
(* leaves out no queue but those that only rename its tasks.               *)
(***************************************************************************)
EXTENDS CoreSchedule

Names == {q.task : q \in Queued}
Slow == {q \in Queued : q.time # Min(Times)}

Wide == cur_count <= 3 /\ sum_count <= 4 /\ Cardinality(Slow) <= 1

Deep == Slow = {} /\ \A q \in Queued : q.kind = <<1, 0>> /\ q.priority <= 1

InOrder == \A t \in Names' \ Names : \A u \in 1 .. t - 1 : u \in Names

MCSpec == Init /\ [][Next /\ (Wide' \/ Deep') /\ InOrder]_vars
=============================================================================
