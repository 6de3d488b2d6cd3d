------------------------------ MODULE TaskPool ------------------------------
(***************************************************************************)
(* What the task queue of a device promises, without its data structure:   *)
(* a bag of tasks waiting for cores, from which the daemon thread reads    *)
(* the best one that the free cores can serve.  vip_drv_util.c keeps the   *)
(* tasks in one binary heap per kind and the non-empty heaps in a linked   *)
(* list; here the waiting tasks are a set, "the head of a heap" is the     *)
(* best entry of a kind and "the list order" is the order of the heads.    *)
(* TaskQueue.tla models the heaps and the list and implements this module. *)
(*                                                                         *)
(* A kind <<n, c>> is a task that needs n consecutive cores from core c    *)
(* (task.core_cnt and task.core_index in the code).                        *)
(***************************************************************************)
EXTENDS Integers, FiniteSets

CONSTANTS Tasks,             \* the tasks (queue_data objects, one per TCB slot)
          NCores,            \* device->hardware_count
          MaxPriority,       \* priorities are 0..MaxPriority (a byte in the code)
          MAX_PRIORITY_GAP,
          MAX_PREEMPT_COUNT,
          MaxIndex           \* bound: writes between two moments the queue is empty

ASSUME PoolAssumption ==
  /\ NCores \in Nat \ {0}
  /\ MaxPriority \in Nat
  /\ MAX_PRIORITY_GAP \in Nat
  /\ MAX_PREEMPT_COUNT \in Nat
  /\ MaxIndex \in Nat

VARIABLES pool,        \* the waiting entries
          sum_count    \* the index the next entry gets

poolVars == <<pool, sum_count>>

Cores == 0 .. NCores - 1
Kinds == {k \in (1 .. NCores) \X Cores : k[1] + k[2] <= NCores}
Mask(k) == k[2] .. k[2] + k[1] - 1

Entries == [task : Tasks, kind : Kinds, priority : 0 .. MaxPriority, index : Nat]

-----------------------------------------------------------------------------
(* Mutant: a tie is a win, as with <= in cmp_node. *)
BetterOrSame(e, f) ==
  \/ e.priority > f.priority
  \/ e.priority = f.priority /\ e.index <= f.index

(* cmp_node: a higher priority first, then the earlier submission. *)
Better(e, f) ==
  \/ e.priority > f.priority
  \/ e.priority = f.priority /\ e.index < f.index

IsHead(e) == e \in pool /\ \A f \in pool : f.kind = e.kind => ~Better(f, e)

(* The heads the scan of queue_read meets, and skips, before it meets e. *)
Ahead(e) == {h \in pool : IsHead(h) /\ Better(h, e)}

Fits(e, free) == Mask(e.kind) \subseteq free

(* Mutants: one overtaking too many, and no look at the priorities. *)
MayOvertakeOneMore(e) ==
  \/ \A h \in Ahead(e) : Mask(h.kind) \cap Mask(e.kind) = {}
  \/ \A h \in Ahead(e) : /\ h.priority - e.priority <= MAX_PRIORITY_GAP
                         /\ e.index - h.index <= MAX_PREEMPT_COUNT + 1

MayOvertakeAnyGap(e) ==
  \/ \A h \in Ahead(e) : Mask(h.kind) \cap Mask(e.kind) = {}
  \/ \A h \in Ahead(e) : e.index - h.index <= MAX_PREEMPT_COUNT

(* e uses none of the cores a skipped head waits for, or it is one of the *)
(* few tasks that may go ahead of them.                                    *)
MayOvertake(e) ==
  \/ \A h \in Ahead(e) : Mask(h.kind) \cap Mask(e.kind) = {}
  \/ \A h \in Ahead(e) : /\ h.priority - e.priority <= MAX_PRIORITY_GAP
                         /\ e.index - h.index <= MAX_PREEMPT_COUNT

Qualifies(e, free) == IsHead(e) /\ Fits(e, free) /\ MayOvertake(e)

(* The scan stops at the first head that qualifies. *)
Selected(e, free) ==
  /\ Qualifies(e, free)
  /\ \A h \in Ahead(e) : ~Qualifies(h, free)

(* Mutant: the count restarts from the "none" value of queue_read. *)
SumAfterNone(rest, sum) == IF rest = {} THEN -1 ELSE sum

SumAfter(rest, sum) == IF rest = {} THEN 0 ELSE sum

-----------------------------------------------------------------------------
PoolInit == pool = {} /\ sum_count = 0

(* A task that waits already is not written again: a TCB is queued only    *)
(* after its slot of the hash table was taken for a new submission.        *)
Write(t, k, p) ==
  /\ \A e \in pool : e.task # t
  /\ sum_count < MaxIndex
  /\ pool' = pool \cup {[task |-> t, kind |-> k, priority |-> p, index |-> sum_count]}
  /\ sum_count' = sum_count + 1

Read(e, free) ==
  /\ Selected(e, free)
  /\ pool' = pool \ {e}
  /\ sum_count' = SumAfter(pool \ {e}, sum_count)

CleanAll ==
  /\ pool # {}
  /\ pool' = {}
  /\ sum_count' = 0

CleanTasksOn(mask) ==
  LET rest == {e \in pool : Mask(e.kind) \cap mask = {}}
  IN  /\ rest # pool
      /\ pool' = rest
      /\ sum_count' = SumAfter(rest, sum_count)

CleanOne(t) ==
  LET rest == {e \in pool : e.task # t}
  IN  /\ rest # pool
      /\ pool' = rest
      /\ sum_count' = SumAfter(rest, sum_count)

PoolNext ==
  \/ \E t \in Tasks, k \in Kinds, p \in 0 .. MaxPriority : Write(t, k, p)
  \/ \E e \in pool, free \in SUBSET Cores : Read(e, free)
  \/ CleanAll
  \/ \E c \in Cores : CleanTasksOn({c})
  \/ \E t \in Tasks : CleanOne(t)

PoolSpec == PoolInit /\ [][PoolNext]_poolVars

-----------------------------------------------------------------------------
PoolTypeOK ==
  /\ pool \subseteq Entries
  /\ sum_count \in 0 .. MaxIndex

(* Entries are told apart by their submission index, and every index was   *)
(* given out: the order of two waiting tasks is never a tie.               *)
IndicesDistinct ==
  /\ \A e \in pool : e.index < sum_count
  /\ \A e, f \in pool : e.index = f.index => e = f
=============================================================================
