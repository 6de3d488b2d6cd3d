----------------------------- MODULE TaskQueue ------------------------------
(***************************************************************************)
(* The priority queue of vip_drv_util.c (vpmdENABLE_PREEMPTION = 1): one   *)
(* binary max-heap per kind of task, and the non-empty heaps in a doubly   *)
(* linked list ordered by their heads.  A heap is the sequence of the      *)
(* first task_count nodes of its array; the list is the sequence of the    *)
(* indices of its heaps.  Every operation runs under queue->mutex, so each *)
(* is one step.                                                            *)
(***************************************************************************)
EXTENDS Integers, FiniteSets, SequencesExt

CONSTANTS Tasks, NCores, MaxPriority, MAX_PRIORITY_GAP, MAX_PREEMPT_COUNT,
          Times,        \* the average times of tasks (queue_data.time)
          INDEX_MOD,    \* 2^32 in the code: sum_count is a vip_uint32_t
          MaxWrites     \* bound: writes between two moments the queue is empty

ASSUME QueueAssumption ==
  /\ IsFiniteSet(Tasks)
  /\ NCores \in Nat \ {0}
  /\ {MaxPriority, MAX_PRIORITY_GAP, MAX_PREEMPT_COUNT, MaxWrites} \subseteq Nat
  /\ Times \subseteq Nat
  /\ INDEX_MOD \in Nat \ {0}

VARIABLES heap,         \* max_heap[i].head, the first task_count nodes
          estimated,    \* max_heap[i].property.estimated_time
          list,         \* the heaps reached from the sentinel by ->right
          cur_count,
          sum_count

vars == <<heap, estimated, list, cur_count, sum_count>>

Cores == 0 .. NCores - 1
Kinds == {k \in (1 .. NCores) \X Cores : k[1] + k[2] <= NCores}
Mask(k) == k[2] .. k[2] + k[1] - 1

HeapCount == ((NCores + 1) * NCores) \div 2
Heaps == 0 .. HeapCount - 1

(* The heap of a task that needs cnt cores from core start. *)
QueueId(cnt, start) == ((2 * NCores - cnt + 2) * (cnt - 1)) \div 2 + start

Nodes == [task : Tasks, kind : Kinds, priority : 0 .. MaxPriority,
          time : Times, index : 0 .. INDEX_MOD - 1]

-----------------------------------------------------------------------------
(* cmp_node *)
Cmp(i, j) ==
  \/ i.priority > j.priority
  \/ i.priority = j.priority /\ i.index < j.index

Swap(s, i, j) == [s EXCEPT ![i] = s[j], ![j] = s[i]]

(* The loops of keep_max_heap.  A step leaves its argument alone once the  *)
(* loop has ended, so as many steps as there are nodes are enough.         *)
(* Positions start at 1: the parent of i is i \div 2; n is task_count.     *)
UpStep(s) ==
  IF s.at = 1 \/ Cmp(s.h[s.at \div 2], s.h[s.at]) THEN s
  ELSE [h |-> Swap(s.h, s.at, s.at \div 2), at |-> s.at \div 2]

SiftUp(h, at) ==
  LET loop[d \in 0 .. Len(h)] ==
        IF d = 0 THEN [h |-> h, at |-> at] ELSE UpStep(loop[d - 1])
  IN  loop[Len(h)].h

Best(g, n, i, j) == IF i <= n /\ Cmp(g[i], g[j]) THEN i ELSE j

DownStep(s, n) ==
  LET best == Best(s.h, n, 2 * s.at + 1, Best(s.h, n, 2 * s.at, s.at))
  IN  IF 2 * s.at > n THEN s ELSE [h |-> Swap(s.h, s.at, best), at |-> best]

SiftDown(h, n, at) ==
  LET loop[d \in 0 .. Len(h)] ==
        IF d = 0 THEN [h |-> h, at |-> at] ELSE DownStep(loop[d - 1], n)
  IN  loop[Len(h)].h

KeepMaxHeap(h, n, at) == SiftDown(SiftUp(h, at), n, at)

(* Mutant: the node that fills the hole is only ever moved down. *)
TakeOutDown(h, at) ==
  LET n == Len(h) - 1
  IN  SubSeq(SiftDown(Swap(h, at, Len(h)), n, at), 1, n)

(* Take the node at position at out of a heap: it changes places with the  *)
(* last one, task_count drops, and the heap is repaired from at, which may *)
(* be the position just past the new end.                                  *)
TakeOut(h, at) ==
  LET n == Len(h) - 1
  IN  SubSeq(KeepMaxHeap(Swap(h, at, Len(h)), n, at), 1, n)

-----------------------------------------------------------------------------
IndexOf(l, i) == SelectInSeq(l, LAMBDA j : j = i)

(* The list without the heaps of a set. *)
Without(l, hit) ==
  LET kept[p \in 0 .. Len(l)] ==
        IF p = 0 THEN <<>>
        ELSE IF l[p] \in hit THEN kept[p - 1] ELSE Append(kept[p - 1], l[p])
  IN  kept[Len(l)]

(* The list when heap i gets its first node. *)
InsertHeap(l, hs, i) ==
  LET beaten == {p \in 1 .. Len(l) : Cmp(hs[i][1], hs[l[p]][1])}
  IN  InsertAt(l, Min(beaten \cup {Len(l) + 1}), i)

(* The list when the head of heap i got better: i moves left until a heap  *)
(* it does not beat.                                                       *)
MoveLeft(l, hs, i) ==
  LET at    == IndexOf(l, i)
      stops == {p \in 1 .. at - 1 : ~Cmp(hs[i][1], hs[l[p]][1])}
  IN  InsertAt(RemoveAt(l, at), Max(stops \cup {0}) + 1, i)

(* Mutant: the heap keeps its place although its head got worse. *)
ReorderAfterDelStay(l, hs, i) ==
  IF hs[i] = <<>> THEN RemoveAt(l, IndexOf(l, i)) ELSE l

(* reorder_after_del: an empty heap leaves the list, another moves right   *)
(* past the heaps that beat it.                                            *)
ReorderAfterDel(l, hs, i) ==
  LET at    == IndexOf(l, i)
      stops == {p \in at + 1 .. Len(l) : ~Cmp(hs[l[p]][1], hs[i][1])}
  IN  IF hs[i] = <<>> THEN RemoveAt(l, at)
      ELSE InsertAt(RemoveAt(l, at), Min(stops \cup {Len(l) + 1}) - 1, i)

(* Mutant: the count never restarts. *)
SumAfterKeep(count, sum) == sum

SumAfter(count, sum) == IF count = 0 THEN 0 ELSE sum

-----------------------------------------------------------------------------
(* The scan of queue_read over the heads, with the flag of free cores.     *)
HeadAt(p) == heap[list[p]][1]

NeedMask(p) == UNION {Mask(HeadAt(q).kind) : q \in 1 .. p - 1}
MaxPrioritySeen(p) == Max({HeadAt(q).priority : q \in 1 .. p - 1} \cup {0})
MinIndexSeen(p) == Min({HeadAt(q).index : q \in 1 .. p - 1} \cup {INDEX_MOD - 1})

(* Mutant: one overtaking too few. *)
MustWaitSooner(p) ==
  \/ MaxPrioritySeen(p) - HeadAt(p).priority > MAX_PRIORITY_GAP
  \/ HeadAt(p).index - MinIndexSeen(p) >= MAX_PREEMPT_COUNT

MustWait(p) ==
  \/ MaxPrioritySeen(p) - HeadAt(p).priority > MAX_PRIORITY_GAP
  \/ HeadAt(p).index - MinIndexSeen(p) > MAX_PREEMPT_COUNT

CanRun(p, free) ==
  /\ Mask(HeadAt(p).kind) \subseteq free
  /\ Mask(HeadAt(p).kind) \cap NeedMask(p) = {} \/ ~MustWait(p)

(* The place in the list where the scan stops, 0 when it reaches the end. *)
ScanStop(free) == SelectInSeq([p \in 1 .. Len(list) |-> CanRun(p, free)], LAMBDA b : b)

-----------------------------------------------------------------------------
Init ==
  /\ heap = [i \in Heaps |-> <<>>]
  /\ estimated = [i \in Heaps |-> 0]
  /\ list = <<>>
  /\ cur_count = 0
  /\ sum_count = 0

Queued == UNION {ToSet(heap[i]) : i \in Heaps}

(* Every index is reset when sum_count reaches its last value. *)
ResetIndices(hs) ==
  [i \in Heaps |-> [p \in DOMAIN hs[i] |-> [hs[i][p] EXCEPT !.index = 0]]]

(* queue_write, called with the heap index vipdrv_task_tcb_submit computes. *)
Write(t, k, pr, time) ==
  LET i    == QueueId(k[1], k[2])
      node == [task |-> t, kind |-> k, priority |-> pr, time |-> time,
               index |-> sum_count]
      n    == Len(heap[i]) + 1
      hs   == [heap EXCEPT ![i] = KeepMaxHeap(Append(@, node), n, n)]
      sum  == (sum_count + 1) % INDEX_MOD
  IN  /\ \A q \in Queued : q.task # t
      /\ sum_count < MaxWrites
      /\ cur_count' = cur_count + 1
      /\ sum_count' = sum
      /\ estimated' = [estimated EXCEPT ![i] = @ + time]
      /\ heap' = IF sum = INDEX_MOD - 1 THEN ResetIndices(hs) ELSE hs
      /\ list' = IF n = 1 THEN InsertHeap(list, hs, i) ELSE MoveLeft(list, hs, i)

(* Mutant: the estimate loses the time of the node that comes to the head. *)
ReadSwapsFirst(free) ==
  LET p == ScanStop(free)
      i == list[p]
      hs == [heap EXCEPT ![i] = TakeOut(@, 1)]
  IN  /\ p # 0
      /\ cur_count' = cur_count - 1
      /\ sum_count' = SumAfter(cur_count - 1, sum_count)
      /\ estimated' = [estimated EXCEPT ![i] = @ - heap[i][Len(heap[i])].time]
      /\ heap' = hs
      /\ list' = ReorderAfterDel(list, hs, i)

(* queue_read; it changes nothing when the scan finds no task to run. *)
Read(free) ==
  LET p == ScanStop(free)
      i == list[p]
      hs == [heap EXCEPT ![i] = TakeOut(@, 1)]
  IN  /\ p # 0
      /\ cur_count' = cur_count - 1
      /\ sum_count' = SumAfter(cur_count - 1, sum_count)
      /\ estimated' = [estimated EXCEPT ![i] = @ - heap[i][1].time]
      /\ heap' = hs
      /\ list' = ReorderAfterDel(list, hs, i)

(* queue_clean, VIPDRV_QUEUE_CLEAN_ALL: it empties the heaps of the list.  *)
CleanAll ==
  /\ list # <<>>
  /\ heap' = [i \in Heaps |-> IF i \in ToSet(list) THEN <<>> ELSE heap[i]]
  /\ estimated' = [i \in Heaps |-> IF i \in ToSet(list) THEN 0 ELSE estimated[i]]
  /\ cur_count' = 0
  /\ sum_count' = 0
  /\ list' = <<>>

(* Mutant: one task is counted for each emptied heap. *)
CleanTasksOnHeaps(mask) ==
  LET hit == {i \in ToSet(list) : Mask(heap[i][1].kind) \cap mask # {}}
  IN  /\ hit # {}
      /\ heap' = [i \in Heaps |-> IF i \in hit THEN <<>> ELSE heap[i]]
      /\ estimated' = [i \in Heaps |-> IF i \in hit THEN 0 ELSE estimated[i]]
      /\ cur_count' = cur_count - Cardinality(hit)
      /\ sum_count' = SumAfter(cur_count - Cardinality(hit), sum_count)
      /\ list' = Without(list, hit)

(* queue_clean, VIPDRV_QUEUE_CLEAN_STASK: the heaps whose head needs a core *)
(* of the mask are emptied as a whole.                                      *)
CleanTasksOn(mask) ==
  LET hit == {i \in ToSet(list) : Mask(heap[i][1].kind) \cap mask # {}}
      gone == MapThenSumSet(LAMBDA i : Len(heap[i]), hit)
  IN  /\ hit # {}
      /\ heap' = [i \in Heaps |-> IF i \in hit THEN <<>> ELSE heap[i]]
      /\ estimated' = [i \in Heaps |-> IF i \in hit THEN 0 ELSE estimated[i]]
      /\ cur_count' = cur_count - gone
      /\ sum_count' = SumAfter(cur_count - gone, sum_count)
      /\ list' = Without(list, hit)

(* queue_clean, VIPDRV_QUEUE_CLEAN_ONE: the first node found in list order *)
(* that holds the TCB index.                                               *)
CleanOne(t) ==
  \E i \in ToSet(list) : \E at \in DOMAIN heap[i] :
    LET hs == [heap EXCEPT ![i] = TakeOut(@, at)]
    IN  /\ heap[i][at].task = t
        /\ cur_count' = cur_count - 1
        /\ sum_count' = SumAfter(cur_count - 1, sum_count)
        /\ estimated' = [estimated EXCEPT ![i] = @ - heap[i][at].time]
        /\ heap' = hs
        /\ list' = ReorderAfterDel(list, hs, i)

Next ==
  \/ \E t \in Tasks, k \in Kinds, pr \in 0 .. MaxPriority, time \in Times :
       Write(t, k, pr, time)
  \/ \E free \in SUBSET Cores : Read(free)
  \/ CleanAll
  \/ \E c \in Cores : CleanTasksOn({c})
  \/ \E t \in Tasks : CleanOne(t)

Spec == Init /\ [][Next]_vars

-----------------------------------------------------------------------------
TypeOK ==
  /\ heap \in [Heaps -> Seq(Nodes)]
  /\ estimated \in [Heaps -> Nat]
  /\ list \in Seq(Heaps)
  /\ cur_count \in 0 .. Cardinality(Tasks)
  /\ sum_count \in 0 .. INDEX_MOD - 1

(* No node of a heap is beaten by a node below it: keep_max_heap repairs   *)
(* the heap after a write, a read and a removal from the middle, where the *)
(* node that fills the hole may have to go up or down.                     *)
HeapOrdered ==
  \A i \in Heaps : \A at \in 2 .. Len(heap[i]) :
    ~Cmp(heap[i][at], heap[i][at \div 2])

(* The list holds each non-empty heap once, in the order of their heads:   *)
(* only then does the scan of queue_read meet a better task first, and a   *)
(* heap that left the list with tasks in it would never be served again.   *)
ListOrdered ==
  /\ ToSet(list) = {i \in Heaps : heap[i] # <<>>}
  /\ IsInjective(list)
  /\ \A p, q \in DOMAIN list : p < q => ~Cmp(HeadAt(q), HeadAt(p))

(* The counters kept beside the heaps agree with them: queue_read refuses  *)
(* to look when cur_count is 0, and the scheduler balances cores by        *)
(* estimated_time, so a drift either loses tasks or skews the placement.   *)
CountersExact ==
  /\ cur_count = MapThenSumSet(LAMBDA i : Len(heap[i]), Heaps)
  /\ \A i \in Heaps :
       estimated[i] = MapThenSumSet(LAMBDA p : heap[i][p].time, DOMAIN heap[i])
  /\ cur_count = 0 => sum_count = 0

-----------------------------------------------------------------------------
(* The tasks in the heaps, as TaskPool sees them. *)
EntryOf(node) == [task |-> node.task, kind |-> node.kind,
                  priority |-> node.priority, index |-> node.index]

Waiting == {EntryOf(n) : n \in Queued}

Pool == INSTANCE TaskPool WITH pool <- Waiting, MaxIndex <- MaxWrites

(* Each operation does to the waiting tasks what the operation of the same *)
(* name does to the pool; without this a read of the wrong task would pass *)
(* for a clean of that task.                                               *)
OperationsAgree ==
  /\ \A t \in Tasks, k \in Kinds, pr \in 0 .. MaxPriority, time \in Times :
       Write(t, k, pr, time) => Pool!Write(t, k, pr)
  /\ \A free \in SUBSET Cores : Read(free) => \E e \in Waiting : Pool!Read(e, free)
  /\ CleanAll => Pool!CleanAll
  /\ \A c \in Cores : CleanTasksOn({c}) => Pool!CleanTasksOn({c})
  /\ \A t \in Tasks : CleanOne(t) => Pool!CleanOne(t)

(* The heaps and the list implement the pool of waiting tasks: each        *)
(* operation adds, takes or drops exactly the tasks it should, and a read  *)
(* takes a task the pool's selection rule allows.                          *)
PoolSpec == Pool!PoolSpec /\ [][OperationsAgree]_vars

(* For every set of free cores the scan of queue_read stops exactly at the *)
(* task TaskPool selects, and finds none exactly when TaskPool has none:   *)
(* the running totals need_res_mask, max_priority and min_index stand for  *)
(* the conditions on all the better heads.                                 *)
ScanSelects ==
  \A free \in SUBSET Cores :
    LET p == ScanStop(free)
    IN  IF p = 0 THEN \A e \in Waiting : ~Pool!Selected(e, free)
        ELSE Pool!Selected(EntryOf(HeadAt(p)), free)
=============================================================================
