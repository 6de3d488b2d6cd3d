----------------------------- MODULE MemoryHeap -----------------------------
(***************************************************************************)
(* The heap of reserved video memory (memory/vip_drv_mem_heap.c): an array *)
(* of nodes, each a stretch of the heap, and a list of those in use from   *)
(* high to low addresses.  The nodes lie in the heap itself and their      *)
(* number is fixed (vpmdNODE_MEMORY_IN_HEAP = 1), so an allocation may run *)
(* out of nodes before it runs out of memory.  Every operation runs under  *)
(* heap->mutex from end to end, so each is one step.  The heap is one of a *)
(* build for Linux that shares devices between tasks: sizes are rounded up *)
(* to pages.                                                               *)
(***************************************************************************)
EXTENDS Integers, Sequences, FiniteSetsExt

CONSTANTS Handles,       \* vipdrv_video_mem_handle_t
          NodeCapacity,  \* node_capacity
          Size,          \* total_size less the room for the nodes
          Physical,      \* heap->physical, aligned to 64 bytes, not to pages
          Page,          \* 4096 in the code
          Sizes, Aligns  \* what callers ask for

ASSUME HeapAssumption ==
  /\ NodeCapacity \in Nat \ {0}
  /\ {Size, Physical} \subseteq Nat
  /\ Page \in Nat \ {0}
  /\ Sizes \subseteq Nat
  /\ Aligns \subseteq Nat \ {0}

VARIABLES nodes,       \* nodes[i]: offset, size, status
          list,        \* the nodes from heap->list on by ->next
          free_bytes,
          handle,      \* what a handle holds, NoBlock: physical_table is NULL
          lost         \* the nodes a failing allocation has left STATUS_USED

vars == <<nodes, list, free_bytes, handle, lost>>

Nodes == 1 .. NodeCapacity

(* A node on the idle list; what else it still says is never read. *)
Spare == [offset |-> 0, size |-> 0, status |-> "INIT"]

NoBlock == [node |-> 0, physical |-> 0, size |-> 0, align |-> 0]

(* VIP_ALIGN(x, a) - x *)
Skip(x, a) == (a - (x % a)) % a

AlignUp(x, a) == x + Skip(x, a)

(* The idle list.  It is a stack; which node is taken next is of no matter. *)
Idle(ns) == {n \in Nodes : ns[n] = Spare}

InsertAt(s, at, e) == SubSeq(s, 1, at - 1) \o <<e>> \o SubSeq(s, at, Len(s))
RemoveAt(s, at) == SubSeq(s, 1, at - 1) \o SubSeq(s, at + 1, Len(s))

-----------------------------------------------------------------------------
Init ==
  /\ nodes = [n \in Nodes |-> IF n = NodeCapacity
                              THEN [offset |-> 0, size |-> Size, status |-> "FREE"]
                              ELSE Spare]
  /\ list = <<NodeCapacity>>
  /\ free_bytes = Size
  /\ handle = [h \in Handles |-> NoBlock]
  /\ lost = {}

(* Mutant: the new node goes behind the old one. *)
SplitBehind(ns, l, at, size) ==
  LET n == l[at]
      new == CHOOSE m \in Idle(ns) : TRUE
  IN  IF Idle(ns) = {} THEN [nodes |-> ns, list |-> l]
      ELSE [nodes |-> [ns EXCEPT ![new] = [offset |-> ns[n].offset + size,
                                           size |-> ns[n].size - size,
                                           status |-> "FREE"],
                                 ![n].size = size],
            list |-> InsertAt(l, at + 1, new)]

(* split_node: what is left above size becomes a new node, in front of the *)
(* old one.  Without an idle node nothing happens, and nobody asks.        *)
Split(ns, l, at, size) ==
  LET n == l[at]
      new == CHOOSE m \in Idle(ns) : TRUE
  IN  IF Idle(ns) = {} THEN [nodes |-> ns, list |-> l]
      ELSE [nodes |-> [ns EXCEPT ![new] = [offset |-> ns[n].offset + size,
                                           size |-> ns[n].size - size,
                                           status |-> "FREE"],
                                 ![n].size = size],
            list |-> InsertAt(l, at, new)]

(* The node at a place of the list is cut to size, skip above its start:   *)
(* up to two splits.  vipdrv_heap_query has seen to one idle node only.    *)
Cut(at, skip, size) ==
  LET low == IF skip = 0 THEN [nodes |-> nodes, list |-> list]
             ELSE Split(nodes, list, at, skip)
      node == low.list[at]
      cut == IF low.nodes[node].size = size THEN low
             ELSE Split(low.nodes, low.list, at, size)
  IN  [node |-> node, nodes |-> cut.nodes, list |-> cut.list]

(* Mutant: what was asked for is counted, not what the block got. *)
TakeCountsRequest(h, at, skip, size, align) ==
  LET cut == Cut(at, skip, size)
      node == cut.node
  IN  /\ nodes' = [cut.nodes EXCEPT ![node].status = "USED"]
      /\ list' = cut.list
      /\ free_bytes' = free_bytes - size
      /\ handle' = [handle EXCEPT ![h] =
           [node |-> node, physical |-> Physical + cut.nodes[node].offset,
            size |-> size, align |-> align]]
      /\ UNCHANGED lost

(* The end of an allocation: the node is marked and counted before the two *)
(* small tables of the handle are allocated, and stays so if that fails.   *)
Take(h, at, skip, size, align) ==
  LET cut == Cut(at, skip, size)
      node == cut.node
  IN  /\ nodes' = [cut.nodes EXCEPT ![node].status = "USED"]
      /\ list' = cut.list
      /\ free_bytes' = free_bytes - cut.nodes[node].size
      /\ \/ /\ handle' = [handle EXCEPT ![h] =
                 [node |-> node, physical |-> Physical + cut.nodes[node].offset,
                  size |-> size, align |-> align]]
            /\ UNCHANGED lost
         \/ /\ lost' = lost \cup {node}
            /\ UNCHANGED handle

(* vipdrv_heap_query *)
Query(size) == size <= free_bytes /\ Idle(nodes) # {}

(* The walk over the list stops at the first node of a set. *)
FirstAt(at, fits) ==
  /\ at \in DOMAIN list
  /\ list[at] \in fits
  /\ \A p \in 1 .. at - 1 : list[p] \notin fits

(* Mutant: the room lost to the alignment is not counted. *)
FitsUnaligned(n, size, align) ==
  /\ nodes[n].status = "FREE"
  /\ nodes[n].size >= size

(* vipdrv_alloc_mgt_heap_alloc: the first node from the top that is free   *)
(* and large enough once its start is aligned.                             *)
Fits(n, size, align) ==
  /\ nodes[n].status = "FREE"
  /\ nodes[n].size >= size + Skip(Physical + nodes[n].offset, align)

Rounded(size) == AlignUp(size, Page)
AtLeastPage(align) == IF align < Page THEN Page ELSE align

Place(at, size, align) ==
  /\ Query(size)
  /\ FirstAt(at, {n \in Nodes : Fits(n, size, align)})

Allocate(h, s, a) ==
  LET size == Rounded(s)
      align == AtLeastPage(a)
  IN  /\ handle[h] = NoBlock
      /\ \E at \in DOMAIN list :
           /\ Place(at, size, align)
           /\ Take(h, at, Skip(Physical + nodes[list[at]].offset, align), size, align)

(* The same at an address the caller specifies, which owes the heap no     *)
(* alignment: the first node that does not start above it has to be free   *)
(* and to reach far enough, so that the end of the heap is respected.      *)
PlaceAt(at, size, offset) ==
  /\ Query(size)
  /\ FirstAt(at, {n \in Nodes : nodes[n].offset <= offset})
  /\ nodes[list[at]].status = "FREE"
  /\ nodes[list[at]].offset + nodes[list[at]].size >= offset + size

AllocateAt(h, s, offset) ==
  LET size == Rounded(s)
  IN  /\ handle[h] = NoBlock
      /\ \E at \in DOMAIN list :
           /\ PlaceAt(at, size, offset)
           /\ Take(h, at, offset - nodes[list[at]].offset, size, 1)

-----------------------------------------------------------------------------
(* vipdrv_alloc_mgt_heap_free.  A free node right above is swallowed, and  *)
(* the node is swallowed by a free one right below; each time one node     *)
(* becomes idle.                                                           *)
MergeAbove(ns, l, at) ==
  LET n == l[at]
      up == l[at - 1]
  IN  IF at > 1 /\ ns[up].status = "FREE" /\ ns[up].offset = ns[n].offset + ns[n].size
      THEN [nodes |-> [ns EXCEPT ![n].size = @ + ns[up].size, ![up] = Spare],
            list |-> RemoveAt(l, at - 1), at |-> at - 1]
      ELSE [nodes |-> ns, list |-> l, at |-> at]

(* Mutant: a block joins the free memory above it only. *)
MergeBelowNever(ns, l, at) == [nodes |-> ns, list |-> l]

MergeBelow(ns, l, at) ==
  LET n == l[at]
      down == l[at + 1]
  IN  IF at < Len(l) /\ ns[down].status = "FREE" /\ ns[down].offset + ns[down].size = ns[n].offset
      THEN [nodes |-> [ns EXCEPT ![down].size = @ + ns[n].size, ![n] = Spare],
            list |-> RemoveAt(l, at)]
      ELSE [nodes |-> ns, list |-> l]

Free(h) ==
  LET n == handle[h].node
      freed == [nodes EXCEPT ![n].status = "FREE"]
  IN  /\ handle[h] # NoBlock
      /\ nodes[n].status = "USED"
      /\ free_bytes' = free_bytes + nodes[n].size
      /\ \E at \in DOMAIN list :
           LET up == MergeAbove(freed, list, at)
               down == MergeBelow(up.nodes, up.list, up.at)
           IN  /\ list[at] = n
               /\ nodes' = down.nodes
               /\ list' = down.list
      /\ handle' = [handle EXCEPT ![h] = NoBlock]
      /\ UNCHANGED lost

Next ==
  \E h \in Handles :
    \/ \E s \in Sizes, a \in Aligns : Allocate(h, s, a)
    \/ \E s \in Sizes, offset \in 0 .. Size : AllocateAt(h, s, offset)
    \/ Free(h)

Spec == Init /\ [][Next]_vars

-----------------------------------------------------------------------------
Blocks == [node : Nodes, physical : Physical .. Physical + Size, size : Nat, align : Nat \ {0}]

TypeOK ==
  /\ nodes \in [Nodes -> [offset : 0 .. Size, size : 0 .. Size,
                          status : {"INIT", "FREE", "USED"}]]
  /\ list \in Seq(Nodes)
  /\ free_bytes \in 0 .. Size
  /\ handle \in [Handles -> Blocks \cup {NoBlock}]
  /\ lost \subseteq Nodes

(* The nodes of the list lie end to end, from the end of the heap down to  *)
(* its start, and no other node is in use.                                 *)
Tiled ==
  /\ {list[p] : p \in DOMAIN list} = Nodes \ Idle(nodes)
  /\ \A p \in DOMAIN list :
       nodes[list[p]].offset + nodes[list[p]].size
         = IF p = 1 THEN Size ELSE nodes[list[p - 1]].offset
  /\ nodes[list[Len(list)]].offset = 0

(* A used node has exactly one holder, or was lost by an allocation that   *)
(* failed late; a holder has its whole size in its node, from its start on.*)
Owned ==
  /\ \A g, h \in Handles : handle[g].node = handle[h].node /\ handle[g] # NoBlock => g = h
  /\ {n \in Nodes : nodes[n].status = "USED"}
       = lost \cup {handle[h].node : h \in {g \in Handles : handle[g] # NoBlock}}
  /\ \A h \in Handles : handle[h] # NoBlock =>
       /\ handle[h].node \notin lost
       /\ handle[h].physical = Physical + nodes[handle[h].node].offset
       /\ handle[h].size <= nodes[handle[h].node].size

Aligned ==
  \A h \in Handles : handle[h] # NoBlock => handle[h].physical % handle[h].align = 0

(* The count a request is compared with before the list is searched.       *)
FreeExact ==
  free_bytes = MapThenSumSet(LAMBDA n : nodes[n].size,
                             {n \in Nodes : nodes[n].status = "FREE"})

(* The bookkeeping of the heap survives every sequence of allocations and  *)
(* frees, also where only one of two splits got a node and the block stays *)
(* larger than what was asked for.                                         *)
Consistent == Tiled /\ Owned /\ Aligned /\ FreeExact

(* The stretches without a used node: two free nodes side by side would    *)
(* refuse a request that their sum could serve.                            *)
Unused(from, to) ==
  /\ 0 <= from /\ to <= Size
  /\ \A n \in Nodes : nodes[n].status = "USED" =>
       nodes[n].offset >= to \/ nodes[n].offset + nodes[n].size <= from

(* A request is refused only when no stretch of unused memory holds it at  *)
(* its alignment, or when the nodes have run out: what was freed is always *)
(* merged, whatever the order.                                             *)
ServedIfRoom ==
  \A s \in Sizes \ {0}, a \in Aligns :
    LET size == Rounded(s)
        align == AtLeastPage(a)
    IN  (\E from \in 0 .. Size : (Physical + from) % align = 0 /\ Unused(from, from + size))
          => Idle(nodes) = {} \/ \E at \in DOMAIN list : Place(at, size, align)

-----------------------------------------------------------------------------
(* The range a handle holds: its size from its physical address on. *)
RangeOf(h) ==
  IF handle[h] = NoBlock THEN [start |-> -1, end |-> -1]
  ELSE [start |-> handle[h].physical, end |-> handle[h].physical + handle[h].size]

Memory == INSTANCE AddressRanges
            WITH held <- [h \in Handles |-> RangeOf(h)], First <- Physical, End <- Physical + Size

(* The ranges handed out lie in the heap and never overlap, and nothing    *)
(* that others allocate or free, not even an allocation that fails half    *)
(* way, touches a range somebody holds.                                    *)
RangesSpec == Memory!RangesSpec
=============================================================================
