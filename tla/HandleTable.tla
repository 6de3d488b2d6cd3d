---------------------------- MODULE HandleTable ----------------------------
(***************************************************************************)
(* The driver's tables of counted slots (vip_drv_util.c): the hashmap,     *)
(* which finds a slot by its handle (task control blocks, processes; page  *)
(* tables, where each process has its own), and the database, which knows  *)
(* only slot numbers (task descriptors, video memory).  A process counts a *)
(* reference on its slot and keeps the read side of expand_mutex until it  *)
(* gives that back; the last one to give back a slot marked for removal    *)
(* returns it to the idle list.  A step is one section under the table's   *)
(* mutex, under the spinlock of a slot, or under the write lock; between   *)
(* two sections of a call anything may happen.                             *)
(*                                                                         *)
(* The red-black tree of handles is the function handle, the node array is *)
(* what the write lock protects.  A process holds one reference at a time. *)
(* Removal by force, which only the clean-up of the last process uses, is  *)
(* left out.                                                               *)
(***************************************************************************)
EXTENDS Integers, FiniteSets, SequencesExt

CONSTANTS Process,       \* the threads of the driver and of its users
          Handle,        \* the handles (of a database: what an entry stands for)
          None,          \* no handle
          Tables,        \* the kinds of table to consider
          InitCapacity,  \* slots of a new table
          Growth,        \* slots an expansion adds (128 in the code)
          MaxCapacity,   \* bound: memory is out beyond it
          MaxReaders     \* bound: read locks, those never given back included

ASSUME TableAssumption ==
  /\ None \notin Handle
  /\ IsFiniteSet(Process)
  /\ Tables \subseteq {"hashmap", "database"}
  /\ InitCapacity \in Nat /\ MaxCapacity \in Nat /\ InitCapacity <= MaxCapacity
  /\ Growth \in Nat \ {0}
  /\ MaxReaders \in Nat

Slots == 1 .. MaxCapacity

VARIABLES table,     \* which of the two tables this is; never changes
          capacity,  \* slots in the node array
          handle,    \* the handle in a slot, None in an idle one
          used, remove, refCount,
          idle,      \* the idle list
          freePos,   \* above every slot in use
          readers,   \* r_active_cnt of expand_mutex
          writing,   \* w_active of expand_mutex
          pc,        \* where a process is in its call
          at,        \* the slot it works on
          mine,      \* the handle it works on
          exposed    \* history: slots touched in one of the windows below

node == <<handle, used, remove, refCount>>
lists == <<capacity, idle, freePos>>
vars == <<table, node, lists, readers, writing, pc, at, mine, exposed>>

(* What a process is doing: out of the table; testing for room; waiting    *)
(* for the write lock; expanding; inserting; fetching the slot it          *)
(* inserted; counting a reference or marking a removal in a slot it found; *)
(* holding a reference; returning the slot to the idle list; leaving.      *)
Inside == {"count", "mark", "hold", "drop", "leave"}   \* with the read lock
Places == Inside \cup {"out", "ask", "grow", "growing", "insert", "get"}

Init ==
  /\ table \in Tables
  /\ capacity = InitCapacity
  /\ handle = [s \in Slots |-> None]
  /\ used = [s \in Slots |-> FALSE]
  /\ remove = [s \in Slots |-> FALSE]
  /\ refCount = [s \in Slots |-> 0]
  /\ idle = [s \in 1 .. InitCapacity |-> s]
  /\ freePos = 1
  /\ readers = 0
  /\ writing = FALSE
  /\ pc = [p \in Process |-> "out"]
  /\ at = [p \in Process |-> 0]
  /\ mine = [p \in Process |-> None]
  /\ exposed = {}

(* A process begins a call on a slot and a handle, goes on with it, or has *)
(* finished it.                                                            *)
Work(p, place, s, h) ==
  /\ pc' = [pc EXCEPT ![p] = place]
  /\ at' = [at EXCEPT ![p] = s]
  /\ mine' = [mine EXCEPT ![p] = h]

Goto(p, place) == pc' = [pc EXCEPT ![p] = place] /\ UNCHANGED <<at, mine>>

Return(p) == Work(p, "out", 0, None)

(* vipdrv_lock_read_mutex waits for the writer alone; vipdrv_lock_write_   *)
(* mutex for the writer and for every reader.                              *)
ReadLock == ~writing /\ readers < MaxReaders /\ readers' = readers + 1
ReadUnlock == readers' = readers - 1

(* Mutant: the writer does not wait for the readers. *)
LockedByWriter == ~writing

WriteLockFree == ~writing /\ readers = 0

(* Two processes may be between the sections of a release of one slot.     *)
Dropping(s) == \E q \in Process : pc[q] = "drop" /\ at[q] = s

-----------------------------------------------------------------------------
(* Insertion: test for room, expand under the write lock, insert, fetch.   *)

Submit(p, h) ==
  /\ pc[p] = "out"
  /\ Work(p, "ask", 0, h)
  /\ UNCHANGED <<table, node, lists, readers, writing, exposed>>

(* vipdrv_hashmap_full reads the list through a pointer without any lock:  *)
(* during an expansion it may read either answer from the freed array.     *)
Full(p) ==
  /\ pc[p] = "ask"
  /\ \E room \in IF writing THEN BOOLEAN ELSE {idle # <<>>} :
       Goto(p, IF room THEN "insert" ELSE "grow")
  /\ UNCHANGED <<table, node, lists, readers, writing, exposed>>

LockWrite(p) ==
  /\ pc[p] = "grow"
  /\ WriteLockFree
  /\ writing' = TRUE
  /\ Goto(p, "growing")
  /\ UNCHANGED <<table, node, lists, readers, exposed>>

(* Mutant: the new slots are numbered one too high. *)
NewSlotsLate == [i \in 1 .. Growth |-> capacity + i + 1]

NewSlots == [i \in 1 .. Growth |-> capacity + i]

(* vipdrv_hashmap_expand, under the write lock: another process may have   *)
(* made room; otherwise the arrays move to larger ones or memory is out.   *)
Expand(p) ==
  /\ pc[p] = "growing"
  /\ writing' = FALSE
  /\ \/ idle # <<>> /\ Goto(p, "insert") /\ UNCHANGED lists
     \/ /\ idle = <<>>
        /\ capacity + Growth <= MaxCapacity
        /\ capacity' = capacity + Growth
        /\ idle' = NewSlots
        /\ Goto(p, "insert")
        /\ UNCHANGED freePos
     \/ idle = <<>> /\ Return(p) /\ UNCHANGED lists
  /\ UNCHANGED <<table, node, readers, exposed>>

(* Mutant: free_pos rises only for a slot beyond it. *)
RaisedLate(s) == IF s > freePos THEN s + 1 ELSE freePos

Raised(s) == IF s >= freePos THEN s + 1 ELSE freePos

(* The first idle slot takes the handle; a count left in it stays. *)
TakeIdle(p) ==
  LET s == Head(idle)
  IN  /\ idle # <<>>
      /\ handle' = [handle EXCEPT ![s] = mine[p]]
      /\ used' = [used EXCEPT ![s] = TRUE]
      /\ remove' = [remove EXCEPT ![s] = FALSE]
      /\ idle' = Tail(idle)
      /\ freePos' = Raised(s)
      /\ Work(p, "get", s, mine[p])
      /\ UNCHANGED <<refCount, capacity>>

(* No slot: the callers for task control blocks, pages and descriptors     *)
(* start again, the others give up.                                        *)
NoRoom(p) ==
  /\ idle = <<>>
  /\ Goto(p, "ask") \/ Return(p)
  /\ UNCHANGED <<node, lists>>

With(h) == {s \in 1 .. capacity : handle[s] = h}

(* Mutant: the tree is not searched first. *)
InsertBlind(p) ==
  /\ table = "hashmap" /\ pc[p] = "insert" /\ ~writing
  /\ TakeIdle(p) \/ NoRoom(p)
  /\ UNCHANGED <<table, readers, writing, exposed>>

(* vipdrv_hashmap_insert: a handle that waits for its removal is revived   *)
(* in its slot, one that is present is refused; the caller then fetches    *)
(* that slot (vipdrv_mmu_page_get) or gives up.                            *)
Insert(p) ==
  /\ table = "hashmap" /\ pc[p] = "insert" /\ ~writing
  /\ \/ \E s \in With(mine[p]) :
          /\ \/ /\ remove[s]
                /\ used' = [used EXCEPT ![s] = TRUE]
                /\ remove' = [remove EXCEPT ![s] = FALSE]
                /\ Work(p, "get", s, mine[p])
                /\ UNCHANGED <<handle, refCount>>
             \/ /\ ~remove[s]
                /\ Work(p, "get", s, mine[p]) \/ Return(p)
                /\ UNCHANGED node
          /\ UNCHANGED lists
     \/ With(mine[p]) = {} /\ (TakeIdle(p) \/ NoRoom(p))
  /\ UNCHANGED <<table, readers, writing, exposed>>

(* vipdrv_database_insert: any idle slot; the entry is new. *)
Create(p) ==
  /\ table = "database" /\ pc[p] = "insert" /\ ~writing
  /\ With(mine[p]) = {}
  /\ TakeIdle(p) \/ NoRoom(p)
  /\ UNCHANGED <<table, readers, writing, exposed>>

-----------------------------------------------------------------------------
(* References.                                                             *)

Reference(p, s, h) ==
  /\ Work(p, "hold", s, h)
  /\ refCount' = [refCount EXCEPT ![s] = @ + 1]
  /\ UNCHANGED <<handle, used, remove>>

(* Mutant: a refused call keeps the read lock. *)
GetInsertedKeeps(p) ==
  /\ pc[p] = "get"
  /\ ReadLock
  /\ \/ used[at[p]] /\ Reference(p, at[p], mine[p])
     \/ Return(p) /\ UNCHANGED node
  /\ exposed' = exposed \cup {s \in {at[p]} : used[s] /\ handle[s] # mine[p]}
  /\ UNCHANGED <<table, lists, writing>>

(* The process fetches the slot it inserted by its index; a caller that    *)
(* only inserts, or is refused, leaves.  Window: since the insertion       *)
(* another process may have removed the entry, and the slot may hold       *)
(* another one.                                                            *)
GetInserted(p) ==
  /\ pc[p] = "get"
  /\ \/ /\ used[at[p]] /\ ReadLock /\ Reference(p, at[p], mine[p])
        /\ exposed' = exposed \cup {s \in {at[p]} : handle[s] # mine[p]}
     \/ Return(p) /\ UNCHANGED <<node, readers, exposed>>
  /\ UNCHANGED <<table, lists, writing>>

(* vipdrv_hashmap_get_by_index, vipdrv_database_use: the dispatcher, the   *)
(* power management and the debug files, for whatever the slot holds.      *)
GetByIndex(p, s) ==
  /\ pc[p] = "out" /\ s \in 1 .. capacity
  /\ used[s]
  /\ ReadLock
  /\ Reference(p, s, handle[s])
  /\ UNCHANGED <<table, lists, writing, exposed>>

(* vipdrv_hashmap_get_by_handle and vipdrv_hashmap_remove: the slot is     *)
(* found under the mutex; the reference or the mark follows under the      *)
(* spinlock.  A handle that is not found changes nothing.                  *)
Find(p, h, place) ==
  /\ table = "hashmap" /\ pc[p] = "out"
  /\ ReadLock
  /\ \E s \in With(h) : Work(p, place, s, h)
  /\ UNCHANGED <<table, node, lists, writing, exposed>>

(* Window: the count does not look at the slot again, which may be idle by *)
(* now, about to become so, or hold another handle.                        *)
Count(p) ==
  /\ pc[p] = "count"
  /\ Reference(p, at[p], mine[p])
  /\ exposed' = exposed \cup {s \in {at[p]} : ~used[s] \/ handle[s] # mine[p]}
  /\ UNCHANGED <<table, lists, readers, writing>>

(* Marks a slot for removal; if nothing refers to it, begins to return it. *)
Mark(p, s, h, place) ==
  /\ remove' = [remove EXCEPT ![s] = TRUE]
  /\ used' = [used EXCEPT ![s] = @ /\ refCount[s] > 0]
  /\ Work(p, IF refCount[s] > 0 THEN place ELSE "drop", s, h)
  /\ UNCHANGED <<handle, refCount>>

(* Window: a mark while an earlier release has yet to take the mutex makes *)
(* that release return the slot, whoever refers to it now.                 *)
MarksDropped(s) == exposed' = exposed \cup {t \in {s} : Dropping(t)}

(* vipdrv_hashmap_remove, second section, which does not look at the slot  *)
(* again either.                                                           *)
MarkFound(p) ==
  /\ pc[p] = "mark"
  /\ Mark(p, at[p], mine[p], "leave")
  /\ exposed' = exposed \cup
       {s \in {at[p]} : ~used[s] \/ handle[s] # mine[p] \/ Dropping(s)}
  /\ UNCHANGED <<table, lists, readers, writing>>

(* vipdrv_hashmap_remove_by_index by a process that refers to the slot,    *)
(* whose reference keeps it for now.                                       *)
RemoveHeld(p) ==
  /\ pc[p] = "hold"
  /\ used[at[p]] /\ ~remove[at[p]]
  /\ refCount[at[p]] > 0
  /\ Mark(p, at[p], mine[p], "hold")
  /\ MarksDropped(at[p])
  /\ UNCHANGED <<table, lists, readers, writing>>

(* vipdrv_database_remove of an entry nobody need refer to. *)
RemoveByIndex(p, s) ==
  /\ table = "database" /\ pc[p] = "out" /\ s \in 1 .. capacity
  /\ used[s]
  /\ ReadLock
  /\ Mark(p, s, handle[s], "leave")
  /\ MarksDropped(s)
  /\ UNCHANGED <<table, lists, writing>>

-----------------------------------------------------------------------------
(* Giving a reference back.                                                *)

(* Mutant: a marked slot goes at the first release. *)
ReleaseFirst(p) ==
  LET s == at[p] IN
  /\ pc[p] = "hold" /\ used[s]
  /\ refCount' = [refCount EXCEPT ![s] = @ - 1]
  /\ used' = [used EXCEPT ![s] = ~remove[s]]
  /\ Goto(p, IF remove[s] THEN "drop" ELSE "leave")
  /\ UNCHANGED <<table, handle, remove, lists, readers, writing, exposed>>

(* vipdrv_hashmap_unuse, vipdrv_database_unuse. *)
Release(p) ==
  LET s == at[p]
      last == refCount[s] = 1 /\ remove[s]
  IN  /\ pc[p] = "hold" /\ used[s]
      /\ refCount' = [refCount EXCEPT ![s] = @ - 1]
      /\ used' = [used EXCEPT ![s] = ~last]
      /\ Goto(p, IF last THEN "drop" ELSE "leave")
      /\ UNCHANGED <<table, handle, remove, lists, readers, writing, exposed>>

(* The slot is no longer in use: the call is refused and the read lock is  *)
(* never given back.                                                       *)
ReleaseRefused(p) ==
  /\ pc[p] = "hold" /\ ~used[at[p]]
  /\ Return(p)
  /\ UNCHANGED <<table, node, lists, readers, writing, exposed>>

(* free_pos falls to just above the highest slot in use: the hashmap looks *)
(* at the handles, the database at used.                                   *)
Lower(live) ==
  /\ freePos' \in 1 .. freePos
  /\ \A s \in live : s < freePos => s < freePos'
  /\ freePos' > 1 => freePos' - 1 \in live

(* hashmap_remove and database_remove under the mutex: nothing if another  *)
(* process was first or the handle was revived.  What a second removal of  *)
(* an idle slot does to the tree and the list is not followed.             *)
Drop(p) ==
  LET s == at[p] IN
  /\ pc[p] = "drop"
  /\ \/ ~remove[s] /\ UNCHANGED <<node, lists>>
     \/ /\ remove[s] /\ handle[s] # None
        /\ handle' = [handle EXCEPT ![s] = None]
        /\ remove' = [remove EXCEPT ![s] = FALSE]
        /\ idle' = <<s>> \o idle
        /\ Lower({t \in Slots : IF table = "hashmap" THEN handle'[t] # None ELSE used[t]})
        /\ UNCHANGED <<used, refCount, capacity>>
  /\ Goto(p, "leave")
  /\ UNCHANGED <<table, readers, writing, exposed>>

(* The end of a release or removal: the read lock is given back.  What a   *)
(* call-back does to the element is not followed; that of                  *)
(* vipdrv_hashmap_unuse runs here, after the slot is on the idle list,     *)
(* that of a database within Drop.                                         *)
Leave(p) ==
  /\ pc[p] = "leave"
  /\ ReadUnlock
  /\ Return(p)
  /\ UNCHANGED <<table, node, lists, writing, exposed>>

-----------------------------------------------------------------------------
Next ==
  \E p \in Process :
    \/ Full(p) \/ LockWrite(p) \/ Expand(p) \/ Insert(p) \/ Create(p)
    \/ GetInserted(p) \/ Count(p) \/ MarkFound(p) \/ RemoveHeld(p)
    \/ Release(p) \/ ReleaseRefused(p) \/ Drop(p) \/ Leave(p)
    \/ \E h \in Handle : Submit(p, h) \/ Find(p, h, "count") \/ Find(p, h, "mark")
    \/ \E s \in Slots : GetByIndex(p, s) \/ RemoveByIndex(p, s)

Spec == Init /\ [][Next]_vars

-----------------------------------------------------------------------------
Insiders == {p \in Process : pc[p] \in Inside}
Referring(s) == {p \in Process : pc[p] = "hold" /\ at[p] = s}

(* The state is well typed. *)
TypeOK ==
  /\ table \in Tables
  /\ capacity \in 0 .. MaxCapacity
  /\ handle \in [Slots -> Handle \cup {None}]
  /\ used \in [Slots -> BOOLEAN] /\ remove \in [Slots -> BOOLEAN]
  /\ refCount \in [Slots -> Nat]
  /\ idle \in Seq(1 .. capacity)
  /\ freePos \in 1 .. MaxCapacity + 1
  /\ readers \in Nat /\ writing \in BOOLEAN
  /\ pc \in [Process -> Places] /\ at \in [Process -> 0 .. MaxCapacity]
  /\ mine \in [Process -> Handle \cup {None}]
  /\ exposed \subseteq Slots

(* A process that holds a reference keeps the entry it asked for: the slot *)
(* is in use and has that handle, unless one of the three windows was hit. *)
(* Every window is a call that trusts a slot it looked at in an earlier    *)
(* section (vip_drv_util.c:1678, task/vip_drv_task_common.c:177).          *)
HeldKept ==
  \A p \in Process :
    pc[p] = "hold" /\ at[p] \notin exposed =>
      used[at[p]] /\ handle[at[p]] = mine[p]

(* The idle list has every slot without a handle once and no other, and a  *)
(* handle is in one slot; and as long as no window was hit, removals by    *)
(* the last user, by a remover and against a revival of the handle never   *)
(* return a slot twice (hashmap_remove, vip_drv_util.c:1380).              *)
IdleExact ==
  /\ \A s \in 1 .. capacity : handle[s] = None <=> s \in ToSet(idle)
  /\ IsInjective(idle)
  /\ \A s, t \in Slots : handle[s] = handle[t] /\ s # t => handle[s] = None
  /\ exposed = {} =>
       \A p \in Process : pc[p] = "drop" /\ remove[at[p]] => handle[at[p]] # None

(* As long as no window was hit, nobody leaks the read lock or a count, so *)
(* that an expansion does not wait for processes that are gone             *)
(* (vipdrv_hashmap_unuse, vip_drv_util.c:1796).                            *)
ReadersExact ==
  exposed = {} =>
    /\ readers = Cardinality(Insiders)
    /\ \A s \in Slots : refCount[s] = Cardinality(Referring(s))

(* Scans of the table from free_pos down meet every entry: the clean-up    *)
(* after a power-off by the user (vip_drv_pm.c:229) misses no task.        *)
ScanCovers ==
  \A s \in Slots : (IF table = "hashmap" THEN handle[s] # None ELSE used[s]) => s < freePos

(* Whatever windows were hit, an expansion never moves the arrays while a  *)
(* process is at work in them or keeps a pointer to an element             *)
(* (vipdrv_hashmap_expand, vip_drv_util.c:1153).                           *)
ArrayStable ==
  \A p, q \in Process : pc[p] = "growing" => pc[q] \notin Inside
=============================================================================
