# Verification of the NPU driver of the Orange Pi 4 Pro

The repository packs what an Orange Pi 4 Pro (Allwinner A733) needs to run: device
trees, a kernel configuration, boot and image scripts, and the kernel driver of its
neural processing unit, `drivers/npu/aw_nna_vip/vip2`.  The scripts are sequential; the
driver is where threads, interrupts, cancels and time-outs meet.  This directory holds
TLA+ models of the driver's core, the TLC runs that check them, and proofs for the
properties that matter most.  Paths below are relative to `vip2/`.

The models describe the configuration the repository builds (`inc/vip_lite_config.h`):
parallel, synchronous task management (`vpmdENABLE_MULTIPLE_TASK` = 3), preemption and
cancellation on, recovery and polling off.  `inc/vip_feature_database.h:161-164` says
that the A733's NPU can cancel a job in hardware.

## Inventory

| part | state | operations | what is hard |
|---|---|---|---|
| task queue (`vip_drv_util.c`) | one max-heap per kind of task, ordered list of non-empty heaps, `cur_count`, `sum_count` | write, read for a mask of free cores, clean all / by core / one | a task that needs several cores against a stream that needs one; heap and list repaired after every change; counters |
| core scheduling (`task/vip_drv_task_schedule.c`) | none: a computation over the estimates of the queue and of the tasks on the hardware | choose the least loaded run of cores | boundaries, ties, estimates that drift |
| task dispatch (`task/vip_drv_task_common.c`, `task/vip_drv_task_parallel_sync.c`) | TCB per task, dispatch flag per core, signals | submit, wait, cancel; one daemon thread per device, one thread per core | the interleavings of five kinds of threads; a cancel in any of a dozen windows; wake-ups |
| tables of counted slots (`vip_drv_util.c`: hashmap, database) | slot, `used`, `remove`, `ref_count`, red-black trees, idle list, `free_pos`, read-write lock for expansion | insert, get by handle / index, remove, unuse, expand | a slot freed and reused between lookup and reference; expansion against held references; leaked locks |
| power management (`vip_drv_pm.c`) | power and clock state per core, clock count, timer, user's flags, the domain all cores share | events of submit, end, timer, user on / off / start / stop, clock; suspend and resume | timer against submission, user power-off against queued tasks, suspension in the middle of anything, two locks in two orders |
| signals, interrupts (`os/linux/vip_drv_os.c`, `os/linux/vip_drv_device_driver.c`) | value, wait condition, interrupt flag and count | set, reset, wait; interrupt handler | lost and stale wake-ups, one flag for interrupt and cancel |
| heap of video memory (`memory/vip_drv_mem_heap.c`) | nodes (in the heap itself), list by address, idle nodes, `free_bytes` | allocate anywhere or at an address, free | splits with too few nodes, merges in every order, an allocation that fails half way, alignment |
| other memory (`memory/`) | video-memory database, MMU pages, user memory | allocate, map, free | partial failures across three allocators |
| task descriptors (`task/vip_drv_task_descriptor.c`) | subtasks and their command memory | create, configure, destroy, destroy by force | destruction of a process's tasks while they run: status read without the lock, queue entries left behind |
| context, interface (`vip_drv_context.c`, `vip_drv_interface.c`) | registered processes and their number | init, destroy, release of a file, the ioctl commands | a process ends with tasks queued or running; the last one stops the threads |

How they meet: a process submits through the ioctl interface; the scheduler picks cores;
`vipdrv_task_tcb_submit` takes a slot of the hash table, fills the TCB in it, writes it
to the queue and sets `tskTCB_submit_signal`.  The daemon thread reads a task that fits
the cores without dispatch flag, sets the flags and wakes the thread of the task's first
core.  That thread starts the hardware, waits for the interrupt flag, writes the result to
the TCB, clears the flags, wakes the user and the daemon.  A cancel can come at any moment.
Around the start and the end of the job the core thread sends the events `RUN` and `END` to
the power management of its core, under whose mutex and `cancel_mutex` it submits; a timer,
the user, a reader of debugfs and the system's suspend send others.  The slots of tasks,
processes, page tables, descriptors and video memory all lie in the tables of counted
slots.  Command buffers and networks are allocated from the heap of video memory, which no
task touches otherwise.

What makes each part correct: the queue loses and invents no task, serves better tasks
first and starves none that is urgent; the dispatch keeps a core to one job, a slot to
the threads that refer to it, starts no cancelled task, reports success for finished jobs
only, leaks nothing and returns every call; a table never gives one slot to two handles or
moves under who reads it; a core runs with power and clock and is stopped for the user for
good; the heap hands out ranges that never overlap and gets back what it handed out; the
end of a process takes its memory from no job that runs, and the end of one process is not
the end of another's task.

## Modules

* `TaskPool` -- what a queue promises, as a set of waiting entries and one selection rule.
* `Overtaking` -- `TaskPool` with a history of who overtook whom.
* `TaskQueue` -- the heaps and the list as the code keeps them; implements `TaskPool`
  (`PoolSpec`, by `INSTANCE TaskPool WITH pool <- Waiting`, with every operation matched to
  the pool's operation of the same name: a wrong read would otherwise pass for a clean).
* `CoreSchedule` -- `TaskQueue` with the loads of the cores and the sliding window over them,
  next to the definition the window stands for.
* `TaskDispatch` -- submit, wait, cancel, the daemon and core threads, the references of
  TCBs, the signals and the interrupt.
* `ProcessExit` -- `TaskDispatch` with the release of processes: forced destruction of their
  tasks, their memory, the stop of the threads.
* `PowerManagement` -- the state machine of each core, the shared domain, the timer, and the
  threads that send events.
* `HandleTable` -- hashmap and database: slots, references, idle list, expansion.
* `AddressRanges` -- what an allocator of address ranges promises.
* `MemoryHeap` -- the heap of video memory; implements `AddressRanges` (`RangesSpec`, by
  `INSTANCE AddressRanges WITH held <- ...`).
* `MCOvertaking`, `MCTaskQueue`, `MCTaskDispatch`, `MCProcessExit`, `MCPowerManagement`,
  `MCHandleTable`, `MCMemoryHeap` -- values for the constants, symmetry, bounds.
* `Overtaking_proofs`, `TaskQueue_proofs` (also about `CoreSchedule`), `TaskDispatch_proofs`,
  `ProcessExit_proofs`, `PowerManagement_proofs`, `HandleTable_proofs`, `MemoryHeap_proofs` --
  the theorems.
* `SumTheorems` -- lemmas about the sum of a function over a finite set.

Definitions keep the code's names (`queue_data->v2` is `tcb[s].v2`, `hw->dispatch` is
`dispatch[c]`); `PROJECT.json` maps each to its lines.  `TaskPool` and `AddressRanges` are
specifications, not translations.

### TaskPool and TaskQueue

`queue->mutex` is held in every operation, so each is one step.  `TaskQueue` has the heap
arrays (positions from 1), the up and down loops of `keep_max_heap`, the list as the
sequence of its heaps, and the totals of the scan.  `TaskPool` says the same without any
of it: a head is a best entry of its kind, an entry is taken when it fits the free cores
and conflicts with no better head, or lies within `MAX_PRIORITY_GAP` and
`MAX_PREEMPT_COUNT` of all of them.  `CLEAN_ALL` has no caller in this build and is kept as
an operation of the queue.  A task that waits is not written again; this is what the
hash table's refusal of a duplicate handle gives the queue, except after the cancel
described under *Findings*.

`CoreSchedule` adds no action: the choice of cores reads the estimates and changes nothing
of the queue.  The task it places is written later, so two submissions may choose the same
cores; both that and a choice on stale estimates are the code's behaviour and no property
forbids them.  The estimate of a task is an input.

### TaskDispatch

An action is one call into the hash table or the queue, one critical section of
`cancel_mutex`, or one operation on a signal or flag; threads interleave between them.  A
thread's place is its `pc`.  What is merged or abstracted:

* which fitting task a read returns (any; `TaskPool` has the rule), and that a read may
  come back empty-handed only when the queue is empty or holds a task that does not fit
  (the theorem `RefusedOnlyWhenBlocked`);
* `used = 0` and the removal from the tree, in `remove_by_index` and `unuse`, and the
  callback of `unuse`, are one step; the lookup and the count of `get_by_handle` are two;
* the idle list hands out any free slot; the table never has to grow
  (`DispatchAssumption`);
* the cores of a task are any member of `CoresOf[h]`: the scheduler's choice;
* `tskTCB_submit_signal`, a core's run signal and a TCB's wait signal have one waiter
  and are a value; `tskTCB_recover_signal`, which several cancels share, has its value and
  its `wait_cond`;
* a user waits for each of its submissions.  A cancel comes from another thread.
* `cancel_mutex` is a lock only for the cancel that waits for an idle device while it
  holds the mutex; every other critical section is one action.
* the reset of the TCB on a failed allocation is left out; the exit of the threads is in
  `ProcessExit`; time-outs of signals only repeat the wait.

### ProcessExit

`drv_release` ends in `vipdrv_destroy`, which holds `open_mutex` throughout, so one process
ends at a time (`release[h].pc` is its place), but the daemon thread, the core threads and the
other processes go on: a step of theirs is `Meanwhile(Next)`, the step of `TaskDispatch` with
what the end of a process restricts.  `vipdrv_task_desc_force_destroy` is one action per access
to what it shares with them: lookup and count in the table, the status, which it reads without
`cancel_mutex`, the hardware (`CancelOnHardware` or `WaitIdle`, as `hw_cancel` says), the
TCB, the removal and the release of the slot.  `FreeMemory` is what follows, `Destroy` is
`do_destroy` up to `vipdrv_task_pre_uninit`, and `Stopped` is the end of the wait for the threads.

Assumed: a process has one task; it is registered from the start; its file is released
between two calls only, as the kernel releases it; a wait for a job that runs does not time out
unless `vipdrv_hw_cancel` stopped the job; no thread takes 100 s to get to the head of its
loop.  A process that calls destroy itself runs `do_destroy` only, with nothing submitted
before; this path and what `do_destroy` tears down once the threads have stopped are not
modelled.

Three history variables name what the code does not promise, all of them met in the run:

* `raced`: the status is read, then a core thread starts the task, and the memory of the job
  is freed while it runs (`task/vip_drv_task_descriptor.c:488`); or the task ends, the core
  is given to another process, and `vipdrv_hw_cancel` stops that one's job in its place.
* `overran`: the job could be neither stopped nor waited for, which is only reported.
* `struck`: the queue entry of the destroyed task stays behind, and a submission of another
  process takes its slot.  The entry then stands for the new task: it is dispatched before its own
  entry, removed as not READY, or its submission is refused.

`raced` and `overran` exempt the task they name and no other.  `struck` is different: a process
that was struck shares its slot with the end of another task, so that the slot may be given back
while its job runs, and a third process that gets the slot next is upset in its turn.  A cancel
that found its task leaves the same kind of entry behind (*Findings*).  The properties therefore
speak of `Orderly` states, before any of that: `cancel_found = {} /\ struck = {}`.  That no
process stops the threads while another is left holds in all states.

A job that `vipdrv_hw_cancel` stops may raise its interrupt and need not: `told` is any set of the
stopped jobs, of whichever process.

TLC finds a property violated when one of its exemptions is taken out (for `cancel_found` in an
instance in which one process may cancel).

### PowerManagement

A core's row of `pm` is `vipdrv_pm_t`: `state`, `last_state`, `disable_clock_suspend`
(`count`, modulo `CountMod`), `clock_suspended`, `idle`, the two flags of the user and the
armed `timer`.  `vipdrv_pm_send_evnt` handles an event in rounds of "handle, find the
transition, leave, switch the domain, enter"; `Round` is one of them, and `event[c]` stays set
until no transition is left.  `lock[c]` is the kind of thread that holds the recursive
power mutex of the core; `vipdrv_pm_lock_hardware_hw` and its unlock are the places where a
thread's `pc` enters and leaves the states in `Submission`.  The clean-up that a user's
power-off or stop does inside the event waits for `cancel_mutex` (`MayClean`); a submission
holds it throughout, also while it sleeps in `vipdrv_pm_check_power` with the power mutex
released (`Sleep`).  A suspension visits the cores one by one, and its events skip mutexes
that others hold, as `mutex.current_tid` makes them do.

Two history variables name what the properties are relative to.  `held` says whose
`CLK_ON` is counted.  `past` collects what has upset a core: `failure` (a power-on failed
and poisoned the count), `split` (of a pair `CLK_ON`, `CLK_OFF` one came in a state that
ignores it, so that the count is off by one for good), `timeout`, `busy` (an `END` found the
hardware still at work, with a job that outlived its wait), `suspend`, and `bypass` (the
timer went off with a task queued).  Each exemption of a property names the upsets it needs
and no other; they are what the code does not promise, and TLC finds the property violated
when one of them is taken out (for `failure` with one power-on that fails, for the `split` of
`ReadClocked` with a second debugfs read).

`vpmdENABLE_RECOVERY` is 0, so a wait that times out only reports it (`CoreTimeOut`,
`vip_drv_task_common.c:1103`): the job goes on, the hardware is not marked idle, no `END` is
sent and the core stays in `RUN`.  The next task of the core is submitted behind that job, and
the late interrupt may end the wait of a task it does not belong to.  `jobs[c]` therefore
counts the jobs the hardware of the core has not finished; a cancel of a started task leaves
one behind in the same way.

### HandleTable

A step is one section under the table's mutex, a slot's spinlock or the write lock.  The
red-black tree is the function `handle`; the node array is what `expand_mutex` protects,
so that "a pointer into the array" is being in a place of `Inside`.  A process keeps the
read lock and one reference from its lookup until `unuse`.  `table` chooses hashmap or
database at the start: a database has no handle to look up, so `GetByIndex`, `Create` and
`RemoveByIndex` do what `Find`, `Insert` and `RemoveHeld` do for the other.

Three calls trust a slot they looked at in an earlier section: `Count`
(`vipdrv_hashmap_get_by_handle` unlocks before it counts), `MarkFound` (removal by handle, the
same), and `GetInserted` (the submission fetches by index what it inserted by handle).
When something came in between, the slot joins `exposed`, and the properties say exactly
what still holds: everything for slots outside `exposed`, and `ArrayStable`, `ScanCovers` and
the first half of `IdleExact` regardless.

### MemoryHeap

Every operation runs under `heap->mutex`, so each is one step.  `nodes` is the array of
nodes, `list` the list by address from high to low, `Idle(nodes)` the idle list: it is a
stack, and as nothing of an idle node is read, which one is next does not matter.
`Split`, `MergeAbove` and `MergeBelow` are functions from nodes and list to nodes and list, as one
allocation may split twice and one free may merge twice.  `vipdrv_heap_query` asks for one
idle node, so that the second split may do nothing and the block stay larger than its
request (`Cut`).  `lost` remembers the nodes that an allocation marked used before one of the
handle's tables could not be allocated: they have no holder, and the code has no path that
frees them.  `AllocateAt` is `alloc_param->specified`.

## Runs

| run | question | bounds | result |
|---|---|---|---|
| `overtaking` | how far and how often may a waiting task be overtaken; can all wait for each other | 3 tasks, 2 cores (3 kinds), priorities 0..2, gap 1, count 1, 5 writes before a drain | holds |
| `task_queue` | do heaps and list implement the pool; does the scan select as the rule says; is a task placed on the least loaded cores | `Wide`: 3 tasks of any kind, 2 cores, 3 heaps, 2 times, 4 writes; or `Deep`: 6 tasks in one heap (three levels), 2 priorities; every load of 4 cores for the window | holds |
| `dispatch` | references and flags exact, nothing leaked while nobody cancels; cancelled tasks not started; exclusive cores and honest success without hardware cancel | 2 users, 2 cores, 2 slots (`Bounds` joins three): a task on both cores, submitted twice, against one on the second; a task on each core; a task on both cores that is cancelled at any moment, hardware cancel on and off, against one on the first | holds |
| `dispatch_live` | does every submit and wait return | both cores and one core, one time-out | holds |
| `cancel_hang` | the same with a cancel during the submission | 1 user, 1 cancel | violated |
| `resubmit_success` | success and cancel, then the handle again | 1 user, 2 submissions, 1 cancel, no hardware cancel | violated |
| `cancel_running` | success where hardware can cancel | 1 user, 1 cancel | violated |
| `process_exit` | jobs without memory, bystanders' tasks, what is left behind, when the threads stop | 2 processes with 1 submission each, for both cores and for one, either or both end, any stopped job may time out, one job outlasts the clean-up, hardware cancel on and off | holds |
| `power` | count, clock and power around a job; user's stop; the two mutexes | 1 core, the timer, 1 debugfs read, 1 suspension by the system or debugfs, 1 cancel, any wait may time out, and (`Bounds`) 1 task with 2 power ioctls of any kind or 2 tasks with 1 | holds |
| `power_live` | the shared domain; does a task end, does a core turned off get off | 2 cores, 1 task, 1 user power-off, 1 debugfs read, 1 failing power-on | holds |
| `table` | references, idle list, locks, scans and expansion | 3 processes, 2 handles, 1 slot that grows by 1 up to 3, both kinds of table, 4 read locks | holds |
| `heap` | ranges, books, nothing refused while there is room | 3 holders, 5 nodes, 3 pages of 2 and half a page, a start off a page, 2 alignments, 3 sizes with 0 | holds |

Why the bounds are enough.  The tuning constants appear in the rules of the queue only as
distances, so a gap and a count of 1 with priorities 0..2 show both sides of every
comparison; two cores give the three kinds "first", "second", "both" whose conflicts the
rules are about.  Six tasks fill three levels of a heap, so a removed node has a parent, a
sibling and children.  `InOrder` lets tasks enter in the order of their numbers, which leaves
out renamings only.  Two users and two cores let a task that needs both cores wait for one
that holds one, and the second submission reuses a slot, a handle and the signals.  Slots
are as many as users, so slots are reused in other orders than they were taken.
`LateSubmit = FALSE` in `dispatch` and `cancel_running` keeps a submission
from starting after a cancel has found a task; what happens otherwise is `resubmit_success`.
In `process_exit` one process may outlive the other or both end in either order, with a task
on both cores that competes with one on the first; that neither more processes nor more submissions
matter is what the theorems about the same properties say.
In `power` a second ioctl undoes the first, and a second task meets the job that the first may
leave on the hardware; `Bounds` asks for these two separately.  `CountMod` = 8 is more than the
parties that count and small enough that one decrement below zero is seen.  In `table` three processes
let one be in a window that a second opened by removing the slot and a third filled; a
fourth read lock makes room for a leaked one.  In `heap` five nodes run out before seven
units of memory do and after, a request of 3 units is rounded up, and the alignment of 4
is above a page; more than one lost node or one empty node repeats what one does
(`Bounded`).

`CHECK_DEADLOCK FALSE` everywhere: a driver whose bounded submissions are used up stops; in
`table` a leaked read lock really blocks every expansion for good, and all processes may end
up waiting for one; in `heap` a bound may be reached with all memory held or lost.  That
nothing stops earlier than that is what the liveness properties and `RefusalMeansBlocked`,
`StuckOnSleeper`, `ReadersExact` and `ServedIfRoom` say.

Fairness.  `TaskDispatch!Fairness`: weak fairness of each user's submission and wait, of
each cancel, the daemon and each core thread, because the kernel schedules runnable threads;
and of the end of each hardware job, because the network is a finite command stream.  A
task in `TimeOuts` may time out, none has to.  `SubmitInsert` and `CancelFind` are not
fair: nobody has to submit or cancel.  `PowerManagement!Fairness`: weak fairness of every
thread in the middle of its work (the rounds of an event, power thread, core thread,
debugfs reader, suspension and resume), of the timer, of the hardware's end and of the
daemon's dispatch; nobody has to submit, cancel, suspend, open a debugfs file or send an ioctl.

What the properties exempt.  `TaskEnds` a submission that sleeps through a suspension (the
resume signal may be lost, `vip_drv_pm.c:1274`); `StoppedNotStarted` and `StuckOnSleeper` the
same submission; `ClockCounted`, `JobPowered`, `ReadClocked`, `RunHasTask` and `UserOffTurnsOff` the
upsets they name (`ReadClocked` holds also through a suspension; `JobPowered` does not, because a
suspension first stops the jobs and then turns the cores off, and a job started in between loses
its core;
`RunHasTask` further leaves out a core whose wait timed out, up to the end of a later wait); `HeldKept`, `ReadersExact` and a part of `IdleExact` the slots in `exposed`;
`ReferencesExact` and `NothingLeftBehind` states in which no cancel has found a task yet
(after one, `cancel_hang` and `resubmit_success` show what is left behind);
`SafeWithoutHardwareCancel` hardware that can cancel (`cancel_running`);
`JobHasMemory` the tasks in `raced` and `overran`, `StrangersUntouched` those in `raced`, and both
with `NobodyLeftWaiting` the states that are not `Orderly`; `ServedIfRoom` requests of size zero
and a heap without idle nodes; `Owned` the `lost` nodes.

## Findings

* A cancel during the submission frees the slot of a task that is being queued: the daemon
  drops the task and a wait that has found the slot before never returns (`cancel_hang`).
* The same leftover makes a second submission of the handle report the success of a run
  that started before it was filled in (`resubmit_success`).
* `vipdrv_task_check_irq_value` overwrites the status CANCELED, so a task cancelled on
  hardware that can cancel is reported as done while the hardware still runs it, and its
  cores are given to others (`cancel_running`).

Where these do not interfere the properties hold: `SafeWithoutHardwareCancel` states
core exclusion, dispatch flags and honest success together for hardware that cannot cancel.

`ProcessExit` met three more hazards of the code, which its properties name as exceptions
(`raced`, `overran`, `struck` above): a job may start or go on after the memory of its process
was freed, the job of another process may be stopped, and a leftover queue entry may upset the
submission of a process that has nothing to do with it.

## Proofs

`Overtaking_proofs`, for all numbers of tasks, cores, priorities and all values of
the tuning constants, from `PoolAssumption` (they are naturals):

* `TypeCorrect`, `NoTies` -- the shape of the state; submission indices are distinct.
* `GapAlwaysRespected` -- also for a task behind the head of its heap.  The selection rule
  speaks of heads only; the lemma `HeadOfKind` gives the head of the waiting task's kind,
  which needs the same cores and ranks at least as high.
* `UrgentNotStarved` -- the count is not inductive.  `Inv` adds that the overtakers of a
  task have distinct indices, given out and not waiting, and that those of an urgent
  task lie in the `MAX_PREEMPT_COUNT` places after it (`Window`); an injection into that
  interval bounds the cardinality.
* `RefusedOnlyWhenBlocked` -- the best waiting task qualifies whenever it fits
  (`BestQualifies`), since no head is ahead of it.

`TaskDispatch_proofs`, for all numbers of tasks, slots, cores, submissions and cancels, with
or without hardware cancel and time-outs, from `DispatchAssumption`:

* `TypeCorrect` -- in particular the queue never holds a slot a negative number of times,
  although `vipdrv_queue_clean` and `vipdrv_queue_read` both take the same entry out.
* `NeverStartedOnceCancelled` -- the property `CancelledNeverStarted`.  It is not inductive:
  that a core thread starts only what is READY says nothing of marks.  `Pending` adds that a
  READY TCB is neither marked nor started, which submission establishes by clearing both,
  and which cancel and core thread each end by changing the status in the critical section
  in which they mark or start.
* Both rest on `Pointers`: a thread has a slot wherever it uses one, and a READY TCB names a
  task; without it the functions `tcb` and `node` would be applied outside their domains.
  `Inv == TypeOK /\ Pointers /\ Pending`; one lemma per action shows that it is preserved.

In its second part, under the same assumption:

* `SafeInvariant` -- `Safe == Inv /\ (Tame => Steady)`.  `Tame` holds until a submission may
  follow a cancel that found a task.  `Placed` says where a submitted task is: in exactly
  one of the queue, the daemon thread and one core thread.  `Flags` ties the dispatch flags to
  the core threads that have tasks, so that no two of them share a core.  `Owners` names the
  user of each slot, over its removal and reuse.  `Exact`, which holds until a cancel
  found a task, is the count of every slot: the property `ReferencesExact` is only the part
  of it that speaks of references, and is not inductive, as nothing in it says that the thread
  that gives a reference back still had one.
* `ReferencesCounted` -- the property `ReferencesExact`, with time-outs and hardware cancel.
* `CalmDispatchSafe`, `DispatchSafe` -- core exclusion, flags and honest success together.
  `Jobs` adds that a job belongs to the task of the core thread that waits for it, and that
  only such a thread sees its interrupt.  `DispatchSafe` has two hypotheses, which are those
  of the run: `TimeOuts = {}`, as a wait that times out gives the cores of a running job back,
  and `~LateSubmit`, as a submission after a cancel can revive a slot that is
  marked for removal (`resubmit_success`).  `CalmDispatchSafe` needs neither as a constant and
  says from which states on the property may fail.
* `EverythingGivenBack`, `NothingIsLeftBehind` -- when every call returned and all threads
  sleep.  With time-outs queue, slots and flags are given back, too; the property
  `NothingLeftBehind` also says that no job runs and therefore needs `TimeOuts = {}`.

`PowerManagement_proofs`, for all sets of cores and all bounds, from `PowerAssumption`:

* `TypeCorrect` -- `TypeInv` adds that a core is in `SUSPEND` exactly between its own
  suspension and its own resume; else `last_state` might not be a state to come back to.
* `DomainAlwaysCounted` -- one lemma per transition shows that the count of the domain
  moves by one exactly when the core enters or leaves a state of `ON`; all other actions
  leave state and count alone.
* `StoppedNeverStarted` -- `Locked`: a thread between the lock of its submission and its
  unlock owns the power mutex whatever events it sends meanwhile and however they return,
  so that nobody can have changed the user's flags since it looked.
* `OnlySleepersBlock` -- from `Locked`: the event of another thread needs the mutex a
  submission holds, unless it has released it to sleep.

In its second part `ClockAlwaysCounted`, `JobAlwaysPowered`,
`ReadAlwaysClocked` and `RunAlwaysHasTask`, the remaining safety properties, which hold
together or not at all: the count is right only if every `CLK_ON` and `CLK_OFF` of a pair comes
in a state that heeds it, the core stays in such a state only while the count keeps
the timer off, and a job is safe only while nobody but the thread of its core sends `RUN` and
`END`, and `END` leaves `RUN` only when the hardware is idle.  `Powered`, the invariant of `PowerInvariant`, has for each core `HoldersAt` (who
holds the clock and who is about to), `CountedAt` (the count is that of the holders and the
running task), `ReadyAt` (in the states of `CLOCK` the clock runs, and holders and job keep the
core there), `RunAt` (what the thread of the core is doing while it is in `RUN`) and `AsleepAt`
(a suspended core is in `SUSPEND`, and nobody holds its clock);
each is conditional on the upsets that the properties name.  No part assumes that a job ends
when its wait does.  `PowerAssumption` asks `CountMod` to be above 2, so that the count of a
reader and a running task does not wrap; the code's is 2^32.

`HandleTable_proofs`, for all sets of processes and handles, all capacities, growths and both
kinds of table, from `TableAssumption`: `TypeCorrect`, `ArrayNeverMoved`, `ScansCover`,
`IdleListExact`, `HoldersKeep`, `ReadersCounted`, which are all the properties of the run.
The invariant has eight parts (`Store`, `Threads`, `AtLeast`, `Listed`, `ScanCovers`,
`Locked`, `Kept`, `Counted`).  `AtLeast` -- read locks and references are never fewer than
those who will give one back -- holds always and keeps the counts natural and the writer
out.  `Kept` holds of slots outside `exposed` and is what makes `HeldKept` inductive: such a
slot has an exact count and a handle while it is used, and a process about to return it to
the idle list finds it neither in use nor returned, which is why two returns cannot happen.
`Counted` follows from `Kept`, as only a process refused at its release leaks.

`MemoryHeap_proofs`, for all sizes of heap, page, requests and alignments and any number of
nodes, from `HeapAssumption`: `HeapTiled`, `HeapOwned` and `HeapImplementsRanges` (the initial
state maps to the initial state of `AddressRanges`, every step to a step of it or a stutter).
The invariant is `Shape`, `Owned` and `Aligned`; `Shape` says that the nodes of the list are the
ones that are not idle, ordered by address and end to end.  The order is stated for all pairs
(`Ordered`): that neighbours touch does not tell empty nodes apart, which may lie at the
junction of two blocks.  The lemmas `SplitKeeps`, `CutKeeps`, `MergeAboveKeeps` and
`MergeBelowKeeps` are about the helper functions; `TakeGrants` and `FreeReleases` say what an
allocation and a free do to who holds what, and the rest argues with that only.

* `HeapConsistent`, `TypeCorrect` -- with `Counted`, that `free_bytes` is the sum of the free
  nodes (`BooksInvariant`).  No step of a split or merge is looked at for this: by `Filled` the
  nodes of the list, which lie end to end, sum to the size of the heap, so that the free ones
  are what the used ones leave, and of those an operation changes one only.
* `NeverFragmented`, `RoomIsServed` -- the property `ServedIfRoom`.  `Merged` says that no
  two nodes side by side in the list are free.  Inside an allocation and a free this fails
  for a moment, and `Pairs` says at which places: `SplitPairs` and `JoinPairs` follow them
  through the two splits and the two merges.  Then the unused stretch that a request needs is the
  room of one free node (`RoomOfOne`), the aligned start is the least one (`SkipLeast`), the node
  is part of `free_bytes` (`FreeCounted`), and the search stops at a node (`LeastPlace`).

`SumTheorems` is about what the library's `MapThenSumSet` returns.  The library's induction
theorems take an operator and cannot be instantiated here, but that `<` is well founded on the
naturals can be stated without one: a set of naturals with a member has a least one
(`LeastNumber`), hence induction over the members of a set (`NaturalInduction`), hence that a sum
exists, is unique, does not depend on the order (`TotalPick`), and splits at a union
(`TotalUnion`).

`TaskQueue_proofs`, for all numbers of tasks, cores and priorities, all times and tuning
constants, from `QueueAssumption`:

* `HeapsAlwaysOrdered`, `ListAlwaysOrdered` -- without a hypothesis on the number of writes.
  `keep_max_heap` is followed with a hole (`HoleAt`): all nodes but the one at `k` are in order,
  and the children of `k` are no better than its parent.  A removal opens the hole, each
  round of the upward loop moves it to the parent until the node above is no worse (`StepUp`,
  `SiftUpKeeps`), each round of the downward loop to the better child (`BestChild`, `StepDown`,
  `SiftDownKeeps`); that the loops have ended after as many rounds as there are nodes is an
  induction over the rounds (`NaturalInduction`).  `RankedInv` joins the order of the heaps to that
  of the list, which each operation disturbs at one heap only (`Changed`): `MovedLeft` and
  `Reordered` bring it back.  As only "not beaten by" is used, ties do no harm, and the invariant
  survives the reset of all indices at the end of `sum_count` (`IndicesReset`).
* `CountersAlwaysExact`, `QueueTypeCorrect` -- `ExactInv` adds that the indices tell all waiting
  nodes apart and lie below `sum_count`, that a node is in the heap of its kind and no task
  waits twice (`Numbered`), and that `cur_count` and the estimates are the sums over the heaps
  (`Counts`).  `cur_count` is at most the number of tasks because the tasks of different
  heaps are different (`AllCounted`).
* `ScanAlwaysSelects` -- `HeadIs` and `AheadIs` identify the entries that `TaskPool` calls heads,
  and those ahead of one, with the places of the list; for this two kinds never share a heap
  (`QueueIdInjective`) and heads of different heaps are never equal in rank.  `MustWaitIs` shows
  that the largest priority and the least index of the skipped heads say what the rule says of
  each of them.
* `QueueImplementsPool` -- the property `PoolSpec`: the initial state maps to the initial state of
  `TaskPool`, and every operation to the operation of the same name.

All but the first two theorems assume `MaxWrites < INDEX_MOD - 1`: the queue drains before
`sum_count`, a 32-bit counter, comes to its end.  They need it.  After the reset several nodes
have index 0, and when `VIPDRV_QUEUE_CLEAN_ONE` takes the last node of a heap, the upward loop
of `keep_max_heap` still looks at the place past the end: if its parent only ties with the
removed node, the two change places and the parent leaves the heap in its stead.

In its second part, about `CoreSchedule`, for all numbers of cores, from `QueueAssumption` and
`ScheduleAssumption`:

* `ScheduleFindsLeast` -- the window of `task_schedule`, for every run length and all loads, not
  only the four cores and four loads of the run.  `Covers` says what the window is good for:
  its loads decrease, and each core of the last `core_cnt` has one in it that is no earlier and
  no less loaded, so that its first is the busiest (`HeadBusiest`).  Dropping the core that slid
  out and the less loaded ones before a new core keeps it (`SlideCovers`, `PushCovers`), and with
  it that the best start found so far is the first of the least (`Scanned`), round by round.
* `AlwaysPlacedOnLeastLoaded` -- the property `PlacedOnLeastLoaded`, for as many writes as
  `ExactInv` allows.  `task_add_load_in_queue` counts an index over the kinds, while
  `vipdrv_task_tcb_submit` computes it from a formula; `KindsCounted` shows that both name the
  same heap, as `QueueId` numbers the kinds without a gap (`KindOfHeap`) in the order of
  the loops (`EarlierKinds`).  That the loads are those of the waiting tasks (`LoadsTrue`) then
  follows from the exact estimates and a sum over disjoint parts (`TotalParts`).

`ProcessExit_proofs`, for all numbers of processes, slots and cores, whichever processes end and
in which order, from `DispatchAssumption` and `ExitAssumption`:

* `TypesSurviveExit`, `NeverStartedThroughExit` -- the invariants `Inv` of `TaskDispatch_proofs`
  and `ExitTypes`, the books on the processes; in all states, orderly or not.
* `ExitInvariant` -- `ExitInv`: `Inv`, `ExitTypes`, and in `Orderly` states `Sound` while the
  threads run and `Halted` from `vipdrv_task_pre_uninit` on.
* `MemoryOutlivesJobs`, `StrangersGoOn`, `NothingStaysBehind` -- the three properties of the run,
  each a consequence of `ExitInv`.

The invariant cannot be the one of the dispatch.  `Exact` says that a task in the queue or in the
hands of a thread has a user who waits for it and a slot in use, and the clean-up takes both from
under it.  `Base` survives, because the threads carry on in the same places, and so do the
reference counts with the clean-up's own reference added (`Counted`).  The rest is replaced by
statements conditional on how far the clean-up of a task's process has come.  `TasksOwned`: while the
process is `Live`, its slot is its own and its task READY until it is started; once its
TCB was emptied, the task is never READY again, so that whichever thread has it drops it.
`SlotsOwned`: two slots never have the same handle, and a slot is marked for removal only by its own
process.  `JobsCarried` ties each job on the hardware to the core thread that waits for it,
which is how `CancelOnHardware` and `WaitIdle`, which look at the cores of a task, are known to
catch its job (`JobIsHis`), `JobsStopped` carries that to the release of the memory, and
`DoneIfTrusted` that an interrupt for anybody else is honest.  `Wakes` says who will wake the
daemon thread and each user.  `Halted` is inductive by itself: without a process nobody submits,
and nothing is READY.

`MeanwhileSound` is the step of the dispatch beside a clean-up, one lemma per action; `EndsSound`
says once what every step of a clean-up leaves alone, and each step adds its own.

Only model-checked: the liveness properties `UserReturnsEventually`, `TaskEnds` and
`UserOffTurnsOff`, which need fairness, and what lies outside the hypotheses named above:
`SafeWithoutHardwareCancel` and the idle hardware of `NothingLeftBehind` where waits may
time out.  All other properties of the runs that hold are theorems.

## Plan

Done: the queue, its rule and the choice of cores, the dispatch, the tables, the power
management, the heap, the end of a process, and proofs of all their safety properties.  Left, in
this order:

1. Lifecycle: the rest of `do_init` and `do_destroy` (error paths, process table).
2. Video-memory handles over the database, several allocators and their partial failures.

## Not modelled, and why

* Driver context: `do_init` and `do_destroy` hold one mutex from end to end, so that they
  interleave with nothing but the threads they start and stop; what can go wrong there is on
  error paths, which are sequential (`vip_drv_interface.c:91` jumps to the label that unlocks
  before it has locked; after a first initialisation that failed `initialize` is still 0, so
  that `vipdrv_destroy` frees nothing and the next initialisation allocates again).  The clean-up
  before `do_destroy` runs without that mutex and is `ProcessExit`.
* Creation of task descriptors, video-memory handles, user memory and the MMU's page tables:
  partial failures of long sequences of allocations, independent of the dispatch.  Their database
  is `HandleTable`, whose removal by force is left out, as only the last process uses it.
* Frequencies, the timer events nobody sends, register ioctls and register sequences, debug
  output, profiling: independent of the control or pure I/O.
* Thread creation; `vipdrv_task_recover`, which the build cannot reach.
* `vip1` (driver of earlier chips) and `aw_nna_galcore` (vendored, not used by the A733, most
  of the lines of the repository); the other task managers (compiled out); device trees,
  configuration, boot and image scripts, workflows (data and sequential scripts).
* Index wrap-around of the queue needs 2^32 - 1 writes without a drain: the formula is in
  `TaskQueue!Write`, no run reaches it; `HeapsAlwaysOrdered` and `ListAlwaysOrdered` hold across it.
