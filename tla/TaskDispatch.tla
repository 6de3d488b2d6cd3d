---------------------------- MODULE TaskDispatch ----------------------------
(***************************************************************************)
(* The parallel, synchronous task manager of vip2: user threads submit,    *)
(* wait for and cancel tasks; one daemon thread per device takes tasks     *)
(* from the queue and hands each to the thread of its first core; that     *)
(* thread starts the hardware, waits for its interrupt and wakes the user. *)
(*                                                                         *)
(* They share the table of task control blocks (TCBs), a hash table that   *)
(* maps the handle of a task to a slot and counts references to the slot,  *)
(* the TCB in the slot with its cancel_mutex, the queue, the dispatch flag *)
(* of each core, and signals.  An action is one operation on one of them:  *)
(* a call into the hash table or the queue, a critical section of          *)
(* cancel_mutex, or a signal; the threads interleave between them.         *)
(*                                                                         *)
(* Abstracted: which of the tasks that fit the free cores a read returns   *)
(* (TaskPool.tla), the order of the idle list, and the table's red-black   *)
(* trees.  The table never has to grow: see DispatchAssumption.            *)
(***************************************************************************)
EXTENDS Integers, FiniteSets

CONSTANTS Handles,      \* the tasks: task_id + subtask_index
          Cores,        \* the cores of the device
          Slots,        \* the entries of the table; 0 is no slot
          CoresOf,      \* the sets of consecutive cores a submission may ask for
          Rounds,       \* bound: submissions per handle
          MaxCancels,   \* bound: cancel calls per handle
          HwCancel,     \* the values VIP_HW_FEATURE_JOB_CANCEL may have
          TimeOuts,     \* the tasks whose wait for the hardware may time out
          LateSubmit,   \* whether a submission may begin after a cancel found a task
          NoHandle

ASSUME DispatchAssumption ==
  /\ IsFiniteSet(Handles) /\ NoHandle \notin Handles
  /\ Cores \subseteq Nat
  /\ CoresOf \in [Handles -> SUBSET ((SUBSET Cores) \ {{}})]
  /\ Slots \subseteq Nat \ {0} /\ IsFiniteSet(Slots)
  /\ Cardinality(Handles) <= Cardinality(Slots)
  /\ Rounds \in [Handles -> Nat] /\ MaxCancels \in [Handles -> Nat]
  /\ HwCancel \in (SUBSET BOOLEAN) \ {{}}
  /\ TimeOuts \subseteq Handles /\ LateSubmit \in BOOLEAN

(* hardware[task.core_index]: the core whose thread runs a task that needs *)
(* the cores of set.                                                       *)
FirstCore(set) == CHOOSE c \in set : \A d \in set : c <= d

VARIABLES
  node,            \* the table: handle, remove flag and reference count of a slot
  tcb,             \* the TCB of a slot: status, queue_data->v2, task, wait_signal
  queue,           \* how often a slot is in tskTCB_queue
  submit_signal,   \* device->tskTCB_submit_signal
  recover_signal,  \* device->tskTCB_recover_signal: value and wait_cond
  daemon,          \* the daemon thread: pc, flag of free cores, slot
  dispatch,        \* hw->dispatch
  tcb_index,       \* hw->tcb_index
  run_signal,      \* hw->core_thread_run_signal
  irq,             \* *hw->irq_value & IRQ_VALUE_FLAG
  core,            \* the core threads: pc, slot, status, wake
  jobs,            \* the jobs the hardware of a core is executing
  user,            \* the thread that submits and waits, per handle
  canceller,       \* the thread that cancels, per handle
  hw_cancel,       \* vipdrv_context_support(VIP_HW_FEATURE_JOB_CANCEL)
  started,         \* history: the hardware was started for the TCB of a slot
  finished,        \* history: the hardware finished the current submission
  cancel_found,    \* history: the handles some cancel found in the table
  marked           \* history: the TCB of a slot was cancelled in the queue

table   == <<node, tcb>>
hwVars  == <<dispatch, tcb_index, run_signal, irq, core, jobs>>
history == <<started, finished, cancel_found, marked>>
vars == <<node, tcb, queue, submit_signal, recover_signal, daemon, dispatch,
          tcb_index, run_signal, irq, core, jobs, user, canceller, hw_cancel,
          started, finished, cancel_found, marked>>

Statuses == {"EMPTY", "READY", "INFER_START", "INFER_END", "CANCELED"}
Results  == {"SUCCESS", "FAILURE", "CANCELED", "TIMEOUT"}

-----------------------------------------------------------------------------
(* The operations of the hash table (vip_drv_util.c). *)
Used(s) == s \in Slots /\ node[s].handle # NoHandle
Idle    == {s \in Slots : node[s].handle = NoHandle}
SlotsOf(h) == {s \in Slots : node[s].handle = h}

FreeNode(n) == [n EXCEPT !.handle = NoHandle, !.remove = FALSE]

(* The count of get_by_handle and get_by_index. *)
TakeRef(s) == node' = [node EXCEPT ![s].ref = @ + 1]

(* vipdrv_hashmap_remove_by_index, without force *)
MarkRemoved(s) ==
  node' = IF ~Used(s) THEN node
          ELSE [node EXCEPT ![s] = IF @.ref = 0 THEN FreeNode(@) ELSE [@ EXCEPT !.remove = TRUE]]

(* vipdrv_hashmap_unuse; wake says whether the callback sets wait_signal. *)
Dropped(n) ==
  IF n.ref = 1 /\ n.remove THEN FreeNode([n EXCEPT !.ref = 0]) ELSE [n EXCEPT !.ref = @ - 1]

Unuse(s, wake) ==
  /\ node' = IF Used(s) THEN [node EXCEPT ![s] = Dropped(@)] ELSE node
  /\ tcb' = IF Used(s) /\ wake THEN [tcb EXCEPT ![s].wake = TRUE] ELSE tcb

(* cancel_mutex is held across actions only by a cancel that waits for the *)
(* device to get idle; everywhere else the critical section is one action. *)
Locked(s) == \E h \in Handles : canceller[h].pc = "wait_idle" /\ canceller[h].slot = s

-----------------------------------------------------------------------------
Init ==
  /\ node = [s \in Slots |-> [handle |-> NoHandle, remove |-> FALSE, ref |-> 0]]
  /\ tcb = [s \in Slots |->
              [status |-> "EMPTY", v2 |-> "SUCCESS", task |-> NoHandle,
               cores |-> {}, wake |-> FALSE]]
  /\ queue = [s \in Slots |-> 0]
  /\ submit_signal = FALSE
  /\ recover_signal = [value |-> TRUE, cond |-> TRUE]
  /\ daemon = [pc |-> "sleep", flag |-> {}, slot |-> 0]
  /\ dispatch = [c \in Cores |-> FALSE]
  /\ tcb_index = [c \in Cores |-> 0]
  /\ run_signal = [c \in Cores |-> FALSE]
  /\ irq = [c \in Cores |-> FALSE]
  /\ core = [c \in Cores |-> [pc |-> "sleep", slot |-> 0, status |-> "SUCCESS", wake |-> FALSE]]
  /\ jobs = [c \in Cores |-> {}]
  /\ user = [h \in Handles |-> [pc |-> "out", slot |-> 0, left |-> Rounds[h], result |-> "SUCCESS"]]
  /\ canceller = [h \in Handles |-> [pc |-> "out", slot |-> 0, left |-> MaxCancels[h]]]
  /\ hw_cancel \in HwCancel
  /\ started = [s \in Slots |-> FALSE]
  /\ finished = [h \in Handles |-> TRUE]
  /\ cancel_found = {}
  /\ marked = [s \in Slots |-> FALSE]

-----------------------------------------------------------------------------
(* vipdrv_task_tcb_submit *)

UserGoes(h, pc) == user' = [user EXCEPT ![h].pc = pc]
UserReturns(h, result) == user' = [user EXCEPT ![h].pc = "out", ![h].result = result]

(* vipdrv_hashmap_insert: a handle still in the table is revived if it is  *)
(* marked for removal and refused otherwise.                               *)
SubmitInsert(h) ==
  /\ user[h].pc = "out" /\ user[h].left > 0
  /\ LateSubmit \/ cancel_found = {}
  /\ \E s \in (IF SlotsOf(h) = {} THEN Idle ELSE SlotsOf(h)) :
       IF node[s].handle = h /\ ~node[s].remove
       THEN /\ user' = [user EXCEPT ![h].left = @ - 1, ![h].result = "FAILURE"]
            /\ UNCHANGED node
       ELSE /\ node' = [node EXCEPT ![s].handle = h, ![s].remove = FALSE]
            /\ user' = [user EXCEPT ![h].left = @ - 1, ![h].pc = "get", ![h].slot = s]
  /\ UNCHANGED <<tcb, queue, submit_signal, recover_signal, daemon, hwVars,
                 canceller, hw_cancel, history>>

SubmitGet(h) ==
  LET s == user[h].slot
  IN  /\ user[h].pc = "get"
      /\ IF Used(s) THEN TakeRef(s) /\ UserGoes(h, "enqueue")
         ELSE UserReturns(h, "FAILURE") /\ UNCHANGED node
      /\ UNCHANGED <<tcb, queue, submit_signal, recover_signal, daemon, hwVars,
                     canceller, hw_cancel, history>>

(* The critical section: fill the TCB and write it to the queue, unless a  *)
(* cancel removed the task meanwhile.                                      *)
SubmitEnqueue(h) ==
  LET s == user[h].slot
  IN  /\ user[h].pc = "enqueue"
      /\ ~Locked(s)
      /\ IF node[s].remove
         THEN UserGoes(h, "abandon") /\ UNCHANGED <<tcb, queue, history>>
         ELSE /\ \E need \in CoresOf[h] :
                   tcb' = [tcb EXCEPT ![s] = [status |-> "READY", v2 |-> "FAILURE",
                                            task |-> h, cores |-> need, wake |-> FALSE]]
              /\ queue' = [queue EXCEPT ![s] = @ + 1]
              /\ started' = [started EXCEPT ![s] = FALSE]
              /\ finished' = [finished EXCEPT ![h] = FALSE]
              /\ marked' = [marked EXCEPT ![s] = FALSE]
              /\ UserGoes(h, "unuse")
              /\ UNCHANGED cancel_found
      /\ UNCHANGED <<node, submit_signal, recover_signal, daemon, hwVars, canceller, hw_cancel>>

SubmitUnuse(h) ==
  /\ user[h].pc \in {"abandon", "unuse"}
  /\ Unuse(user[h].slot, FALSE)
  /\ IF user[h].pc = "abandon" THEN UserReturns(h, "CANCELED") ELSE UserGoes(h, "signal")
  /\ UNCHANGED <<queue, submit_signal, recover_signal, daemon, hwVars, canceller,
                 hw_cancel, history>>

SubmitSignal(h) ==
  /\ user[h].pc = "signal"
  /\ submit_signal' = TRUE
  /\ UserGoes(h, "find")
  /\ UNCHANGED <<table, queue, recover_signal, daemon, hwVars, canceller, hw_cancel, history>>

Submit(h) ==
  \/ SubmitGet(h)
  \/ SubmitEnqueue(h)
  \/ SubmitUnuse(h)
  \/ SubmitSignal(h)

-----------------------------------------------------------------------------
(* vipdrv_task_tcb_wait *)

(* vipdrv_hashmap_get_by_handle looks the handle up in one critical        *)
(* section and counts the reference in another.                            *)
WaitFind(h) ==
  /\ user[h].pc = "find"
  /\ IF SlotsOf(h) = {} THEN UserReturns(h, "CANCELED")
     ELSE \E s \in SlotsOf(h) : user' = [user EXCEPT ![h].pc = "ref", ![h].slot = s]
  /\ UNCHANGED <<table, queue, submit_signal, recover_signal, daemon, hwVars,
                 canceller, hw_cancel, history>>

WaitRef(h) ==
  /\ user[h].pc = "ref"
  /\ TakeRef(user[h].slot)
  /\ UserGoes(h, "check")
  /\ UNCHANGED <<tcb, queue, submit_signal, recover_signal, daemon, hwVars,
                 canceller, hw_cancel, history>>

WaitCheck(h) ==
  LET s == user[h].slot
  IN  /\ user[h].pc = "check"
      /\ ~Locked(s)
      /\ user' = IF tcb[s].v2 = "CANCELED"
                 THEN [user EXCEPT ![h].pc = "remove", ![h].result = "CANCELED"]
                 ELSE [user EXCEPT ![h].pc = "block"]
      /\ UNCHANGED <<table, queue, submit_signal, recover_signal, daemon, hwVars,
                     canceller, hw_cancel, history>>

(* vipdrv_os_wait_signal returns; the signal is reset and the result read. *)
WaitWoken(h) ==
  LET s == user[h].slot
  IN  /\ user[h].pc = "block"
      /\ tcb[s].wake
      /\ tcb' = [tcb EXCEPT ![s].wake = FALSE, ![s].status = "EMPTY"]
      /\ user' = [user EXCEPT ![h].pc = "remove", ![h].result = tcb[s].v2]
      /\ UNCHANGED <<node, queue, submit_signal, recover_signal, daemon, hwVars,
                     canceller, hw_cancel, history>>

WaitRemove(h) ==
  /\ user[h].pc = "remove"
  /\ MarkRemoved(user[h].slot)
  /\ UserGoes(h, "leave")
  /\ UNCHANGED <<tcb, queue, submit_signal, recover_signal, daemon, hwVars,
                 canceller, hw_cancel, history>>

WaitLeave(h) ==
  /\ user[h].pc = "leave"
  /\ Unuse(user[h].slot, FALSE)
  /\ UserGoes(h, "out")
  /\ UNCHANGED <<queue, submit_signal, recover_signal, daemon, hwVars, canceller,
                 hw_cancel, history>>

Wait(h) ==
  \/ WaitFind(h) \/ WaitRef(h) \/ WaitCheck(h)
  \/ WaitWoken(h) \/ WaitRemove(h) \/ WaitLeave(h)

-----------------------------------------------------------------------------
(* vipdrv_task_daemon_thread_handle *)

DaemonGoes(pc) == daemon' = [daemon EXCEPT !.pc = pc]

(* The signal is reset before the queue is read, so that a submission or a *)
(* completion that comes while the queue is being read is not missed.      *)
DaemonAwake ==
  /\ daemon.pc = "sleep"
  /\ submit_signal
  /\ submit_signal' = FALSE
  /\ DaemonGoes("query")
  /\ UNCHANGED <<table, queue, recover_signal, hwVars, user, canceller, hw_cancel, history>>

(* query_hardware_dispatch *)
DaemonQuery ==
  /\ daemon.pc = "query"
  /\ daemon' = [daemon EXCEPT !.flag = {c \in Cores : ~dispatch[c]}, !.pc = "read"]
  /\ UNCHANGED <<table, queue, submit_signal, recover_signal, hwVars, user, canceller,
                 hw_cancel, history>>

Queued == {s \in Slots : queue[s] > 0}
FitsFlag(s) == tcb[s].cores \subseteq daemon.flag

(* Mutant: the signal is reset after the queue was read, not before. *)
DaemonReadThenReset ==
  /\ daemon.pc = "read"
  /\ \/ \E s \in Queued :
          /\ FitsFlag(s)
          /\ queue' = [queue EXCEPT ![s] = @ - 1]
          /\ daemon' = [daemon EXCEPT !.pc = "get", !.slot = s]
          /\ UNCHANGED submit_signal
     \/ /\ Queued = {} \/ \E s \in Queued : ~FitsFlag(s)
        /\ DaemonGoes("sleep")
        /\ submit_signal' = FALSE
        /\ UNCHANGED queue
  /\ UNCHANGED <<table, recover_signal, hwVars, user, canceller, hw_cancel, history>>

(* vipdrv_queue_read returns some task that fits; it may return none when  *)
(* a task that does not fit is queued, which the others may have to wait   *)
(* for (RefusalMeansBlocked of Overtaking.tla).                            *)
DaemonRead ==
  /\ daemon.pc = "read"
  /\ \/ \E s \in Queued :
          /\ FitsFlag(s)
          /\ queue' = [queue EXCEPT ![s] = @ - 1]
          /\ daemon' = [daemon EXCEPT !.pc = "get", !.slot = s]
     \/ /\ Queued = {} \/ \E s \in Queued : ~FitsFlag(s)
        /\ DaemonGoes("sleep")
        /\ UNCHANGED queue
  /\ UNCHANGED <<table, submit_signal, recover_signal, hwVars, user, canceller,
                 hw_cancel, history>>

DaemonGet ==
  /\ daemon.pc = "get"
  /\ IF Used(daemon.slot) THEN TakeRef(daemon.slot) /\ DaemonGoes("check")
     ELSE DaemonGoes("query") /\ UNCHANGED node
  /\ UNCHANGED <<tcb, queue, submit_signal, recover_signal, hwVars, user, canceller,
                 hw_cancel, history>>

DaemonCheck ==
  /\ daemon.pc = "check"
  /\ ~Locked(daemon.slot)
  /\ DaemonGoes(IF tcb[daemon.slot].status = "READY" THEN "dispatch" ELSE "remove")
  /\ UNCHANGED <<table, queue, submit_signal, recover_signal, hwVars, user, canceller,
                 hw_cancel, history>>

DaemonRemove ==
  /\ daemon.pc = "remove"
  /\ MarkRemoved(daemon.slot)
  /\ DaemonGoes("unuse")
  /\ UNCHANGED <<tcb, queue, submit_signal, recover_signal, hwVars, user, canceller,
                 hw_cancel, history>>

DaemonUnuse ==
  /\ daemon.pc = "unuse"
  /\ Unuse(daemon.slot, TRUE)
  /\ DaemonGoes("query")
  /\ UNCHANGED <<queue, submit_signal, recover_signal, hwVars, user, canceller,
                 hw_cancel, history>>

(* The cores of the task are set dispatched and the thread of its first    *)
(* core is woken; that thread inherits the daemon's reference.             *)
DaemonDispatch ==
  LET cores == tcb[daemon.slot].cores
  IN  /\ daemon.pc = "dispatch"
      /\ dispatch' = [c \in Cores |-> dispatch[c] \/ c \in cores]
      /\ tcb_index' = [tcb_index EXCEPT ![FirstCore(cores)] = daemon.slot]
      /\ run_signal' = [run_signal EXCEPT ![FirstCore(cores)] = TRUE]
      /\ DaemonGoes("query")
      /\ UNCHANGED <<table, queue, submit_signal, recover_signal, irq, core, jobs, user,
                     canceller, hw_cancel, history>>

Daemon ==
  \/ DaemonAwake \/ DaemonQuery \/ DaemonRead \/ DaemonGet \/ DaemonCheck
  \/ DaemonRemove \/ DaemonUnuse \/ DaemonDispatch

-----------------------------------------------------------------------------
(* vipdrv_task_core_thread_handle, for the thread of core c *)

CoreGoes(c, pc) == core' = [core EXCEPT ![c].pc = pc]

CoreAwake(c) ==
  /\ core[c].pc = "sleep"
  /\ run_signal[c]
  /\ run_signal' = [run_signal EXCEPT ![c] = FALSE]
  /\ CoreGoes(c, "get")
  /\ UNCHANGED <<table, queue, submit_signal, recover_signal, daemon, dispatch, tcb_index,
                 irq, jobs, user, canceller, hw_cancel, history>>

(* The thread looks up the slot it was handed. If the slot is not in use,  *)
(* it gives the daemon's reference back all the same, which is refused, and *)
(* goes back to sleep with its cores dispatched; get and unuse are one step *)
(* there, as the daemon's reference keeps the slot in use in every run.    *)
CoreGet(c) ==
  LET s == tcb_index[c]
  IN  /\ core[c].pc = "get"
      /\ IF Used(s)
         THEN /\ TakeRef(s) /\ UNCHANGED tcb
              /\ core' = [core EXCEPT ![c].pc = "inherit", ![c].slot = s]
         ELSE Unuse(s, FALSE) /\ CoreGoes(c, "sleep")
      /\ UNCHANGED <<queue, submit_signal, recover_signal, daemon, dispatch, tcb_index,
                     run_signal, irq, jobs, user, canceller, hw_cancel, history>>

(* Mutant: the daemon's reference is not given back. *)
CoreInheritKeeps(c) ==
  /\ core[c].pc = "inherit"
  /\ CoreGoes(c, "submit")
  /\ UNCHANGED <<table, queue, submit_signal, recover_signal, daemon, dispatch, tcb_index,
                 run_signal, irq, jobs, user, canceller, hw_cancel, history>>

(* The daemon's reference is given back. *)
CoreInherit(c) ==
  /\ core[c].pc = "inherit"
  /\ Unuse(tcb_index[c], FALSE)
  /\ CoreGoes(c, "submit")
  /\ UNCHANGED <<queue, submit_signal, recover_signal, daemon, dispatch, tcb_index,
                 run_signal, irq, jobs, user, canceller, hw_cancel, history>>

(* The job a TCB stands for: the task and which of its submissions. *)
Job(h) == <<h, user[h].left>>

(* Mutant: the status is not looked at again before the start. *)
CoreSubmitUnchecked(c) ==
  LET s == core[c].slot
      h == tcb[s].task
  IN  /\ core[c].pc = "submit"
      /\ ~Locked(s)
      /\ tcb' = [tcb EXCEPT ![s].status = "INFER_START"]
      /\ jobs' = [d \in Cores |-> IF d \in tcb[s].cores THEN jobs[d] \cup {Job(h)} ELSE jobs[d]]
      /\ started' = [started EXCEPT ![s] = TRUE]
      /\ CoreGoes(c, "irq")
      /\ UNCHANGED <<node, queue, submit_signal, recover_signal, daemon, dispatch, tcb_index,
                     run_signal, irq, user, canceller, hw_cancel, finished,
                     cancel_found, marked>>

(* vipdrv_task_submit in the critical section: it may fail (power or user  *)
(* power control), and the status becomes INFER_START in either case.      *)
CoreSubmit(c) ==
  LET s == core[c].slot
      h == tcb[s].task
  IN  /\ core[c].pc = "submit"
      /\ ~Locked(s)
      /\ tcb[s].status = "READY"
      /\ tcb' = [tcb EXCEPT ![s].status = "INFER_START"]
      /\ \/ /\ jobs' = [d \in Cores |-> IF d \in tcb[s].cores THEN jobs[d] \cup {Job(h)} ELSE jobs[d]]
            /\ started' = [started EXCEPT ![s] = TRUE]
            /\ CoreGoes(c, "irq")
         \/ /\ core' = [core EXCEPT ![c].pc = "result", ![c].status = "FAILURE"]
            /\ UNCHANGED <<jobs, started>>
      /\ UNCHANGED <<node, queue, submit_signal, recover_signal, daemon, dispatch, tcb_index,
                     run_signal, irq, user, canceller, hw_cancel, finished,
                     cancel_found, marked>>

(* A task that is no longer READY is not started. *)
CoreSkip(c) ==
  LET s == core[c].slot
  IN  /\ core[c].pc = "submit"
      /\ ~Locked(s)
      /\ tcb[s].status # "READY"
      /\ core' = [core EXCEPT ![c].pc = "remove", ![c].wake = (tcb[s].v2 = "CANCELED")]
      /\ tcb_index' = [tcb_index EXCEPT ![c] = 0]
      /\ UNCHANGED <<table, queue, submit_signal, recover_signal, daemon, dispatch,
                     run_signal, irq, jobs, user, canceller, hw_cancel, history>>

CoreRemove(c) ==
  /\ core[c].pc = "remove"
  /\ MarkRemoved(core[c].slot)
  /\ CoreGoes(c, "free")
  /\ UNCHANGED <<tcb, queue, submit_signal, recover_signal, daemon, dispatch, tcb_index,
                 run_signal, irq, jobs, user, canceller, hw_cancel, history>>

(* vipdrv_task_wait: the interrupt flag of the first core is consumed.     *)
(* The status that vipdrv_task_check_irq_value finds for a cancelled task  *)
(* or a bus error is overwritten by vipdrv_task_check_error, so SUCCESS is *)
(* what it returns.                                                        *)
CoreIrq(c) ==
  /\ core[c].pc = "irq"
  /\ irq[c]
  /\ irq' = [irq EXCEPT ![c] = FALSE]
  /\ core' = [core EXCEPT ![c].pc = "result", ![c].status = "SUCCESS"]
  /\ UNCHANGED <<table, queue, submit_signal, recover_signal, daemon, dispatch, tcb_index,
                 run_signal, jobs, user, canceller, hw_cancel, history>>

(* The wait times out; without vpmdENABLE_RECOVERY nothing stops the job.  *)
CoreTimeOut(c) ==
  /\ core[c].pc = "irq"
  /\ tcb[core[c].slot].task \in TimeOuts
  /\ ~irq[c]
  /\ core' = [core EXCEPT ![c].pc = "result", ![c].status = "TIMEOUT"]
  /\ UNCHANGED <<table, queue, submit_signal, recover_signal, daemon, dispatch, tcb_index,
                 run_signal, irq, jobs, user, canceller, hw_cancel, history>>

CoreResult(c) ==
  /\ core[c].pc = "result"
  /\ tcb_index' = [tcb_index EXCEPT ![c] = 0]
  /\ tcb' = [tcb EXCEPT ![core[c].slot].v2 = core[c].status]
  /\ CoreGoes(c, "end")
  /\ UNCHANGED <<node, queue, submit_signal, recover_signal, daemon, dispatch,
                 run_signal, irq, jobs, user, canceller, hw_cancel, history>>

CoreEnd(c) ==
  LET s == core[c].slot
  IN  /\ core[c].pc = "end"
      /\ ~Locked(s)
      /\ tcb' = [tcb EXCEPT ![s].status = "INFER_END"]
      /\ irq' = [irq EXCEPT ![c] = FALSE]
      /\ recover_signal' = [value |-> TRUE, cond |-> TRUE]
      /\ core' = [core EXCEPT ![c].pc = "free", ![c].wake = TRUE]
      /\ UNCHANGED <<node, queue, submit_signal, daemon, dispatch, tcb_index,
                     run_signal, jobs, user, canceller, hw_cancel, history>>

(* Mutant: only the first core is given back. *)
CoreFreeOne(c) ==
  /\ core[c].pc = "free"
  /\ dispatch' = [dispatch EXCEPT ![c] = FALSE]
  /\ CoreGoes(c, "unuse")
  /\ UNCHANGED <<table, queue, submit_signal, recover_signal, daemon, tcb_index,
                 run_signal, irq, jobs, user, canceller, hw_cancel, history>>

CoreFree(c) ==
  /\ core[c].pc = "free"
  /\ dispatch' = [d \in Cores |-> dispatch[d] /\ d \notin tcb[core[c].slot].cores]
  /\ CoreGoes(c, "unuse")
  /\ UNCHANGED <<table, queue, submit_signal, recover_signal, daemon, tcb_index,
                 run_signal, irq, jobs, user, canceller, hw_cancel, history>>

CoreUnuse(c) ==
  /\ core[c].pc = "unuse"
  /\ Unuse(core[c].slot, core[c].wake)
  /\ CoreGoes(c, "signal")
  /\ UNCHANGED <<queue, submit_signal, recover_signal, daemon, dispatch, tcb_index,
                 run_signal, irq, jobs, user, canceller, hw_cancel, history>>

CoreSignal(c) ==
  /\ core[c].pc = "signal"
  /\ submit_signal' = TRUE
  /\ CoreGoes(c, "sleep")
  /\ UNCHANGED <<table, queue, recover_signal, daemon, dispatch, tcb_index,
                 run_signal, irq, jobs, user, canceller, hw_cancel, history>>

CoreThread(c) ==
  \/ CoreAwake(c) \/ CoreGet(c) \/ CoreInherit(c) \/ CoreSubmit(c) \/ CoreSkip(c)
  \/ CoreRemove(c) \/ CoreIrq(c) \/ CoreTimeOut(c) \/ CoreResult(c) \/ CoreEnd(c)
  \/ CoreFree(c) \/ CoreUnuse(c) \/ CoreSignal(c)

(* The hardware finishes a job and raises the interrupt of its first core. *)
HardwareDone(h) ==
  \E j \in UNION {jobs[c] : c \in Cores} :
    /\ j[1] = h
    /\ jobs' = [c \in Cores |-> jobs[c] \ {j}]
    /\ irq' = [irq EXCEPT ![FirstCore({c \in Cores : j \in jobs[c]})] = TRUE]
    /\ finished' = [finished EXCEPT ![h] = @ \/ j = Job(h)]
    /\ UNCHANGED <<table, queue, submit_signal, recover_signal, daemon, dispatch, tcb_index,
                   run_signal, core, user, canceller, hw_cancel, started, cancel_found, marked>>

-----------------------------------------------------------------------------
(* vipdrv_task_tcb_cancel *)

CancelGoes(h, pc) == canceller' = [canceller EXCEPT ![h].pc = pc]

(* A cancel that finds no task ("bypass cancel") changes nothing. *)
CancelFind(h) ==
  /\ canceller[h].pc = "out" /\ canceller[h].left > 0
  /\ \E s \in SlotsOf(h) :
       canceller' = [canceller EXCEPT ![h] = [pc |-> "ref", slot |-> s, left |-> @.left - 1]]
  /\ cancel_found' = cancel_found \cup {h}
  /\ UNCHANGED <<table, queue, submit_signal, recover_signal, daemon, hwVars, user,
                 hw_cancel, started, finished, marked>>

CancelRef(h) ==
  /\ canceller[h].pc = "ref"
  /\ TakeRef(canceller[h].slot)
  /\ CancelGoes(h, "check")
  /\ UNCHANGED <<tcb, queue, submit_signal, recover_signal, daemon, hwVars, user,
                 hw_cancel, history>>

(* A task in the queue, or on its way from the queue to a core thread. *)
CancelReady(h) ==
  LET s == canceller[h].slot
  IN  /\ canceller[h].pc = "check"
      /\ ~Locked(s)
      /\ tcb[s].status = "READY"
      /\ tcb' = [tcb EXCEPT ![s].v2 = "CANCELED", ![s].status = "CANCELED"]
      /\ marked' = [marked EXCEPT ![s] = TRUE]
      /\ CancelGoes(h, "clean")
      /\ UNCHANGED <<node, queue, submit_signal, recover_signal, daemon, hwVars, user,
                     hw_cancel, started, finished, cancel_found>>

(* Mutant: the cancel assumes that the task is still queued. *)
CancelCleanBlind(h) ==
  LET s == canceller[h].slot
  IN  /\ canceller[h].pc = "clean"
      /\ queue' = [queue EXCEPT ![s] = @ - 1]
      /\ CancelGoes(h, "remove_wake")
      /\ UNCHANGED <<table, submit_signal, recover_signal, daemon, hwVars, user,
                     hw_cancel, history>>

(* vipdrv_queue_clean fails when the daemon has read the task already. *)
CancelClean(h) ==
  LET s == canceller[h].slot
  IN  /\ canceller[h].pc = "clean"
      /\ queue' = [queue EXCEPT ![s] = IF @ > 0 THEN @ - 1 ELSE 0]
      /\ CancelGoes(h, IF queue[s] > 0 THEN "remove_wake" ELSE "unuse")
      /\ UNCHANGED <<table, submit_signal, recover_signal, daemon, hwVars, user,
                     hw_cancel, history>>

(* A running task that the hardware cannot cancel: wait, at most 300 ms    *)
(* and with cancel_mutex locked, for the device to get idle.               *)
CancelRunning(h) ==
  LET s == canceller[h].slot
  IN  /\ canceller[h].pc = "check"
      /\ ~Locked(s)
      /\ tcb[s].status = "INFER_START"
      /\ ~hw_cancel
      /\ CancelGoes(h, "wait_idle")
      /\ UNCHANGED <<table, queue, submit_signal, recover_signal, daemon, hwVars, user,
                     hw_cancel, history>>

CancelWaited(h) ==
  /\ canceller[h].pc = "wait_idle"
  /\ CancelGoes(h, "unuse")
  /\ UNCHANGED <<table, queue, submit_signal, recover_signal, daemon, hwVars, user,
                 hw_cancel, history>>

(* Mutant: the interrupt flag is raised whatever the hardware can do. *)
CancelHardwareAlways(h) ==
  LET s == canceller[h].slot
  IN  /\ canceller[h].pc = "check"
      /\ ~Locked(s)
      /\ tcb[s].status = "INFER_START"
      /\ recover_signal' = [recover_signal EXCEPT !.value = FALSE]
      /\ irq' = [irq EXCEPT ![FirstCore(tcb[s].cores)] = TRUE]
      /\ CancelGoes(h, "recover")
      /\ UNCHANGED <<table, queue, submit_signal, daemon, dispatch, tcb_index, run_signal,
                     core, jobs, user, hw_cancel, history>>

(* A running task that the hardware can cancel: the cancel raises the      *)
(* interrupt flag itself.                                                  *)
CancelHardware(h) ==
  LET s == canceller[h].slot
  IN  /\ canceller[h].pc = "check"
      /\ ~Locked(s)
      /\ tcb[s].status = "INFER_START"
      /\ hw_cancel
      /\ recover_signal' = [recover_signal EXCEPT !.value = FALSE]
      /\ irq' = [irq EXCEPT ![FirstCore(tcb[s].cores)] = TRUE]
      /\ CancelGoes(h, "recover")
      /\ UNCHANGED <<table, queue, submit_signal, daemon, dispatch, tcb_index, run_signal,
                     core, jobs, user, hw_cancel, history>>

(* vipdrv_os_wait_signal: return at once if the value is set, else clear   *)
(* wait_cond and sleep until it is set.                                    *)
CancelAwait(h) ==
  /\ canceller[h].pc = "recover"
  /\ IF recover_signal.value
     THEN CancelGoes(h, "remove") /\ UNCHANGED recover_signal
     ELSE /\ recover_signal' = [recover_signal EXCEPT !.cond = FALSE]
          /\ CancelGoes(h, "blocked")
  /\ UNCHANGED <<table, queue, submit_signal, daemon, hwVars, user, hw_cancel, history>>

CancelWoken(h) ==
  /\ canceller[h].pc = "blocked"
  /\ recover_signal.cond
  /\ CancelGoes(h, "remove")
  /\ UNCHANGED <<table, queue, submit_signal, recover_signal, daemon, hwVars, user,
                 hw_cancel, history>>

(* A task that is not submitted yet or that is done already. *)
CancelOther(h) ==
  LET s == canceller[h].slot
  IN  /\ canceller[h].pc = "check"
      /\ ~Locked(s)
      /\ tcb[s].status \notin {"READY", "INFER_START"}
      /\ CancelGoes(h, "remove")
      /\ UNCHANGED <<table, queue, submit_signal, recover_signal, daemon, hwVars, user,
                     hw_cancel, history>>

CancelRemove(h) ==
  /\ canceller[h].pc \in {"remove", "remove_wake"}
  /\ MarkRemoved(canceller[h].slot)
  /\ CancelGoes(h, IF canceller[h].pc = "remove" THEN "unuse" ELSE "unuse_wake")
  /\ UNCHANGED <<tcb, queue, submit_signal, recover_signal, daemon, hwVars, user,
                 hw_cancel, history>>

CancelUnuse(h) ==
  /\ canceller[h].pc \in {"unuse", "unuse_wake"}
  /\ Unuse(canceller[h].slot, canceller[h].pc = "unuse_wake")
  /\ CancelGoes(h, "out")
  /\ UNCHANGED <<queue, submit_signal, recover_signal, daemon, hwVars, user,
                 hw_cancel, history>>

Cancel(h) ==
  \/ CancelRef(h) \/ CancelReady(h) \/ CancelClean(h) \/ CancelRunning(h)
  \/ CancelWaited(h) \/ CancelHardware(h) \/ CancelAwait(h) \/ CancelWoken(h)
  \/ CancelOther(h) \/ CancelRemove(h) \/ CancelUnuse(h)

-----------------------------------------------------------------------------
Next ==
  \/ \E h \in Handles : SubmitInsert(h) \/ Submit(h) \/ Wait(h)
  \/ Daemon
  \/ \E c \in Cores : CoreThread(c)
  \/ \E h \in Handles : HardwareDone(h)
  \/ \E h \in Handles : CancelFind(h) \/ Cancel(h)

(* The kernel schedules every thread, a user that submitted a task waits   *)
(* for it, and the hardware finishes what it started.  Nobody has to       *)
(* submit or cancel a task.                                                *)
Fairness ==
  /\ \A h \in Handles : WF_vars(Submit(h)) /\ WF_vars(Wait(h)) /\ WF_vars(Cancel(h))
  /\ \A h \in Handles : WF_vars(HardwareDone(h))
  /\ WF_vars(Daemon)
  /\ \A c \in Cores : WF_vars(CoreThread(c))

Spec == Init /\ [][Next]_vars /\ Fairness

-----------------------------------------------------------------------------
UserPcs == {"out", "get", "enqueue", "abandon", "unuse", "signal", "find", "ref",
            "check", "block", "remove", "leave"}
DaemonPcs == {"sleep", "query", "read", "get", "check", "remove", "unuse", "dispatch"}
CorePcs == {"sleep", "get", "inherit", "submit", "irq", "result", "end", "remove",
            "free", "unuse", "signal"}
CancelPcs == {"out", "ref", "check", "clean", "wait_idle", "recover", "blocked",
              "remove", "remove_wake", "unuse", "unuse_wake"}

Nodes       == [handle : Handles \cup {NoHandle}, remove : BOOLEAN, ref : Int]
TCBs        == [status : Statuses, v2 : Results, task : Handles \cup {NoHandle},
                cores : SUBSET Cores, wake : BOOLEAN]
Daemons     == [pc : DaemonPcs, flag : SUBSET Cores, slot : Slots \cup {0}]
CoreThreads == [pc : CorePcs, slot : Slots \cup {0}, status : Results, wake : BOOLEAN]
Users       == [pc : UserPcs, slot : Slots \cup {0}, left : Nat, result : Results]
Cancellers  == [pc : CancelPcs, slot : Slots \cup {0}, left : Nat]

(* Every variable keeps its type; in particular the queue holds no slot a  *)
(* negative number of times.  (ReferencesExact bounds the counts below.)   *)
TypeOK ==
  /\ node \in [Slots -> Nodes]
  /\ tcb \in [Slots -> TCBs]
  /\ queue \in [Slots -> Nat]
  /\ submit_signal \in BOOLEAN
  /\ recover_signal \in [value : BOOLEAN, cond : BOOLEAN]
  /\ daemon \in Daemons
  /\ dispatch \in [Cores -> BOOLEAN]
  /\ tcb_index \in [Cores -> Slots \cup {0}]
  /\ run_signal \in [Cores -> BOOLEAN]
  /\ irq \in [Cores -> BOOLEAN]
  /\ core \in [Cores -> CoreThreads]
  /\ jobs \in [Cores -> SUBSET (Handles \X Nat)]
  /\ user \in [Handles -> Users]
  /\ canceller \in [Handles -> Cancellers]
  /\ hw_cancel \in BOOLEAN
  /\ started \in [Slots -> BOOLEAN]
  /\ finished \in [Handles -> BOOLEAN]
  /\ cancel_found \in SUBSET Handles
  /\ marked \in [Slots -> BOOLEAN]

(* One job at a time on a core: "PARALLEL : One device execute multi-tasks *)
(* (use different cores) at the same time" (vip_lite_config.h:415).  Two   *)
(* threads and three flags stand between a task in the queue and the       *)
(* registers of its cores.                                                 *)
CoreExclusive == \A c \in Cores : Cardinality(jobs[c]) <= 1

(* A core that executes a job is marked dispatched, so the daemon thread   *)
(* hands it no other task: the flag is set before the core thread is woken *)
(* and cleared after the interrupt.                                        *)
BusyCoreDispatched == \A c \in Cores : jobs[c] # {} => dispatch[c]

(* The references the threads hold on a slot, by where they are.  The one  *)
(* the daemon thread took passes to the core thread it wakes.              *)
Holders(s) ==
  Cardinality({h \in Handles : user[h].slot = s /\ user[h].pc \in
                 {"enqueue", "abandon", "unuse", "check", "block", "remove", "leave"}})
  + Cardinality({h \in Handles : canceller[h].slot = s /\ canceller[h].pc \notin {"out", "ref"}})
  + (IF daemon.slot = s /\ daemon.pc \in {"check", "remove", "unuse", "dispatch"} THEN 1 ELSE 0)
  + Cardinality({c \in Cores : tcb_index[c] = s /\
                   (run_signal[c] \/ core[c].pc \in {"get", "inherit"})})
  + Cardinality({c \in Cores : core[c].slot = s /\ core[c].pc \notin {"sleep", "get", "signal"}})

(* While no cancel has found a task, the reference count of a slot is the  *)
(* number of threads that hold it, and a slot that a thread holds stays in *)
(* use: no thread reads or writes a TCB that was given to another task.    *)
ReferencesExact ==
  cancel_found = {} =>
    \A s \in Slots : node[s].ref = Holders(s) /\ (Holders(s) > 0 => Used(s))

Quiet ==
  /\ \A h \in Handles : user[h].pc = "out" /\ canceller[h].pc = "out"
  /\ daemon.pc = "sleep" /\ ~submit_signal
  /\ \A c \in Cores : core[c].pc = "sleep" /\ ~run_signal[c]

(* When every call returned and every thread sleeps, and no cancel found  *)
(* a task, nothing is left behind: no queued task, no slot in use, no core *)
(* marked dispatched.  A leak of any of them costs a slot or a core for    *)
(* good, since only the threads that sleep now could give it back.         *)
NothingLeftBehind ==
  Quiet /\ cancel_found = {} =>
    /\ \A s \in Slots : queue[s] = 0 /\ ~Used(s)
    /\ \A c \in Cores : ~dispatch[c] /\ jobs[c] = {}

(* A wait reports success only when the hardware finished this submission: *)
(* "wait irq return, inference done" (vip_drv_task_common.h).              *)
SuccessMeansFinished ==
  \A h \in Handles :
    (user[h].pc \in {"out", "remove", "leave"} /\ user[h].result = "SUCCESS") => finished[h]

(* While the hardware cannot cancel a job, the dispatch is safe in all     *)
(* three respects, whatever is cancelled: a queued task is withdrawn and a *)
(* running one is let finish.                                              *)
SafeWithoutHardwareCancel ==
  ~hw_cancel => CoreExclusive /\ BusyCoreDispatched /\ SuccessMeansFinished

(* A TCB that a cancel marked before its start is never handed to the      *)
(* hardware: the daemon thread may have read it from the queue already,    *)
(* and a core thread may have been woken for it.                           *)
CancelledNeverStarted == \A s \in Slots : ~(marked[s] /\ started[s])

(* Every submit and wait returns: no wake-up of the daemon thread, of a    *)
(* core thread or of a user is lost.                                       *)
UserReturnsEventually ==
  \A h \in Handles : user[h].pc # "out" ~> user[h].pc = "out"
=============================================================================
