---------------------------- MODULE ProcessExit ----------------------------
(***************************************************************************)
(* The end of a process that may still have a task queued or running: the  *)
(* driver's release of the file (drv_release, vipdrv_destroy) composed     *)
(* with the dispatch of TaskDispatch.tla.  It destroys the tasks of the    *)
(* process by force, frees their memory and, after the last process, stops *)
(* the daemon and the core threads.                                        *)
(*                                                                         *)
(* A process has one task and is named by its handle.  Processes register  *)
(* (do_init) before the model starts.  A file is released when no call is  *)
(* in the driver, so a process ends between its submission and its wait,   *)
(* or outside of both; a call that has begun is not interrupted.           *)
(***************************************************************************)
EXTENDS TaskDispatch

CONSTANTS Exiting,   \* the processes that may end
          SlowJobs   \* the tasks whose job may outlast the clean-up's wait of one second

ASSUME ExitAssumption == Exiting \subseteq Handles /\ SlowJobs \subseteq Handles

VARIABLES
  release,     \* the release of a process: pc, slot
  process_id,  \* context->process_id: the registered processes; initialize is their number
  memory,      \* the processes whose task descriptors and video memory exist
  running,     \* device->tskTCB_thread_running, and queue_stop its negation
  exited,      \* the threads that left their loop
  raced,       \* history: tasks whose job was started, or stopped, after the clean-up's look
  overran,     \* history: tasks whose job the clean-up could not stop or wait for
  struck       \* history: submissions that met the queue entry of a destroyed task

lifecycle == <<release, process_id, memory, running, exited>>
exitHistory == <<raced, overran, struck>>
exitVars == <<vars, lifecycle, exitHistory>>

DaemonThread == -1   \* the cores are natural numbers
Threads == Cores \cup {DaemonThread}

Alive(h) == release[h].pc = "alive"
OnHardware(h) == \E c \in Cores : \E j \in jobs[c] : j[1] = h

ExitInit ==
  /\ Init
  /\ release = [h \in Handles |-> [pc |-> "alive", slot |-> 0]]
  /\ process_id = Handles /\ memory = Handles
  /\ running = TRUE /\ exited = {}
  /\ raced = {} /\ overran = {} /\ struck = {}

-----------------------------------------------------------------------------
(* The dispatch while processes come to their end. *)

(* A core thread that wakes and finds the threads stopped leaves without a *)
(* look at its task.  The daemon thread may still read a task, for it looks*)
(* at queue_stop before it takes the mutex of the queue.                   *)
ThreadsRunning ==
  /\ DaemonThread \in exited => daemon' = daemon
  /\ \A c \in Cores : (c \in exited \/ (~running /\ core[c].pc = "sleep")) => core'[c] = core[c]

ProcessesAlive ==
  \A h \in Handles : ~Alive(h) => user'[h] = user[h] /\ canceller'[h] = canceller[h]

Started(h)  == OnHardware(h)' /\ ~OnHardware(h)

(* Bound: the wait for a job that runs does not time out (dispatch_live    *)
(* has those); the wait for one that vipdrv_hw_cancel stopped may.         *)
TimesOutOnlyStopped ==
  \A c \in Cores : (core[c].pc = "irq" /\ core'[c].status = "TIMEOUT")
                    => ~OnHardware(tcb[core[c].slot].task)

(* A submission takes a slot whose last task was destroyed while its entry *)
(* was in the queue, or in the hands of the daemon thread.                 *)
TakesLeftover(h) ==
  /\ user[h].pc = "out" /\ user'[h].pc = "get"
  /\ LET s == user'[h].slot
     IN  queue[s] > 0 \/ (daemon.pc = "get" /\ daemon.slot = s)

Meanwhile(Step) ==
  /\ Step
  /\ ThreadsRunning /\ ProcessesAlive /\ TimesOutOnlyStopped
  /\ raced' = raced \cup {h \in Handles : release[h].pc = "clear" /\ Started(h)}
  /\ struck' = struck \cup {h \in Handles : TakesLeftover(h)}
  /\ UNCHANGED <<lifecycle, overran>>

-----------------------------------------------------------------------------
(* drv_release and vipdrv_destroy, under open_mutex from end to end. *)

Goes(h, pc) == release' = [release EXCEPT ![h].pc = pc]

Release(h) ==
  /\ Alive(h) /\ h \in process_id
  /\ \A g \in Handles : release[g].pc \in {"alive", "gone"}
  /\ user[h].pc \in {"out", "find"} /\ canceller[h].pc = "out"
  /\ user' = [user EXCEPT ![h].pc = "out"]
  /\ Goes(h, "find")
  /\ UNCHANGED <<table, queue, submit_signal, recover_signal, daemon, hwVars, canceller,
                 hw_cancel, history, process_id, memory, running, exited, exitHistory>>

(* Mutant: the tasks of every process are destroyed. *)
FindAnyTask(h) ==
  /\ release[h].pc = "find"
  /\ IF \A s \in Slots : ~Used(s) THEN Goes(h, "free")
     ELSE \E s \in Slots : Used(s) /\ release' = [release EXCEPT ![h] = [pc |-> "ref", slot |-> s]]
  /\ UNCHANGED <<vars, process_id, memory, running, exited, exitHistory>>

(* vipdrv_task_desc_force_destroy: a task without a TCB is passed over. *)
FindTask(h) ==
  /\ release[h].pc = "find"
  /\ IF SlotsOf(h) = {} THEN Goes(h, "free")
     ELSE \E s \in SlotsOf(h) : release' = [release EXCEPT ![h] = [pc |-> "ref", slot |-> s]]
  /\ UNCHANGED <<vars, process_id, memory, running, exited, exitHistory>>

RefTask(h) ==
  /\ release[h].pc = "ref"
  /\ TakeRef(release[h].slot)
  /\ Goes(h, "look")
  /\ UNCHANGED <<tcb, queue, submit_signal, recover_signal, daemon, hwVars, user, canceller,
                 hw_cancel, history, process_id, memory, running, exited, exitHistory>>

(* Mutant: a running task is not waited for. *)
LookAtTaskOnly(h) ==
  /\ release[h].pc = "look"
  /\ Goes(h, "clear")
  /\ UNCHANGED <<vars, process_id, memory, running, exited, exitHistory>>

(* The status is read once, without cancel_mutex. *)
LookAtTask(h) ==
  /\ release[h].pc = "look"
  /\ Goes(h, IF tcb[release[h].slot].status # "INFER_START" THEN "clear"
             ELSE IF hw_cancel THEN "cancel" ELSE "wait_idle")
  /\ UNCHANGED <<vars, process_id, memory, running, exited, exitHistory>>

(* vipdrv_hw_cancel stops what the cores of the task execute by now, or    *)
(* fails, which is only reported.  A job that is stopped may raise the     *)
(* interrupt of its first core, and need not; nobody raises the flag in    *)
(* its place, as vipdrv_task_tcb_cancel does.                              *)
CancelOnHardware(h) ==
  LET need == tcb[release[h].slot].cores
      stopped == UNION {jobs[c] : c \in need}
  IN  /\ release[h].pc = "cancel"
      /\ \/ /\ jobs' = [c \in Cores |-> jobs[c] \ stopped]
            /\ \E told \in SUBSET stopped :
                 irq' = [c \in Cores |-> irq[c] \/ \E j \in told :
                                           c = FirstCore({d \in Cores : j \in jobs[d]})]
            /\ raced' = raced \cup ({j[1] : j \in stopped} \ {h})
            /\ UNCHANGED overran
         \/ /\ h \in SlowJobs
            /\ overran' = overran \cup {h}
            /\ UNCHANGED <<jobs, irq, raced>>
      /\ Goes(h, "clear")
      /\ UNCHANGED <<table, queue, submit_signal, recover_signal, daemon, dispatch, tcb_index,
                     run_signal, core, user, canceller, hw_cancel, history, process_id, memory,
                     running, exited, struck>>

(* vipdrv_hw_wait_idle for each core of the task; a time-out is reported   *)
(* and the clean-up goes on.                                               *)
WaitIdle(h) ==
  LET idle == \A c \in tcb[release[h].slot].cores : jobs[c] = {}
  IN  /\ release[h].pc = "wait_idle"
      /\ idle \/ h \in SlowJobs
      /\ overran' = IF idle THEN overran ELSE overran \cup {h}
      /\ Goes(h, "clear")
      /\ UNCHANGED <<vars, process_id, memory, running, exited, raced, struck>>

(* The TCB is emptied without cancel_mutex, and its entry stays in the     *)
(* queue.                                                                  *)
ClearTask(h) ==
  /\ release[h].pc = "clear"
  /\ tcb' = [tcb EXCEPT ![release[h].slot].status = "EMPTY", ![release[h].slot].v2 = "CANCELED"]
  /\ Goes(h, "remove")
  /\ UNCHANGED <<node, queue, submit_signal, recover_signal, daemon, hwVars, user, canceller,
                 hw_cancel, history, process_id, memory, running, exited, exitHistory>>

RemoveTask(h) ==
  /\ release[h].pc = "remove"
  /\ MarkRemoved(release[h].slot)
  /\ Goes(h, "unuse")
  /\ UNCHANGED <<tcb, queue, submit_signal, recover_signal, daemon, hwVars, user, canceller,
                 hw_cancel, history, process_id, memory, running, exited, exitHistory>>

UnuseTask(h) ==
  /\ release[h].pc = "unuse"
  /\ Unuse(release[h].slot, FALSE)
  /\ Goes(h, "free")
  /\ UNCHANGED <<queue, submit_signal, recover_signal, daemon, hwVars, user, canceller,
                 hw_cancel, history, process_id, memory, running, exited, exitHistory>>

(* destroy_task and vipdrv_mem_force_free_videomemory *)
FreeMemory(h) ==
  /\ release[h].pc = "free"
  /\ memory' = memory \ {h}
  /\ Goes(h, "destroy")
  /\ UNCHANGED <<vars, process_id, running, exited, exitHistory>>

(* Mutant: the threads are stopped while one process is left. *)
DestroyEarly(h) ==
  /\ release[h].pc = "destroy"
  /\ process_id' = process_id \ {h}
  /\ IF Cardinality(process_id') <= 1
     THEN /\ running' = FALSE
          /\ submit_signal' = TRUE
          /\ recover_signal' = [value |-> TRUE, cond |-> TRUE]
          /\ run_signal' = [c \in Cores |-> TRUE]
          /\ Goes(h, "stop")
     ELSE /\ Goes(h, "gone")
          /\ UNCHANGED <<running, submit_signal, recover_signal, run_signal>>
  /\ UNCHANGED <<table, queue, daemon, dispatch, tcb_index, irq, core, jobs, user, canceller,
                 hw_cancel, history, memory, exited, exitHistory>>

(* do_destroy, and vipdrv_task_pre_uninit when no process is left. *)
Destroy(h) ==
  /\ release[h].pc = "destroy"
  /\ process_id' = process_id \ {h}
  /\ IF process_id' = {}
     THEN /\ running' = FALSE
          /\ submit_signal' = TRUE
          /\ recover_signal' = [value |-> TRUE, cond |-> TRUE]
          /\ run_signal' = [c \in Cores |-> TRUE]
          /\ Goes(h, "stop")
     ELSE /\ Goes(h, "gone")
          /\ UNCHANGED <<running, submit_signal, recover_signal, run_signal>>
  /\ UNCHANGED <<table, queue, daemon, dispatch, tcb_index, irq, core, jobs, user, canceller,
                 hw_cancel, history, memory, exited, exitHistory>>

(* The wait for the threads ends after 100 s even if one is still inside   *)
(* its loop; no task of the model waits so long.                           *)
Stopped(h) ==
  /\ release[h].pc = "stop"
  /\ exited = Threads
  /\ Goes(h, "gone")
  /\ UNCHANGED <<vars, process_id, memory, running, exited, exitHistory>>

CleanUp(h) ==
  \/ FindTask(h) \/ RefTask(h) \/ LookAtTask(h) \/ CancelOnHardware(h) \/ WaitIdle(h)
  \/ ClearTask(h) \/ RemoveTask(h) \/ UnuseTask(h) \/ FreeMemory(h) \/ Destroy(h) \/ Stopped(h)

(* A thread leaves its loop when it finds the threads stopped; the daemon  *)
(* thread gets no task from a queue that is stopped.                       *)
DaemonExit ==
  /\ ~running /\ daemon.pc \in {"sleep", "read"} /\ DaemonThread \notin exited
  /\ exited' = exited \cup {DaemonThread}
  /\ UNCHANGED <<vars, release, process_id, memory, running, exitHistory>>

CoreExit(c) ==
  /\ ~running /\ core[c].pc = "sleep" /\ c \notin exited
  /\ exited' = exited \cup {c}
  /\ UNCHANGED <<vars, release, process_id, memory, running, exitHistory>>

ExitNext ==
  \/ Meanwhile(Next)
  \/ \E h \in Exiting : Release(h) \/ CleanUp(h)
  \/ DaemonExit
  \/ \E c \in Cores : CoreExit(c)

ExitSpec == ExitInit /\ [][ExitNext]_exitVars

-----------------------------------------------------------------------------
(* What the properties assume: no cancel has found a task, and no          *)
(* submission has met a leftover entry.  One that has shares its slot with *)
(* the end of the entry's task: it may be given back while it runs, and a  *)
(* third process then meets it (vip_drv_task_descriptor.c:517).            *)
Orderly == cancel_found = {} /\ struck = {}

(* The hardware executes the commands of a process only while their memory *)
(* exists: "force destroy all related tasks" comes before "free all video  *)
(* memory" (vip_drv_interface.c:1003-1006).  Except for a task whose       *)
(* status was read before a core thread started it, and for a job that     *)
(* could be neither stopped nor waited for.                                *)
JobHasMemory ==
  Orderly => \A h \in Handles : OnHardware(h) => h \in memory \cup raced \cup overran

(* The end of a process does not disturb the task of another, though the   *)
(* daemon and core threads work on with slots that were taken from under   *)
(* them: when a call of a process that goes on has returned, its task was  *)
(* not cancelled, is not on the hardware, and was finished if it is said   *)
(* to be, unless its job was stopped in the place of one that had ended.   *)
StrangersUntouched ==
  Orderly =>
    \A h \in Handles :
      Alive(h) /\ user[h].pc = "out" =>
        /\ user[h].result # "CANCELED" /\ ~OnHardware(h)
        /\ user[h].result = "SUCCESS" /\ h \notin raced => finished[h]

(* No thread has work, and nobody is about to give it some. *)
Resting ==
  /\ running /\ daemon.pc = "sleep" /\ ~submit_signal
  /\ \A c \in Cores : core[c].pc = "sleep" /\ ~run_signal[c]
  /\ \A h \in Handles : /\ user[h].pc \notin {"enqueue", "unuse", "signal"}
                         /\ release[h].pc \in {"alive", "gone"}

(* No end of a process leaves anything behind that only the threads could  *)
(* clear away, nor anybody waiting for threads that rest: when they rest,  *)
(* no task is queued, no core is marked dispatched, every wait has its     *)
(* wake-up, and a slot in use belongs to a process that goes on and is in  *)
(* a call.  And they are not stopped while a process is left.              *)
NobodyLeftWaiting ==
  /\ Orderly /\ Resting =>
       /\ \A s \in Slots : queue[s] = 0
       /\ \A c \in Cores : ~dispatch[c]
       /\ \A h \in Handles : user[h].pc = "block" => tcb[user[h].slot].wake
       /\ \A s \in Slots : Used(s) => /\ Alive(node[s].handle)
                                      /\ user[node[s].handle].pc # "out"
  /\ ~running => \A h \in Handles : ~Alive(h)
=============================================================================
