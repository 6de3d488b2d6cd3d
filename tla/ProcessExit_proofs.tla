------------------------ MODULE ProcessExit_proofs --------------------------
(***************************************************************************)
(* Proofs about ProcessExit.tla for every number of processes, slots and   *)
(* cores and every order of ends: a process that ends takes its jobs off   *)
(* the hardware before its memory goes, leaves the tasks of the others     *)
(* alone, and leaves nothing behind that nobody clears away.               *)
(*                                                                         *)
(* Safe, the invariant of TaskDispatch_proofs, does not survive: it says   *)
(* that a task that is queued or worked on has a user who waits for it,    *)
(* and the clean-up takes slots from under the threads that use them.      *)
(* Base survives, for the threads carry on in the same places.  What the   *)
(* threads then find is told by how far the clean-up of the task's         *)
(* process is (TasksOwned): while it is live its slot, its status and its  *)
(* references are as in Exact, and after that its status is never READY    *)
(* again, so whoever has it drops it.                                      *)
(***************************************************************************)
EXTENDS ProcessExit, TaskDispatch_proofs

USE DEF Statuses, Results, UserPcs, DaemonPcs, CorePcs, CancelPcs

(* The clean-up of a process has a slot, or has emptied the TCB in it. *)
HasTask == {"ref", "look", "cancel", "wait_idle", "clear", "remove", "unuse"}
Cleared == {"remove", "unuse", "free", "destroy", "stop", "gone"}
ReleasePcs == {"alive", "find", "free", "destroy", "stop", "gone"} \cup HasTask

ExitTypes ==
  /\ release \in [Handles -> [pc : ReleasePcs, slot : Slots \cup {0}]]
  /\ process_id \subseteq Handles
  /\ running \in BOOLEAN
  /\ \A h \in Handles : release[h].pc \in HasTask => release[h].slot \in Slots
  /\ \A h \in Handles : release[h].pc \notin {"stop", "gone"} => h \in process_id
  /\ \A h \in Handles : release[h].pc \notin {"destroy", "stop", "gone"} => h \in memory
  /\ \A h \in Handles : ~Alive(h) => user[h].pc = "out" /\ canceller[h].pc = "out"
  /\ \A h \in Handles : release[h].pc = "stop" => ~running
  /\ ~running => process_id = {}

(* The TCB of a live process has not been emptied by force; the slot of a  *)
(* removed one is marked for removal by the process's own call or clean-up.*)
Live(h) == h \in Handles /\ release[h].pc \notin Cleared
Removed(h) == user[h].pc = "leave" \/ release[h].pc \in Cleared \ {"remove"}

(* Which slots are in use, by whom, and which of them are marked. *)
SlotsOwned ==
  /\ \A h \in Handles : canceller[h].pc = "out"
  /\ \A h \in Handles : Alive(h) /\ user[h].pc = "out" => \A s \in Slots : node[s].handle # h
  /\ \A h \in Handles : user[h].pc # "out" =>
       user[h].pc # "abandon" /\ node[user[h].slot].handle = h
  /\ \A h \in Handles : release[h].pc \in HasTask => node[release[h].slot].handle = h
  /\ \A s, t \in Slots : node[s].handle = node[t].handle => s = t \/ node[s].handle = NoHandle
  /\ \A s \in Slots, h \in Handles : node[s].handle = h =>
       /\ Removed(h) => node[s].remove
       /\ node[s].remove => Removed(h) \/ release[h].pc = "remove"

(* The places in which a task is not started yet, and those in which it is *)
(* about to be dropped.                                                    *)
Unstarted(s) ==
  InQueue(s) \/ AtDaemon(s) \/ \E c \in Cores : HandedTo(c, s) \/ (core[c].slot = s /\ core[c].pc = "submit")
Going(s) ==
  \/ daemon.slot = s /\ daemon.pc \in {"remove", "unuse"}
  \/ \E c \in Cores : core[c].slot = s /\ core[c].pc = "remove"

TasksOwned ==
  \A s \in Slots, t \in Handles : Carried(s) /\ tcb[s].task = t =>
    /\ node[s].handle \in {NoHandle, t}
    /\ Live(t) => /\ node[s].handle = t
                  /\ Unstarted(s) => tcb[s].status = "READY"
                  /\ ~Going(s)
    /\ ~Live(t) => tcb[s].status # "READY"
    /\ Alive(t) => ~tcb[s].wake /\ user[t].slot = s /\ user[t].pc \in Waiting

StatusOf ==
  /\ \A s \in Slots : tcb[s].status = "READY" => Carried(s)
  /\ \A s \in Slots : Going(s) => tcb[s].status # "READY"
  /\ \A c \in Cores : core[c].pc \in {"irq", "result", "end", "free", "unuse"} =>
       tcb[core[c].slot].status # "READY"
  /\ \A h \in Handles : release[h].pc \in {"cancel", "wait_idle"} =>
       tcb[release[h].slot].status # "READY"
  /\ \A c \in Cores, t \in Handles :
       core[c].pc = "irq" /\ tcb[core[c].slot].task = t /\ Live(t) =>
         tcb[core[c].slot].status = "INFER_START"

Uncancelled ==
  /\ \A c \in Cores : core[c].status # "CANCELED"
  /\ \A h \in Handles : Alive(h) => user[h].result # "CANCELED"
  /\ \A h \in Handles : user[h].pc \in Waiting => tcb[user[h].slot].v2 # "CANCELED"

(* The references, with those of the clean-up. *)
ReleaseHolds(s) == \E h \in Handles : release[h].slot = s /\ release[h].pc \in HasTask \ {"ref"}
Held(s) ==
  One(UserHolds(s)) + One(DaemonHolds(s)) + One(Handed(s)) + One(CoreHolds(s))
  + One(ReleaseHolds(s))

Counted ==
  \A s \in Slots :
    /\ node[s].ref = Held(s)
    /\ node[s].ref # 0 => Used(s)
    /\ Used(s) /\ node[s].remove => node[s].ref # 0

(* The jobs the hardware executes are those of core threads that wait for  *)
(* an interrupt; a thread may also wait for one that was stopped.          *)
JobsCarried ==
  \A x \in Cores : \A j \in jobs[x] :
    \E c \in Cores : /\ Running(c) /\ x \in tcb[core[c].slot].cores /\ j = JobOf(c)
                     /\ \A y \in tcb[core[c].slot].cores : j \in jobs[y]

(* An interrupt, and a report of success, of a process that goes on is for *)
(* a job that was finished, unless another's clean-up stopped it.          *)
Trusted(h) == h \in Handles /\ Alive(h) /\ h \notin raced

DoneIfTrusted ==
  /\ \A c \in Cores : irq[c] => core[c].pc = "irq"
  /\ \A c \in Cores, t \in Handles :
       (irq[c] \/ (core[c].pc = "result" /\ core[c].status = "SUCCESS"))
         /\ tcb[core[c].slot].task = t /\ Trusted(t) => finished[t]
  /\ \A h \in Handles : Trusted(h) /\ Reports(h) => finished[h]

JobsStopped ==
  \A h \in Handles :
    release[h].pc \in {"clear"} \cup Cleared /\ OnHardware(h) => h \in raced \cup overran

(* Something will wake the daemon thread. *)
Pend ==
  \/ submit_signal
  \/ \E h \in Handles : user[h].pc \in {"unuse", "signal"}
  \/ \E c \in Cores : run_signal[c] \/ core[c].pc # "sleep"

Wakes ==
  /\ daemon.pc = "sleep" /\ (\E s \in Slots : InQueue(s)) => Pend
  /\ daemon.pc = "read" /\ daemon.flag # Cores => Pend
  /\ \A h \in Handles, s \in Slots :
       user[h].pc \in Waiting /\ user[h].slot = s => Carried(s) \/ tcb[s].wake
  /\ \A c \in Cores, t \in Handles :
       core[c].pc \in {"free", "unuse"} /\ tcb[core[c].slot].task = t /\ Alive(t) => core[c].wake

Sound ==
  /\ Base /\ SlotsOwned /\ TasksOwned /\ StatusOf /\ Uncancelled /\ Counted /\ MarksOwned
  /\ JobsCarried /\ DoneIfTrusted /\ JobsStopped /\ Wakes

(* Once the threads are told to stop, no task is started any more. *)
Halted ==
  /\ \A s \in Slots : tcb[s].status # "READY"
  /\ \A h \in Handles : release[h].pc \in {"stop", "gone"}
  /\ \A h \in Handles : OnHardware(h) => h \in raced \cup overran

ExitInv ==
  /\ Inv /\ ExitTypes
  /\ Orderly => (running => Sound) /\ (~running => Halted)

-----------------------------------------------------------------------------
(* The steps of the clean-up keep the types of what they change. *)
LEMMA ReleaseInv ==
  ASSUME Inv, NEW h \in Handles, Release(h)
  PROVE  Inv'
<1>1. user \in [Handles -> Users] BY DEF Inv, TypeOK
<1>2. user' = [user EXCEPT ![h].pc = "out"] BY DEF Release
<1>3. user' \in [Handles -> Users] BY <1>1, <1>2 DEF Users
<1>4. \A g \in Handles : user'[g].pc # "out" => user'[g] = user[g] BY <1>1, <1>2 DEF Users
<1>5. TypeOK' BY <1>3 DEF Inv, TypeOK, Release, table, hwVars, history
<1>6. Pointers' BY <1>4 DEF Inv, Pointers, Release, table, hwVars
<1>7. Pending' BY DEF Inv, Pending, Release, table, history
<1>8. QED BY <1>5, <1>6, <1>7 DEF Inv

LEMMA CancelOnHardwareInv ==
  ASSUME Inv, NEW h \in Handles, CancelOnHardware(h)
  PROVE  Inv'
<1>1. jobs \in [Cores -> SUBSET (Handles \X Nat)] /\ irq \in [Cores -> BOOLEAN]
  BY DEF Inv, TypeOK
<1>2. jobs' \in [Cores -> SUBSET (Handles \X Nat)] BY <1>1 DEF CancelOnHardware
<1>3. irq' \in [Cores -> BOOLEAN] BY <1>1 DEF CancelOnHardware
<1>4. TypeOK' BY <1>2, <1>3 DEF Inv, TypeOK, CancelOnHardware, table, history
<1>5. Pointers' BY DEF Inv, Pointers, CancelOnHardware, table
<1>6. Pending' BY DEF Inv, Pending, CancelOnHardware, table, history
<1>7. QED BY <1>4, <1>5, <1>6 DEF Inv

LEMMA ClearTaskInv ==
  ASSUME Inv, ExitTypes, NEW h \in Handles, ClearTask(h)
  PROVE  Inv'
<1>1. release[h].slot \in Slots BY DEF ExitTypes, ClearTask, HasTask
<1>2. tcb \in [Slots -> TCBs] BY DEF Inv, TypeOK
<1>3. tcb' = [tcb EXCEPT ![release[h].slot].status = "EMPTY", ![release[h].slot].v2 = "CANCELED"]
  BY DEF ClearTask
<1>4. tcb' \in [Slots -> TCBs] BY <1>1, <1>2, <1>3 DEF TCBs
<1>5. \A s \in Slots : tcb'[s].status = "READY" => tcb'[s] = tcb[s]
  BY <1>1, <1>2, <1>3 DEF TCBs
<1>6. TypeOK' BY <1>4 DEF Inv, TypeOK, ClearTask, hwVars, history
<1>7. Pointers' BY <1>5 DEF Inv, Pointers, ClearTask, hwVars
<1>8. Pending' BY <1>5 DEF Inv, Pending, ClearTask, history
<1>9. QED BY <1>6, <1>7, <1>8 DEF Inv

LEMMA ReleaseNodesInv ==
  ASSUME Inv, ExitTypes, NEW h \in Handles, RefTask(h) \/ RemoveTask(h) \/ UnuseTask(h)
  PROVE  Inv'
<1>1. release[h].slot \in Slots BY DEF ExitTypes, RefTask, RemoveTask, UnuseTask, HasTask
<1>2. node' \in [Slots -> Nodes] /\ tcb' = tcb
  <2>1. CASE RefTask(h) BY <1>1, <2>1, TakeRefTypes DEF Inv, RefTask
  <2>2. CASE RemoveTask(h) BY <1>1, <2>2, MarkRemovedTypes DEF Inv, RemoveTask
  <2>3. CASE UnuseTask(h) BY <1>1, <2>3, UnuseTypes DEF Inv, UnuseTask, Unuse
  <2>4. QED BY <2>1, <2>2, <2>3
<1>3. UNCHANGED <<queue, submit_signal, recover_signal, daemon, hwVars, user, canceller,
                  hw_cancel, history>>
  BY DEF RefTask, RemoveTask, UnuseTask
<1>4. TypeOK' BY <1>2, <1>3 DEF Inv, TypeOK, hwVars, history
<1>5. Pointers' BY <1>2, <1>3 DEF Inv, Pointers, hwVars
<1>6. Pending' BY <1>2, <1>3 DEF Inv, Pending, history
<1>7. QED BY <1>4, <1>5, <1>6 DEF Inv

LEMMA DestroyInv ==
  ASSUME Inv, NEW h \in Handles, Destroy(h)
  PROVE  Inv'
<1>a. (UNCHANGED <<submit_signal, recover_signal, run_signal>>)
      \/ (submit_signal' = TRUE /\ recover_signal' = [value |-> TRUE, cond |-> TRUE]
          /\ run_signal' = [c \in Cores |-> TRUE])
  BY DEF Destroy
<1>b. UNCHANGED <<table, queue, daemon, dispatch, tcb_index, irq, core, jobs, user, canceller,
                  hw_cancel, history>>
  BY DEF Destroy
<1>c. submit_signal' \in BOOLEAN /\ recover_signal' \in [value : BOOLEAN, cond : BOOLEAN]
      /\ run_signal' \in [Cores -> BOOLEAN]
  <2>1. /\ submit_signal \in BOOLEAN /\ recover_signal \in [value : BOOLEAN, cond : BOOLEAN]
        /\ run_signal \in [Cores -> BOOLEAN]
    BY DEF Inv, TypeOK
  <2>2. [value |-> TRUE, cond |-> TRUE] \in [value : BOOLEAN, cond : BOOLEAN] OBVIOUS
  <2>3. [c \in Cores |-> TRUE] \in [Cores -> BOOLEAN] OBVIOUS
  <2>4. QED BY <1>a, <2>1, <2>2, <2>3
<1>1. TypeOK'
  BY <1>b, <1>c DEF Inv, TypeOK, table, history
<1>2. Pointers' BY DEF Inv, Pointers, Destroy, table
<1>3. Pending' BY DEF Inv, Pending, Destroy, table, history
<1>4. QED BY <1>1, <1>2, <1>3 DEF Inv

LEMMA ExitNextInv ==
  ASSUME Inv, ExitTypes, [ExitNext]_exitVars
  PROVE  Inv'
<1>1. CASE UNCHANGED vars BY <1>1, StutterInv
<1>2. CASE Meanwhile(Next) BY <1>2, NextInv DEF Meanwhile
<1>3. CASE \E h \in Exiting : Release(h) \/ CleanUp(h)
  <2>1. PICK h \in Handles : Release(h) \/ CleanUp(h) BY <1>3, ExitAssumption
  <2>2. CASE UNCHANGED vars BY <2>2, StutterInv
  <2>3. QED
    BY <2>1, <2>2, ReleaseInv, CancelOnHardwareInv, ClearTaskInv, ReleaseNodesInv, DestroyInv
       DEF CleanUp, FindTask, LookAtTask, WaitIdle, FreeMemory, Stopped
<1>4. QED BY <1>1, <1>2, <1>3 DEF ExitNext, exitVars, DaemonExit, CoreExit

-----------------------------------------------------------------------------
(* The clean-up keeps the books on the processes: whoever has not gone is  *)
(* registered, whoever has not come to "free" has its memory, and one that *)
(* ends has no call in the driver.                                         *)
Ending == [pc : ReleasePcs \ {"alive"}, slot : Slots \cup {0}]

LEMMA ReleaseTypes ==
  ASSUME ExitTypes, NEW h \in Handles, NEW r \in Ending,
         release' = [release EXCEPT ![h] = r],
         UNCHANGED canceller, \A g \in Handles : g # h => user'[g] = user[g],
         user'[h].pc = "out", canceller[h].pc = "out",
         r.pc \in HasTask => r.slot \in Slots,
         process_id' \subseteq process_id, running' \in BOOLEAN,
         \A g \in process_id : g # h => g \in process_id',
         \A g \in memory : g # h => g \in memory',
         r.pc \notin {"stop", "gone"} => h \in process_id',
         r.pc \notin {"destroy", "stop", "gone"} => h \in memory',
         r.pc = "stop" => ~running',
         ~running => ~running', ~running' => process_id' = {}
  PROVE  ExitTypes'
<1>1. release \in [Handles -> [pc : ReleasePcs, slot : Slots \cup {0}]] BY DEF ExitTypes
<1>2. /\ release' \in [Handles -> [pc : ReleasePcs, slot : Slots \cup {0}]]
      /\ release'[h] = r /\ \A g \in Handles : g # h => release'[g] = release[g]
  BY <1>1 DEF Ending
<1>3. r.pc \in ReleasePcs \ {"alive"} BY DEF Ending
<1>4. process_id' \subseteq Handles BY DEF ExitTypes
<1>5. ASSUME NEW g \in Handles
      PROVE  /\ release'[g].pc \in HasTask => release'[g].slot \in Slots
             /\ release'[g].pc \notin {"stop", "gone"} => g \in process_id'
             /\ release'[g].pc \notin {"destroy", "stop", "gone"} => g \in memory'
             /\ ~Alive(g)' => user'[g].pc = "out" /\ canceller'[g].pc = "out"
             /\ release'[g].pc = "stop" => ~running'
  <2>1. CASE g = h BY <2>1, <1>2 DEF Alive
  <2>2. CASE g # h BY <2>2, <1>2 DEF Alive, ExitTypes
  <2>3. QED BY <2>1, <2>2
<1>6. QED BY <1>2, <1>4, <1>5 DEF ExitTypes

LEMMA ExitNextTypes ==
  ASSUME Inv, ExitTypes, [ExitNext]_exitVars
  PROVE  ExitTypes'
<1>1. CASE UNCHANGED <<release, process_id, memory, running, user, canceller>>
  BY <1>1 DEF ExitTypes, Alive
<1>2. CASE Meanwhile(Next)
  BY <1>2 DEF Meanwhile, lifecycle, ProcessesAlive, ExitTypes, Alive
<1>3. CASE \E h \in Exiting : Release(h) \/ CleanUp(h)
  <2>1. PICK h \in Handles : Release(h) \/ CleanUp(h) BY <1>3, ExitAssumption
  <2>2. release \in [Handles -> [pc : ReleasePcs, slot : Slots \cup {0}]] BY DEF ExitTypes
  <2>3. CASE Release(h)
    <3>1. user \in [Handles -> Users] BY DEF Inv, TypeOK
    <3>2. /\ \A g \in Handles : g # h => user'[g] = user[g]
          /\ user'[h].pc = "out" /\ canceller[h].pc = "out" /\ release[h].pc = "alive"
          /\ h \in process_id
          /\ UNCHANGED <<canceller, process_id, memory, running>>
      BY <2>3, <3>1 DEF Release, Users, Alive
    <3>3. PICK r \in Ending : r.pc = "find" /\ release' = [release EXCEPT ![h] = r]
      <4>1. [release[h] EXCEPT !.pc = "find"] \in Ending BY <2>2 DEF Ending, ReleasePcs
      <4>2. QED BY <4>1, <2>2, <2>3 DEF Release, Goes
    <3>4. h \in memory BY <3>2 DEF ExitTypes
    <3>5. QED BY <3>2, <3>3, <3>4, ReleaseTypes DEF HasTask, ExitTypes
  <2>4. CASE CleanUp(h)
    <3>1. /\ ~Alive(h) /\ UNCHANGED <<user, canceller>>
      BY <2>4 DEF CleanUp, FindTask, RefTask, LookAtTask, CancelOnHardware, WaitIdle, ClearTask,
                  RemoveTask, UnuseTask, FreeMemory, Destroy, Stopped, Alive, vars
    <3>2. user[h].pc = "out" /\ canceller[h].pc = "out" BY <3>1 DEF ExitTypes
    <3>3. CASE FindTask(h)
      <4>1. UNCHANGED <<process_id, memory, running>> /\ release[h].pc = "find"
        BY <3>3 DEF FindTask
      <4>2. \E r \in Ending : /\ release' = [release EXCEPT ![h] = r]
                              /\ r.pc = "free" \/ (r.pc = "ref" /\ r.slot \in Slots)
        <5>1. [release[h] EXCEPT !.pc = "free"] \in Ending BY <2>2 DEF Ending, ReleasePcs
        <5>2. \A s \in Slots : [pc |-> "ref", slot |-> s] \in Ending
          BY DEF Ending, ReleasePcs, HasTask
        <5>3. QED BY <5>1, <5>2, <3>3, <2>2 DEF FindTask, Goes, SlotsOf
      <4>3. QED BY <4>1, <4>2, <3>1, <3>2, ReleaseTypes DEF HasTask, ExitTypes
    <3>4. ASSUME NEW pc \in ReleasePcs \ {"alive"}, Goes(h, pc)
          PROVE  \E r \in Ending : /\ release' = [release EXCEPT ![h] = r]
                                   /\ r.pc = pc /\ r.slot = release[h].slot
      <4>1. [release[h] EXCEPT !.pc = pc] \in Ending BY <2>2 DEF Ending
      <4>2. QED BY <4>1, <3>4, <2>2 DEF Goes
    <3>5. CASE RefTask(h) \/ LookAtTask(h) \/ CancelOnHardware(h) \/ WaitIdle(h) \/ ClearTask(h)
               \/ RemoveTask(h) \/ UnuseTask(h)
      <4>1. UNCHANGED <<process_id, memory, running>> /\ release[h].pc \in HasTask
        BY <3>5 DEF RefTask, LookAtTask, CancelOnHardware, WaitIdle, ClearTask, RemoveTask,
                    UnuseTask, HasTask
      <4>2. \E pc \in (HasTask \cup {"free"}) : Goes(h, pc)
        BY <3>5 DEF RefTask, LookAtTask, CancelOnHardware, WaitIdle, ClearTask, RemoveTask,
                    UnuseTask, HasTask
      <4>3. PICK r \in Ending : /\ release' = [release EXCEPT ![h] = r]
                               /\ r.pc \in HasTask \cup {"free"} /\ r.slot = release[h].slot
        BY <4>2, <3>4 DEF ReleasePcs, HasTask
      <4>4. QED BY <4>1, <4>3, <3>1, <3>2, ReleaseTypes DEF HasTask, ExitTypes
    <3>6. CASE FreeMemory(h)
      <4>1. /\ UNCHANGED <<process_id, running>> /\ release[h].pc = "free"
            /\ memory' = memory \ {h} /\ Goes(h, "destroy")
        BY <3>6 DEF FreeMemory
      <4>2. PICK r \in Ending : release' = [release EXCEPT ![h] = r] /\ r.pc = "destroy"
        BY <4>1, <3>4 DEF ReleasePcs
      <4>3. QED BY <4>1, <4>2, <3>1, <3>2, ReleaseTypes DEF HasTask, ExitTypes
    <3>7. CASE Destroy(h)
      <4>1. /\ UNCHANGED memory /\ release[h].pc = "destroy" /\ process_id' = process_id \ {h}
            /\ \/ process_id' = {} /\ running' = FALSE /\ Goes(h, "stop")
               \/ process_id' # {} /\ UNCHANGED running /\ Goes(h, "gone")
        BY <3>7 DEF Destroy
      <4>2. PICK r \in Ending : /\ release' = [release EXCEPT ![h] = r]
                               /\ \/ process_id' = {} /\ running' = FALSE /\ r.pc = "stop"
                                  \/ process_id' # {} /\ UNCHANGED running /\ r.pc = "gone"
        BY <4>1, <3>4 DEF ReleasePcs
      <4>3. QED BY <4>1, <4>2, <3>1, <3>2, ReleaseTypes DEF HasTask, ExitTypes
    <3>8. CASE Stopped(h)
      <4>1. /\ UNCHANGED <<process_id, memory, running>> /\ release[h].pc = "stop" /\ Goes(h, "gone")
        BY <3>8 DEF Stopped
      <4>2. PICK r \in Ending : release' = [release EXCEPT ![h] = r] /\ r.pc = "gone"
        BY <4>1, <3>4 DEF ReleasePcs
      <4>3. QED BY <4>1, <4>2, <3>1, <3>2, ReleaseTypes DEF HasTask, ExitTypes
    <3>9. QED BY <2>4, <3>3, <3>5, <3>6, <3>7, <3>8 DEF CleanUp
  <2>5. QED BY <2>1, <2>3, <2>4
<1>4. CASE UNCHANGED <<vars, release, process_id, memory, running>>
  <2>1. UNCHANGED <<user, canceller>> BY <1>4 DEF vars
  <2>2. QED BY <2>1, <1>1, <1>4
<1>5. QED BY <1>2, <1>3, <1>4 DEF ExitNext, exitVars, lifecycle, DaemonExit, CoreExit

LEMMA ExitInitTypes == ExitInit => Inv /\ ExitTypes
<1> SUFFICES ASSUME ExitInit PROVE Inv /\ ExitTypes OBVIOUS
<1>1. Inv BY InitInv DEF ExitInit
<1>2. ExitTypes BY DispatchAssumption DEF DispatchAssumption, ExitInit, Init, ExitTypes, Alive, ReleasePcs, HasTask
<1>3. QED BY <1>1, <1>2

(* Every variable keeps its type through the ends of processes, whose      *)
(* clean-up empties a TCB that the threads still hold                      *)
(* (vip_drv_task_descriptor.c:498).                                        *)
THEOREM TypesSurviveExit == ExitSpec => []TypeOK
<1>1. ExitInit => Inv /\ ExitTypes BY ExitInitTypes
<1>2. Inv /\ ExitTypes /\ [ExitNext]_exitVars => (Inv /\ ExitTypes)'
  BY ExitNextInv, ExitNextTypes
<1>3. Inv => TypeOK BY DEF Inv
<1>4. QED BY <1>1, <1>2, <1>3, PTL DEF ExitSpec

(* No core thread starts a task that a cancel marked, though the clean-up  *)
(* of a process writes the TCB without cancel_mutex                        *)
(* (vip_drv_task_descriptor.c:488-498).                                    *)
THEOREM NeverStartedThroughExit == ExitSpec => []CancelledNeverStarted
<1>1. ExitInit => Inv /\ ExitTypes BY ExitInitTypes
<1>2. Inv /\ ExitTypes /\ [ExitNext]_exitVars => (Inv /\ ExitTypes)'
  BY ExitNextInv, ExitNextTypes
<1>3. Inv => CancelledNeverStarted BY DEF Inv, Pending, CancelledNeverStarted
<1>4. QED BY <1>1, <1>2, <1>3, PTL DEF ExitSpec

-----------------------------------------------------------------------------
(* What the dispatch may do to the table, seen from the clean-up: a slot   *)
(* it marks is one whose TCB was emptied, and a slot that it frees is one  *)
(* that the clean-up has done with.                                        *)
NodeKept(s) == node'[s].handle = node[s].handle /\ node'[s].remove = node[s].remove
NodeMarked(s) ==
  node'[s].handle = node[s].handle /\ node'[s].remove /\ ~Live(node[s].handle)
Finished(h) == release[h].pc \in {"free", "destroy", "stop", "gone"}
NodeFreed(s) ==
  node'[s].handle = NoHandle /\ (node[s].handle \in Handles => Finished(node[s].handle))
NodesGoOn == \A s \in Slots : NodeKept(s) \/ NodeMarked(s) \/ NodeFreed(s)

LEMMA OwnedKept ==
  ASSUME Inv, ExitTypes, SlotsOwned, NodesGoOn, UNCHANGED <<user, canceller, release>>
  PROVE  SlotsOwned'
<1>1. /\ \A h \in Handles : /\ Alive(h)' <=> Alive(h)
                            /\ Removed(h)' <=> Removed(h)
      /\ NoHandle \notin Handles
  BY DispatchAssumption DEF DispatchAssumption, Alive, Removed
<1>2. \A s \in Slots : node'[s].handle \in {node[s].handle, NoHandle}
  BY DEF NodesGoOn, NodeKept, NodeMarked, NodeFreed
<1>3. \A h \in Handles : canceller'[h].pc = "out" BY DEF SlotsOwned
<1>4. \A h \in Handles : Alive(h)' /\ user'[h].pc = "out" => \A s \in Slots : node'[s].handle # h
  BY <1>1, <1>2 DEF SlotsOwned
<1>5. \A s \in Slots, h \in Handles : node[s].handle = h /\ ~Finished(h) => node'[s].handle = h
  BY DEF NodesGoOn, NodeKept, NodeMarked, NodeFreed
<1>6. ASSUME NEW h \in Handles, user'[h].pc # "out"
      PROVE  user'[h].pc # "abandon" /\ node'[user'[h].slot].handle = h
  <2>1. Alive(h) /\ user[h].pc # "out" BY <1>6 DEF ExitTypes
  <2>2. user[h].pc # "abandon" /\ node[user[h].slot].handle = h BY <2>1 DEF SlotsOwned
  <2>3. ~Finished(h) BY <2>1 DEF Alive, Finished
  <2>4. user[h].slot \in Slots BY <2>1 DEF Inv, Pointers
  <2>5. QED BY <2>2, <2>3, <2>4, <1>5
<1>7. ASSUME NEW h \in Handles, release'[h].pc \in HasTask
      PROVE  node'[release'[h].slot].handle = h
  <2>1. release[h].slot \in Slots /\ node[release[h].slot].handle = h
    BY <1>7 DEF ExitTypes, SlotsOwned
  <2>2. ~Finished(h) BY <1>7 DEF Finished, HasTask
  <2>3. QED BY <2>1, <2>2, <1>5
<1>8. \A s, t \in Slots :
        node'[s].handle = node'[t].handle => s = t \/ node'[s].handle = NoHandle
  BY <1>2 DEF SlotsOwned
<1>9. ASSUME NEW s \in Slots, NEW h \in Handles, node'[s].handle = h
      PROVE  /\ Removed(h)' => node'[s].remove
             /\ node'[s].remove => Removed(h)' \/ release'[h].pc = "remove"
  <2>1. node[s].handle = h BY <1>1, <1>2, <1>9
  <2>2. NodeKept(s) \/ NodeMarked(s) BY <1>1, <1>9 DEF NodesGoOn, NodeFreed
  <2>3. CASE NodeKept(s) BY <2>1, <2>3, <1>1 DEF NodeKept, SlotsOwned
  <2>4. CASE NodeMarked(s)
    <3>1. node'[s].remove /\ release[h].pc \in Cleared BY <2>1, <2>4 DEF NodeMarked, Live
    <3>2. QED BY <3>1, <1>1 DEF Removed
  <2>5. QED BY <2>2, <2>3, <2>4
<1>10. QED BY <1>3, <1>4, <1>6, <1>7, <1>8, <1>9 DEF SlotsOwned

-----------------------------------------------------------------------------
(* The counts, by the change of what is held.                              *)
LEMMA HeldIs == \A s : /\ Held(s) \in Nat
                       /\ Held(s) = 0 => /\ ~UserHolds(s) /\ ~DaemonHolds(s) /\ ~Handed(s)
                                        /\ ~CoreHolds(s) /\ ~ReleaseHolds(s)
BY DEF Held, One

LEMMA ThreadHolds ==
  ASSUME UNCHANGED <<user, release>>
  PROVE  \A s : (UserHolds(s)' <=> UserHolds(s)) /\ (ReleaseHolds(s)' <=> ReleaseHolds(s))
BY DEF UserHolds, ReleaseHolds

LEMMA CountedKept ==
  ASSUME Counted,
         \A s \in Slots :
           /\ Held(s)' = Held(s)
           /\ node'[s].ref = node[s].ref /\ node'[s].handle = node[s].handle
           /\ node'[s].remove => node[s].remove \/ node[s].ref # 0
  PROVE  Counted'
BY DEF Counted, Used

LEMMA CountedTaken ==
  ASSUME Inv, Counted, NEW s \in Slots, Used(s), TakeRef(s),
         \A x \in Slots : Held(x)' = IF x = s THEN Held(x) + 1 ELSE Held(x)
  PROVE  Counted' /\ \A x \in Slots : NodeKept(x)
<1>1. \A x \in Slots : /\ node'[x].handle = node[x].handle
                       /\ node'[x].remove = node[x].remove
                       /\ node'[x].ref = IF x = s THEN node[x].ref + 1 ELSE node[x].ref
  BY TakeRefNodes DEF Inv
<1>2. Held(s) \in Nat BY HeldIs
<1>3. \A x \in Slots : node[x].ref = Held(x) BY DEF Counted
<1>4. QED BY <1>1, <1>2, <1>3 DEF Counted, Used, NodeKept

LEMMA CountedMarked ==
  ASSUME Inv, Counted, NEW s \in Slots, MarkRemoved(s), Held(s) # 0,
         \A x \in Slots : Held(x)' = Held(x)
  PROVE  Counted' /\ \A x \in Slots : \/ NodeKept(x)
                                      \/ x = s /\ node'[x].handle = node[x].handle /\ node'[x].remove
<1>1. Used(s) /\ node[s].ref # 0 BY DEF Counted
<1>2. \A x \in Slots : /\ node'[x].handle = node[x].handle
                       /\ node'[x].remove = (x = s \/ node[x].remove)
                       /\ node'[x].ref = node[x].ref
  BY <1>1, MarkRemovedNodes DEF Inv
<1>3. Counted' BY <1>1, <1>2, CountedKept
<1>4. \A x \in Slots : node[x].remove \in BOOLEAN BY DEF Inv, TypeOK, Nodes
<1>5. QED BY <1>2, <1>3, <1>4 DEF NodeKept

LEMMA CountedDropped ==
  ASSUME Inv, Counted, NEW s \in Slots, NEW wake \in BOOLEAN, Unuse(s, wake),
         \A x \in Slots : Held(x)' = IF x = s THEN Held(x) - 1 ELSE Held(x)
  PROVE  /\ Counted' /\ Used(s)
         /\ \A x \in Slots :
              \/ NodeKept(x)
              \/ /\ x = s /\ node[s].remove /\ Held(s)' = 0
                 /\ node'[s].handle = NoHandle /\ ~node'[s].remove
<1>1. node \in [Slots -> Nodes] BY DEF Inv, TypeOK
<1>2. Held(s) \in Nat /\ Held(s)' \in Nat BY DEF Held, One
<1>3. \A x \in Slots : node[x].ref = Held(x) BY DEF Counted
<1>4. Used(s) /\ node[s].ref = Held(s) /\ Held(s)' = node[s].ref - 1 /\ node[s].ref # 0
  BY <1>2, <1>3 DEF Counted
<1>5. node' = [node EXCEPT ![s] = Dropped(@)] BY <1>4 DEF Unuse
<1>6. node'[s] = Dropped(node[s]) /\ \A x \in Slots : x # s => node'[x] = node[x] BY <1>1, <1>5
<1>7. CASE node[s].ref = 1 /\ node[s].remove
  <2>1. node'[s].ref = 0 /\ node'[s].handle = NoHandle /\ ~node'[s].remove
    BY <1>1, <1>6, <1>7 DEF Dropped, FreeNode, Nodes
  <2>2. Counted' BY <2>1, <1>3, <1>4, <1>6, <1>7 DEF Counted, Used
  <2>3. QED BY <2>1, <2>2, <1>4, <1>6, <1>7 DEF NodeKept
<1>8. CASE ~(node[s].ref = 1 /\ node[s].remove)
  <2>1. /\ node'[s].ref = node[s].ref - 1 /\ node'[s].handle = node[s].handle
        /\ node'[s].remove = node[s].remove
    BY <1>1, <1>6, <1>8 DEF Dropped, Nodes
  <2>2. Counted' BY <2>1, <1>2, <1>3, <1>4, <1>6, <1>8 DEF Counted, Used
  <2>3. QED BY <2>1, <2>2, <1>4, <1>6 DEF NodeKept
<1>9. QED BY <1>7, <1>8

-----------------------------------------------------------------------------
(* A step of a thread or of a user that is not part of the clean-up.       *)
Beside ==
  /\ Inv /\ Inv' /\ ExitTypes /\ Sound /\ Base'
  /\ UNCHANGED <<release, overran, cancel_found>>
  /\ raced' = raced \cup {h \in Handles : release[h].pc = "clear" /\ Started(h)}

LEMMA BesideTells ==
  ASSUME Beside
  PROVE  /\ \A h : (Alive(h)' <=> Alive(h)) /\ (Live(h)' <=> Live(h)) /\ (Finished(h)' <=> Finished(h))
         /\ \A h \in Handles : user[h].pc # "out" => Alive(h) /\ Live(h)
         /\ \A h \in Handles : Alive(h) => Live(h)
         /\ \A h : h \in raced => h \in raced'
         /\ \A h : Trusted(h)' => Trusted(h)
         /\ NoHandle \notin Handles
<1>1. \A h : (Alive(h)' <=> Alive(h)) /\ (Live(h)' <=> Live(h)) /\ (Finished(h)' <=> Finished(h))
  BY DEF Beside, Alive, Live, Finished
<1>2. \A h \in Handles : user[h].pc # "out" => Alive(h) BY DEF Beside, ExitTypes
<1>3. \A h \in Handles : Alive(h) => Live(h) BY DEF Alive, Live, Cleared
<1>4. \A h : h \in raced => h \in raced' BY DEF Beside
<1>5. \A h : Trusted(h)' => Trusted(h) BY <1>1, <1>4 DEF Trusted
<1>6. QED BY <1>1, <1>2, <1>3, <1>4, <1>5, DispatchAssumption DEF DispatchAssumption

(* A slot whose last reference a thread gives back is one the clean-up has *)
(* done with: the user would hold one until it leaves.                     *)
LEMMA FreedIsFinished ==
  ASSUME Inv, ExitTypes, SlotsOwned, Owners, NEW s \in Slots, node[s].remove,
         ~UserHolds(s), ~ReleaseHolds(s), node[s].handle \in Handles
  PROVE  Finished(node[s].handle)
<1> DEFINE h == node[s].handle
<1>1. Removed(h) \/ release[h].pc = "remove" BY DEF SlotsOwned
<1>2. user[h].pc # "leave"
  <2> SUFFICES ASSUME user[h].pc = "leave" PROVE FALSE OBVIOUS
  <2>1. s = user[h].slot BY DEF Owners
  <2>2. QED BY <2>1 DEF UserHolds, Holding
<1>3. release[h].pc \notin {"remove", "unuse"}
  <2> SUFFICES ASSUME release[h].pc \in {"remove", "unuse"} PROVE FALSE OBVIOUS
  <2>1. release[h].slot \in Slots /\ node[release[h].slot].handle = h
    BY DEF ExitTypes, SlotsOwned, HasTask
  <2>2. release[h].slot = s BY <2>1, DispatchAssumption DEF SlotsOwned, DispatchAssumption
  <2>3. QED BY <2>2 DEF ReleaseHolds, HasTask
<1>4. QED BY <1>1, <1>2, <1>3 DEF Removed, Finished, Cleared

LEMMA ThreadTakes ==
  ASSUME Beside, UNCHANGED user, NEW s \in Slots, Used(s), TakeRef(s),
         \A x \in Slots : Held(x)' = IF x = s THEN Held(x) + 1 ELSE Held(x)
  PROVE  Counted' /\ NodesGoOn
BY CountedTaken DEF Beside, Sound, NodesGoOn

LEMMA ThreadMarks ==
  ASSUME Beside, UNCHANGED user, NEW s \in Slots, MarkRemoved(s), Held(s) # 0, Carried(s),
         ~Live(tcb[s].task), \A x \in Slots : Held(x)' = Held(x)
  PROVE  Counted' /\ NodesGoOn
<1>1. /\ Counted'
      /\ \A x \in Slots : \/ NodeKept(x)
                          \/ x = s /\ node'[x].handle = node[x].handle /\ node'[x].remove
  BY CountedMarked DEF Beside, Sound
<1>2. node[s].handle \in {NoHandle, tcb[s].task}
  BY DEF Beside, Sound, TasksOwned, Base, Owners
<1>3. ~Live(node[s].handle) BY <1>2, BesideTells DEF Live
<1>4. QED BY <1>1, <1>3 DEF NodesGoOn, NodeMarked

LEMMA ThreadDrops ==
  ASSUME Beside, UNCHANGED user, NEW s \in Slots, NEW wake \in BOOLEAN, Unuse(s, wake),
         \A x \in Slots : Held(x)' = IF x = s THEN Held(x) - 1 ELSE Held(x)
  PROVE  Counted' /\ NodesGoOn /\ Used(s)
<1>1. /\ Counted' /\ Used(s)
      /\ \A x \in Slots :
           \/ NodeKept(x)
           \/ /\ x = s /\ node[s].remove /\ Held(s)' = 0
              /\ node'[s].handle = NoHandle /\ ~node'[s].remove
  BY CountedDropped DEF Beside, Sound
<1>2. ASSUME node[s].remove, Held(s)' = 0, node[s].handle \in Handles
      PROVE  Finished(node[s].handle)
  <2>1. ~UserHolds(s)' /\ ~ReleaseHolds(s)' BY <1>2 DEF Held, One
  <2>2. ~UserHolds(s) /\ ~ReleaseHolds(s) BY <2>1, ThreadHolds DEF Beside
  <2>3. QED BY <2>2, <1>2, FreedIsFinished DEF Beside, Sound, Base
<1>3. QED BY <1>1, <1>2 DEF NodesGoOn, NodeFreed

-----------------------------------------------------------------------------
(* The parts of Sound through a step of a thread. *)
LEMMA TasksKept ==
  ASSUME Beside, UNCHANGED user, SameTasks, NodesGoOn,
         \A s \in Slots :
           /\ Carried(s)' => Carried(s) /\ (tcb'[s].wake => tcb[s].wake)
           /\ tcb'[s].status = "READY" => tcb[s].status = "READY"
           /\ Unstarted(s)' => Unstarted(s) /\ tcb'[s].status = tcb[s].status
           /\ Going(s)' => Going(s) \/ ~Live(tcb[s].task)
  PROVE  TasksOwned'
<1> SUFFICES ASSUME NEW s \in Slots, NEW t \in Handles, Carried(s)', tcb'[s].task = t
             PROVE  /\ node'[s].handle \in {NoHandle, t}
                    /\ Live(t)' => /\ node'[s].handle = t
                                   /\ Unstarted(s)' => tcb'[s].status = "READY"
                                   /\ ~Going(s)'
                    /\ ~Live(t)' => tcb'[s].status # "READY"
                    /\ Alive(t)' => /\ ~tcb'[s].wake /\ user'[t].slot = s
                                    /\ user'[t].pc \in Waiting
  BY DEF TasksOwned
<1>1. Carried(s) /\ tcb[s].task = t BY DEF SameTasks
<1>2. /\ node[s].handle \in {NoHandle, t}
      /\ Live(t) => /\ node[s].handle = t
                    /\ Unstarted(s) => tcb[s].status = "READY"
                    /\ ~Going(s)
      /\ ~Live(t) => tcb[s].status # "READY"
      /\ Alive(t) => ~tcb[s].wake /\ user[t].slot = s /\ user[t].pc \in Waiting
  BY <1>1 DEF Beside, Sound, TasksOwned
<1>3. /\ Live(t)' <=> Live(t)
      /\ Alive(t)' <=> Alive(t)
  BY BesideTells
<1>4. NodeKept(s) \/ NodeMarked(s) \/ NodeFreed(s) BY DEF NodesGoOn
<1>5. node'[s].handle \in {NoHandle, t} BY <1>2, <1>4 DEF NodeKept, NodeMarked, NodeFreed
<1>6. Live(t) => node'[s].handle = t
  BY <1>2, <1>4 DEF NodeKept, NodeMarked, NodeFreed, Live, Finished, Cleared
<1>7. QED BY <1>1, <1>2, <1>3, <1>5, <1>6

LEMMA MarksStay ==
  ASSUME MarksOwned, SameTasks, \A x \in Cores : dispatch'[x] => dispatch[x],
         \A x \in Cores, s \in Slots, c \in Cores :
           Owns(c, s) /\ x \in tcb[s].cores /\ dispatch'[x] => Owns(c, s)'
  PROVE  MarksOwned'
<1> SUFFICES ASSUME NEW x \in Cores, dispatch'[x]
             PROVE  \E c \in Cores, s \in Slots : Owns(c, s)' /\ x \in tcb'[s].cores
  BY DEF MarksOwned
<1>1. PICK c \in Cores, s \in Slots : Owns(c, s) /\ x \in tcb[s].cores BY DEF MarksOwned
<1>2. Owns(c, s)' /\ x \in tcb'[s].cores BY <1>1 DEF SameTasks
<1>3. QED BY <1>2

(* A step that leaves the hardware alone, and what the core threads have   *)
(* that wait for it, unless their jobs were stopped.                       *)
LEMMA JobsUntouched ==
  ASSUME Beside, SameTasks, UNCHANGED <<user, jobs>>,
         \A c \in Cores : Running(c) => \/ Running(c)' /\ core'[c].slot = core[c].slot
                                        \/ ~OnHardware(tcb[core[c].slot].task)
  PROVE  JobsCarried' /\ JobsStopped'
<1>1. ASSUME NEW x \in Cores, NEW j \in jobs[x]
      PROVE  \E c \in Cores : /\ Running(c)' /\ x \in tcb'[core'[c].slot].cores /\ j = JobOf(c)'
                              /\ \A y \in tcb'[core'[c].slot].cores : j \in jobs[y]
  <2>1. PICK c \in Cores : /\ Running(c) /\ x \in tcb[core[c].slot].cores /\ j = JobOf(c)
                           /\ \A y \in tcb[core[c].slot].cores : j \in jobs[y]
    BY DEF Beside, Sound, JobsCarried
  <2>2. core[c].slot \in Slots BY <2>1 DEF Running, Beside, Inv, Pointers
  <2>3. /\ tcb'[core[c].slot].cores = tcb[core[c].slot].cores
        /\ tcb'[core[c].slot].task = tcb[core[c].slot].task
    BY <2>2 DEF SameTasks
  <2>4. core'[c].slot = core[c].slot /\ Running(c)'
    <3>1. j[1] = tcb[core[c].slot].task BY <2>1 DEF JobOf, Job
    <3>2. OnHardware(tcb[core[c].slot].task) BY <3>1 DEF OnHardware
    <3>3. QED BY <2>1, <3>2
  <2>5. JobOf(c)' = JobOf(c) BY <2>3, <2>4 DEF JobOf, Job
  <2>6. QED BY <2>1, <2>3, <2>4, <2>5
<1>2. JobsCarried' BY <1>1 DEF JobsCarried
<1>3. JobsStopped'
  <2>1. \A h : OnHardware(h)' => OnHardware(h) BY DEF OnHardware
  <2>2. QED BY <2>1, BesideTells DEF Beside, Sound, JobsStopped
<1>4. QED BY <1>2, <1>3

-----------------------------------------------------------------------------
(* vipdrv_task_daemon_thread_handle: it leaves the hardware and the core   *)
(* threads alone, whatever became of the task it has.                      *)
LEMMA DaemonSound ==
  ASSUME Beside, SameTasks, NodesGoOn, Counted', MarksOwned',
         UNCHANGED <<user, canceller, core, irq, jobs, finished>>,
         \A s \in Slots :
           /\ tcb'[s].status = tcb[s].status /\ tcb'[s].v2 = tcb[s].v2
           /\ tcb[s].wake => tcb'[s].wake
           /\ Carried(s)' => Carried(s) /\ (tcb'[s].wake => tcb[s].wake)
           /\ Carried(s) /\ ~Carried(s)' => /\ tcb[s].status # "READY"
                                            /\ tcb'[s].wake \/ ~Live(tcb[s].task)
           /\ Unstarted(s)' => Unstarted(s)
           /\ Going(s)' => Going(s) \/ (tcb[s].status # "READY" /\ ~Live(tcb[s].task)),
         daemon'.pc = "sleep" /\ (\E s \in Slots : InQueue(s)') => Pend',
         daemon'.pc = "read" /\ daemon'.flag # Cores => Pend'
  PROVE  Sound'
<1>1. Base' /\ SlotsOwned' /\ TasksOwned'
  BY OwnedKept, TasksKept DEF Beside, Sound
<1>2. \A c \in Cores : core[c].pc \notin {"sleep", "get", "signal"} => core[c].slot \in Slots
  BY DEF Beside, Inv, Pointers
<1>3. StatusOf'
  <2>1. StatusOf BY DEF Beside, Sound
  <2>2. \A s \in Slots : tcb'[s].status = "READY" => Carried(s)' BY <2>1 DEF StatusOf
  <2>3. \A s \in Slots : Going(s)' => tcb'[s].status # "READY" BY <2>1 DEF StatusOf
  <2>4. \A c \in Cores : core'[c].pc \in {"irq", "result", "end", "free", "unuse"} =>
          tcb'[core'[c].slot].status # "READY"
    BY <2>1, <1>2 DEF StatusOf
  <2>5. \A h \in Handles : release'[h].pc \in {"cancel", "wait_idle"} =>
          tcb'[release'[h].slot].status # "READY"
    BY <2>1 DEF StatusOf, Beside, ExitTypes, HasTask
  <2>6. \A c \in Cores, t \in Handles :
          core'[c].pc = "irq" /\ tcb'[core'[c].slot].task = t /\ Live(t)' =>
            tcb'[core'[c].slot].status = "INFER_START"
    BY <2>1, <1>2, BesideTells DEF StatusOf, SameTasks
  <2>7. QED BY <2>2, <2>3, <2>4, <2>5, <2>6 DEF StatusOf
<1>4. Uncancelled'
  <2>1. \A h \in Handles : user[h].pc \in Waiting => user[h].slot \in Slots
    BY DEF Beside, Inv, Pointers, Waiting
  <2>2. QED BY <2>1, BesideTells DEF Beside, Sound, Uncancelled
<1>5. JobsCarried' /\ JobsStopped' BY JobsUntouched DEF Running
<1>6. DoneIfTrusted'
  <2>1. DoneIfTrusted BY DEF Beside, Sound
  <2>2. \A c \in Cores : irq'[c] => core'[c].pc = "irq" BY <2>1 DEF DoneIfTrusted
  <2>3. \A c \in Cores, t \in Handles :
          (irq'[c] \/ (core'[c].pc = "result" /\ core'[c].status = "SUCCESS"))
            /\ tcb'[core'[c].slot].task = t /\ Trusted(t)' => finished'[t]
    BY <2>1, <1>2, BesideTells DEF DoneIfTrusted, SameTasks
  <2>4. \A h \in Handles : Trusted(h)' /\ Reports(h)' => finished'[h]
    <3>1. \A h \in Handles : user[h].pc \in Waiting => user[h].slot \in Slots
      BY DEF Beside, Inv, Pointers, Waiting
    <3>2. \A h \in Handles : Reports(h)' => Reports(h) BY <3>1 DEF Reports
    <3>3. QED BY <2>1, <3>2, BesideTells DEF DoneIfTrusted
  <2>5. QED BY <2>2, <2>3, <2>4 DEF DoneIfTrusted
<1>7. Wakes'
  <2>1. Wakes BY DEF Beside, Sound
  <2>2. ASSUME NEW h \in Handles, NEW s \in Slots, user'[h].pc \in Waiting, user'[h].slot = s
        PROVE  Carried(s)' \/ tcb'[s].wake
    <3>1. user[h].slot = s /\ user[h].pc \in Waiting BY <2>2
    <3>2. Live(h) /\ tcb[s].task = h
      BY <3>1, BesideTells DEF Waiting, Beside, Sound, Base, Owners
    <3>3. Carried(s) \/ tcb[s].wake BY <2>1, <3>1 DEF Wakes
    <3>4. QED BY <3>2, <3>3
  <2>3. \A c \in Cores, t \in Handles :
          core'[c].pc \in {"free", "unuse"} /\ tcb'[core'[c].slot].task = t /\ Alive(t)' => core'[c].wake
    BY <2>1, <1>2, BesideTells DEF Wakes, SameTasks
  <2>4. QED BY <2>2, <2>3 DEF Wakes
<1>8. QED BY <1>1, <1>3, <1>4, <1>5, <1>6, <1>7 DEF Sound

LEMMA DaemonFrame ==
  ASSUME UNCHANGED <<user, release, tcb_index, run_signal, core>>
  PROVE  /\ \A x \in Slots, c \in Cores : /\ HandedTo(c, x)' <=> HandedTo(c, x)
                                          /\ CoreHas(c, x)' <=> CoreHas(c, x)
                                          /\ Owns(c, x)' <=> Owns(c, x)
         /\ \A x \in Slots :
              Held(x)' = Held(x) + One(DaemonHolds(x)') - One(DaemonHolds(x))
<1>1. \A x \in Slots, c \in Cores : /\ HandedTo(c, x)' <=> HandedTo(c, x)
                                    /\ CoreHas(c, x)' <=> CoreHas(c, x)
                                    /\ Owns(c, x)' <=> Owns(c, x)
  BY DEF HandedTo, CoreHas, WorksOn, Owns
<1>2. ASSUME NEW x \in Slots
      PROVE  Held(x)' = Held(x) + One(DaemonHolds(x)') - One(DaemonHolds(x))
  <2>1. /\ UserHolds(x)' <=> UserHolds(x)
        /\ ReleaseHolds(x)' <=> ReleaseHolds(x)
        /\ Handed(x)' <=> Handed(x)
        /\ CoreHolds(x)' <=> CoreHolds(x)
    BY <1>1, ThreadHolds DEF Handed, CoreHolds
  <2>2. QED BY <2>1 DEF Held, One
<1>3. QED BY <1>1, <1>2

(* A core that is marked belongs to a task that a core thread will end.    *)
LEMMA MarkedPends ==
  ASSUME MarksOwned, NEW x \in Cores, dispatch[x]
  PROVE  Pend
BY DEF MarksOwned, Owns, HandedTo, WorksOn, Pend

LEMMA DaemonWakesSound ==
  ASSUME Beside, DaemonAwake \/ DaemonQuery
  PROVE  Sound'
<1>1. UNCHANGED <<node, tcb, queue, tcb_index, run_signal, core, dispatch, irq, jobs, user,
                  canceller, finished>>
  BY DEF DaemonAwake, DaemonQuery, table, hwVars, history
<1>2. daemon \in Daemons BY DEF Beside, Inv, TypeOK
<1>3. \A s \in Slots : /\ ~AtDaemon(s) /\ ~AtDaemon(s)' /\ ~DaemonHolds(s) /\ ~DaemonHolds(s)'
                       /\ Going(s)' <=> Going(s)
  BY <1>1, <1>2 DEF DaemonAwake, DaemonQuery, DaemonGoes, AtDaemon, DaemonHolds, Daemons, Going
<1>4. UNCHANGED release BY DEF Beside
<1>5. /\ \A x \in Slots, c \in Cores : /\ HandedTo(c, x)' <=> HandedTo(c, x)
                                       /\ CoreHas(c, x)' <=> CoreHas(c, x)
                                       /\ Owns(c, x)' <=> Owns(c, x)
      /\ \A x \in Slots : Held(x)' = Held(x)
  <2>1. \A x \in Slots : Held(x)' = Held(x) + 0 - 0 BY <1>1, <1>3, <1>4, DaemonFrame DEF One
  <2>2. \A x \in Slots : Held(x) \in Nat BY HeldIs
  <2>3. QED BY <2>1, <2>2, <1>1, <1>4, DaemonFrame
<1>6. \A s \in Slots : /\ Carried(s)' <=> Carried(s)
                       /\ Unstarted(s)' <=> Unstarted(s)
  BY <1>1, <1>3, <1>5 DEF Carried, Unstarted, InQueue
<1>7. SameTasks /\ NodesGoOn BY <1>1 DEF SameTasks, NodesGoOn, NodeKept
<1>8. Counted' BY <1>1, <1>5, CountedKept DEF Beside, Sound
<1>9. MarksOwned' BY <1>1, <1>5, <1>7, MarksStay DEF Beside, Sound
<1>10. daemon'.pc # "sleep"
  BY <1>2 DEF DaemonAwake, DaemonQuery, DaemonGoes, Daemons
<1>11. ASSUME daemon'.pc = "read", daemon'.flag # Cores PROVE Pend'
  <2>1. daemon' = [daemon EXCEPT !.flag = {c \in Cores : ~dispatch[c]}, !.pc = "read"]
    BY <1>2, <1>11 DEF DaemonAwake, DaemonQuery, DaemonGoes, Daemons
  <2>2. PICK x \in Cores : dispatch[x] BY <2>1, <1>2, <1>11 DEF Daemons
  <2>3. dispatch'[x] BY <2>2, <1>1
  <2>4. QED BY <2>3, <1>9 DEF MarksOwned, Owns, HandedTo, WorksOn, Pend
<1>12. QED BY <1>1, <1>3, <1>6, <1>7, <1>8, <1>9, <1>10, <1>11, DaemonSound

LEMMA DaemonGetSound ==
  ASSUME Beside, DaemonGet
  PROVE  Sound'
<1>0. PICK s \in Slots : s = daemon.slot BY DEF DaemonGet, Beside, Inv, Pointers
<1>1. /\ UNCHANGED <<tcb, queue, tcb_index, run_signal, core, dispatch, irq, jobs, user, canceller,
                     finished, release>>
      /\ daemon.pc = "get"
      /\ IF Used(s) THEN TakeRef(s) /\ DaemonGoes("check") ELSE DaemonGoes("query") /\ UNCHANGED node
  BY <1>0 DEF DaemonGet, hwVars, history, Beside
<1>2. daemon \in Daemons BY DEF Beside, Inv, TypeOK
<1>3. AtDaemon(s) /\ Carried(s) /\ \A x \in Slots : ~DaemonHolds(x)
  BY <1>0, <1>1 DEF AtDaemon, Carried, DaemonHolds
<1>4. PICK t \in Handles : t = tcb[s].task BY <1>3 DEF Beside, Sound, Base, Owners
<1>5. ~Used(s) => ~Live(t) /\ tcb[s].status # "READY"
  BY <1>3, <1>4, BesideTells DEF Beside, Sound, TasksOwned, Used
<1>6. /\ \A x \in Slots, c \in Cores : /\ HandedTo(c, x)' <=> HandedTo(c, x)
                                       /\ CoreHas(c, x)' <=> CoreHas(c, x)
                                       /\ Owns(c, x)' <=> Owns(c, x)
      /\ \A x \in Slots : Held(x)' = Held(x) + One(DaemonHolds(x)')
  <2>1. \A x \in Slots : One(DaemonHolds(x)) = 0 BY <1>3 DEF One
  <2>2. \A x \in Slots : Held(x) \in Nat /\ One(DaemonHolds(x)') \in Nat BY HeldIs DEF One
  <2>3. \A x \in Slots : Held(x)' = Held(x) + One(DaemonHolds(x)') - 0
    BY <2>1, <1>1, DaemonFrame
  <2>4. QED BY <2>2, <2>3, <1>1, DaemonFrame
<1>7. /\ daemon'.slot = s /\ daemon'.pc = IF Used(s) THEN "check" ELSE "query"
      /\ \A x \in Slots : /\ AtDaemon(x)' <=> x = s /\ Used(s)
                          /\ DaemonHolds(x)' <=> x = s /\ Used(s)
  BY <1>0, <1>1, <1>2 DEF DaemonGoes, Daemons, AtDaemon, DaemonHolds
<1>8. \A x \in Slots :
        /\ Carried(x)' <=> (IF x = s /\ ~Used(s) THEN Carried(x)' ELSE Carried(x))
        /\ Carried(x)' => Carried(x)
        /\ Unstarted(x)' => Unstarted(x)
        /\ Going(x)' <=> Going(x)
  BY <1>0, <1>1, <1>3, <1>6, <1>7 DEF Carried, Unstarted, InQueue, AtDaemon, Going
<1>9. Counted' /\ NodesGoOn
  <2>1. CASE Used(s)
    <3>1. TakeRef(s) BY <2>1, <1>1
    <3>2. \A x \in Slots : Held(x)' = IF x = s THEN Held(x) + 1 ELSE Held(x)
      BY <2>1, <1>6, <1>7, HeldIs DEF One
    <3>3. QED BY <2>1, <3>1, <3>2, <1>1, ThreadTakes
  <2>2. CASE ~Used(s)
    <3>1. UNCHANGED node BY <2>2, <1>1
    <3>2. \A x \in Slots : Held(x)' = Held(x) BY <2>2, <1>6, <1>7, HeldIs DEF One
    <3>3. QED BY <3>1, <3>2, CountedKept DEF Beside, Sound, NodesGoOn, NodeKept
  <2>3. QED BY <2>1, <2>2
<1>10. SameTasks BY <1>1 DEF SameTasks
<1>11. MarksOwned' BY <1>1, <1>6, <1>10, MarksStay DEF Beside, Sound
<1>12. \A x \in Slots : Carried(x) /\ ~Carried(x)' => x = s /\ ~Used(s) BY <1>8
<1>13. daemon'.pc \notin {"sleep", "read"} BY <1>7
<1>14. QED BY <1>1, <1>4, <1>5, <1>8, <1>9, <1>10, <1>11, <1>12, <1>13, DaemonSound

LEMMA DaemonCheckSound ==
  ASSUME Beside, DaemonCheck
  PROVE  Sound'
<1>0. PICK s \in Slots : s = daemon.slot BY DEF DaemonCheck, Beside, Inv, Pointers
<1>1. /\ UNCHANGED <<node, tcb, queue, tcb_index, run_signal, core, dispatch, irq, jobs, user,
                     canceller, finished, release>>
      /\ daemon.pc = "check"
      /\ DaemonGoes(IF tcb[s].status = "READY" THEN "dispatch" ELSE "remove")
  BY <1>0 DEF DaemonCheck, table, hwVars, history, Beside
<1>2. daemon \in Daemons BY DEF Beside, Inv, TypeOK
<1>3. AtDaemon(s) /\ Carried(s) /\ Unstarted(s)
  BY <1>0, <1>1 DEF AtDaemon, Carried, Unstarted
<1>4. PICK t \in Handles : t = tcb[s].task BY <1>3 DEF Beside, Sound, Base, Owners
<1>5. Live(t) => tcb[s].status = "READY"
  BY <1>3, <1>4 DEF Beside, Sound, TasksOwned
<1>6. /\ daemon'.slot = s /\ daemon'.pc = IF tcb[s].status = "READY" THEN "dispatch" ELSE "remove"
      /\ \A x \in Slots : /\ AtDaemon(x)' <=> AtDaemon(x)
                          /\ DaemonHolds(x)' <=> DaemonHolds(x)
  BY <1>0, <1>1, <1>2 DEF DaemonGoes, Daemons, AtDaemon, DaemonHolds
<1>7. /\ \A x \in Slots, c \in Cores : /\ HandedTo(c, x)' <=> HandedTo(c, x)
                                       /\ CoreHas(c, x)' <=> CoreHas(c, x)
                                       /\ Owns(c, x)' <=> Owns(c, x)
      /\ \A x \in Slots : Held(x)' = Held(x)
  <2>1. \A x \in Slots : One(DaemonHolds(x)') = One(DaemonHolds(x)) BY <1>6 DEF One
  <2>2. \A x \in Slots : Held(x) \in Nat /\ One(DaemonHolds(x)) \in Nat BY HeldIs DEF One
  <2>3. QED BY <2>1, <2>2, <1>1, DaemonFrame
<1>8. \A x \in Slots : /\ Carried(x)' <=> Carried(x)
                       /\ Unstarted(x)' <=> Unstarted(x)
                       /\ Going(x)' => Going(x) \/ (x = s /\ tcb[s].status # "READY")
  BY <1>1, <1>6, <1>7 DEF Carried, Unstarted, InQueue, Going
<1>9. SameTasks /\ NodesGoOn BY <1>1 DEF SameTasks, NodesGoOn, NodeKept
<1>10. Counted' BY <1>1, <1>7, CountedKept DEF Beside, Sound
<1>11. MarksOwned' BY <1>1, <1>7, <1>9, MarksStay DEF Beside, Sound
<1>12. daemon'.pc \notin {"sleep", "read"} BY <1>6
<1>13. QED BY <1>1, <1>4, <1>5, <1>8, <1>9, <1>10, <1>11, <1>12, DaemonSound

(* The daemon thread drops only what was taken from under it.              *)
LEMMA DaemonDropsSound ==
  ASSUME Beside, DaemonRemove \/ DaemonUnuse
  PROVE  Sound'
<1>0. PICK s \in Slots : s = daemon.slot BY DEF DaemonRemove, DaemonUnuse, Beside, Inv, Pointers
<1>1. /\ UNCHANGED <<queue, tcb_index, run_signal, core, dispatch, irq, jobs, user,
                     canceller, finished, release>>
      /\ \/ daemon.pc = "remove" /\ MarkRemoved(s) /\ DaemonGoes("unuse") /\ UNCHANGED tcb
         \/ daemon.pc = "unuse" /\ Unuse(s, TRUE) /\ DaemonGoes("query")
  BY <1>0 DEF DaemonRemove, DaemonUnuse, hwVars, history, Beside
<1>2. daemon \in Daemons BY DEF Beside, Inv, TypeOK
<1>3. AtDaemon(s) /\ Carried(s) /\ Going(s)
  BY <1>0, <1>1 DEF AtDaemon, Carried, Going
<1>4. PICK t \in Handles : t = tcb[s].task BY <1>3 DEF Beside, Sound, Base, Owners
<1>5. ~Live(t) /\ tcb[s].status # "READY"
  BY <1>3, <1>4 DEF Beside, Sound, TasksOwned
<1>6. \A x \in Slots, c \in Cores : /\ HandedTo(c, x)' <=> HandedTo(c, x)
                                    /\ CoreHas(c, x)' <=> CoreHas(c, x)
                                    /\ Owns(c, x)' <=> Owns(c, x)
  BY <1>1, DaemonFrame
<1>7. CASE daemon.pc = "remove" /\ MarkRemoved(s) /\ DaemonGoes("unuse") /\ UNCHANGED tcb
  <2>1. /\ daemon'.slot = s /\ daemon'.pc = "unuse"
        /\ \A x \in Slots : /\ AtDaemon(x)' <=> AtDaemon(x)
                            /\ DaemonHolds(x)' <=> DaemonHolds(x)
                            /\ Going(x)' <=> Going(x)
    BY <1>0, <1>1, <1>2, <1>7 DEF DaemonGoes, Daemons, AtDaemon, DaemonHolds, Going
  <2>2. \A x \in Slots : Held(x)' = Held(x)
    <3>1. \A x \in Slots : One(DaemonHolds(x)') = One(DaemonHolds(x)) BY <2>1 DEF One
    <3>2. \A x \in Slots : Held(x) \in Nat /\ One(DaemonHolds(x)) \in Nat BY HeldIs DEF One
    <3>3. QED BY <3>1, <3>2, <1>1, DaemonFrame
  <2>3. \A x \in Slots : /\ Carried(x)' <=> Carried(x)
                         /\ Unstarted(x)' <=> Unstarted(x)
    BY <1>1, <1>6, <2>1 DEF Carried, Unstarted, InQueue
  <2>4. SameTasks BY <1>7 DEF SameTasks
  <2>5. Held(s) # 0
    <3>1. DaemonHolds(s) BY <1>0, <1>7 DEF DaemonHolds
    <3>2. QED BY <3>1, HeldIs
  <2>6. Counted' /\ NodesGoOn
    BY <1>1, <1>3, <1>4, <1>5, <1>7, <2>2, <2>5, ThreadMarks
  <2>7. MarksOwned' BY <1>1, <1>6, <2>4, MarksStay DEF Beside, Sound
  <2>8. daemon'.pc \notin {"sleep", "read"} BY <2>1
  <2>9. QED BY <1>1, <1>7, <2>1, <2>3, <2>4, <2>6, <2>7, <2>8, DaemonSound
<1>8. CASE daemon.pc = "unuse" /\ Unuse(s, TRUE) /\ DaemonGoes("query")
  <2>1. /\ daemon'.slot = s /\ daemon'.pc = "query"
        /\ \A x \in Slots : /\ ~AtDaemon(x)' /\ ~DaemonHolds(x)'
                            /\ DaemonHolds(x) <=> x = s
                            /\ AtDaemon(x) <=> x = s
                            /\ Going(x)' => Going(x)
    BY <1>0, <1>1, <1>2, <1>8 DEF DaemonGoes, Daemons, AtDaemon, DaemonHolds, Going
  <2>2. \A x \in Slots : Held(x)' = IF x = s THEN Held(x) - 1 ELSE Held(x)
    <3>1. \A x \in Slots : /\ One(DaemonHolds(x)') = 0
                           /\ One(DaemonHolds(x)) = IF x = s THEN 1 ELSE 0
      BY <2>1 DEF One
    <3>2. \A x \in Slots : Held(x) \in Nat BY HeldIs
    <3>3. \A x \in Slots : Held(x)' = Held(x) + 0 - (IF x = s THEN 1 ELSE 0)
      BY <3>1, <1>1, DaemonFrame
    <3>4. QED BY <3>2, <3>3
  <2>3. \A x \in Slots : /\ Carried(x)' => Carried(x) /\ x # s
                         /\ x # s => (Carried(x)' <=> Carried(x))
                         /\ Unstarted(x)' => Unstarted(x)
    <3>1. ~InQueue(s) /\ \A c \in Cores : ~CoreHas(c, s)
      BY <1>3 DEF Beside, Sound, Base, Placed, OnePlace
    <3>2. QED BY <1>1, <1>6, <2>1, <3>1 DEF Carried, Unstarted, InQueue
  <2>4. Counted' /\ NodesGoOn /\ Used(s) BY <1>1, <1>8, <2>2, ThreadDrops
  <2>5. /\ SameTasks
        /\ \A x \in Slots : tcb'[x].status = tcb[x].status /\ tcb'[x].v2 = tcb[x].v2
        /\ \A x \in Slots : x # s => tcb'[x].wake = tcb[x].wake
    BY <1>8, UnuseNodes DEF Beside, Inv
  <2>6. tcb'[s].wake
    <3>1. tcb \in [Slots -> TCBs] BY DEF Beside, Inv, TypeOK
    <3>2. QED BY <1>8, <2>4, <3>1 DEF Unuse, TCBs
  <2>7. MarksOwned' BY <1>1, <1>6, <2>5, MarksStay DEF Beside, Sound
  <2>8. daemon'.pc \notin {"sleep", "read"} BY <2>1
  <2>9. \A x \in Slots :
          /\ tcb[x].wake => tcb'[x].wake
          /\ Carried(x)' => Carried(x) /\ (tcb'[x].wake => tcb[x].wake)
          /\ Carried(x) /\ ~Carried(x)' => tcb[x].status # "READY" /\ tcb'[x].wake
    BY <1>5, <2>3, <2>5, <2>6
  <2>10. QED BY <1>1, <2>1, <2>3, <2>4, <2>5, <2>7, <2>8, <2>9, DaemonSound
<1>9. QED BY <1>1, <1>7, <1>8

(* When the daemon thread goes to sleep on a task that waits for cores, a  *)
(* core was marked when it looked, and whoever has it will wake it.        *)
LEMMA DaemonReadSound ==
  ASSUME Beside, DaemonRead
  PROVE  Sound'
<1>1. /\ UNCHANGED <<node, tcb, submit_signal, tcb_index, run_signal, core, dispatch, irq, jobs, user,
                     canceller, finished, release>>
      /\ daemon.pc = "read"
  BY DEF DaemonRead, table, hwVars, history, Beside
<1>2. daemon \in Daemons /\ queue \in [Slots -> Nat] BY DEF Beside, Inv, TypeOK
<1>3. SameTasks /\ NodesGoOn BY <1>1 DEF SameTasks, NodesGoOn, NodeKept
<1>4. \A x \in Slots : ~AtDaemon(x) /\ ~DaemonHolds(x) BY <1>1 DEF AtDaemon, DaemonHolds
<1>5. \A x \in Slots, c \in Cores : /\ HandedTo(c, x)' <=> HandedTo(c, x)
                                    /\ CoreHas(c, x)' <=> CoreHas(c, x)
                                    /\ Owns(c, x)' <=> Owns(c, x)
  BY <1>1, DaemonFrame
<1>6. MarksOwned' BY <1>1, <1>3, <1>5, MarksStay DEF Beside, Sound
<1>7. ASSUME \A x \in Slots : ~DaemonHolds(x)' PROVE Counted'
  <2>1. \A x \in Slots : One(DaemonHolds(x)') = 0 /\ One(DaemonHolds(x)) = 0
    BY <1>4, <1>7 DEF One
  <2>2. \A x \in Slots : Held(x) \in Nat BY HeldIs
  <2>3. \A x \in Slots : Held(x)' = Held(x) + 0 - 0 BY <2>1, <1>1, DaemonFrame
  <2>4. \A x \in Slots : Held(x)' = Held(x) BY <2>2, <2>3
  <2>5. QED BY <2>4, <1>1, CountedKept DEF Beside, Sound
<1>8. CASE daemon' = [daemon EXCEPT !.pc = "sleep"] /\ queue' = queue
           /\ (Queued = {} \/ \E s \in Queued : ~FitsFlag(s))
  <2>1. \A x \in Slots : ~AtDaemon(x)' /\ ~DaemonHolds(x)' /\ (Going(x)' <=> Going(x))
    BY <1>1, <1>2, <1>8 DEF AtDaemon, DaemonHolds, Daemons, Going
  <2>2. \A x \in Slots : /\ Carried(x)' <=> Carried(x)
                         /\ Unstarted(x)' <=> Unstarted(x)
    BY <1>1, <1>4, <1>5, <1>8, <2>1 DEF Carried, Unstarted, InQueue
  <2>3. Pend' <=> Pend BY <1>1 DEF Pend
  <2>4. (\E s \in Slots : InQueue(s)') => Pend
    <3>1. CASE Queued = {} BY <3>1, <1>8 DEF Queued, InQueue
    <3>2. CASE \E s \in Queued : ~FitsFlag(s)
      <4>1. PICK s \in Slots : ~(tcb[s].cores \subseteq daemon.flag)
        BY <3>2 DEF Queued, FitsFlag
      <4>2. tcb[s].cores \subseteq Cores BY DEF Beside, Inv, TypeOK, TCBs
      <4>3. daemon.flag # Cores BY <4>1, <4>2
      <4>4. QED BY <4>3, <1>1 DEF Beside, Sound, Wakes
    <3>3. QED BY <1>8, <3>1, <3>2
  <2>5. daemon'.pc = "sleep" BY <1>2, <1>8 DEF Daemons
  <2>6. QED BY <1>1, <1>3, <1>6, <1>7, <2>1, <2>2, <2>3, <2>4, <2>5, DaemonSound
<1>9. CASE \E s \in Queued : /\ queue' = [queue EXCEPT ![s] = @ - 1]
                             /\ daemon' = [daemon EXCEPT !.pc = "get", !.slot = s]
  <2>1. PICK s \in Slots : /\ queue[s] > 0
                           /\ queue' = [queue EXCEPT ![s] = @ - 1]
                           /\ daemon' = [daemon EXCEPT !.pc = "get", !.slot = s]
    BY <1>9 DEF Queued
  <2>2. OnePlace(s) BY DEF Beside, Sound, Base, Placed
  <2>3. InQueue(s) /\ ~InQueue(s)' BY <1>2, <2>1, <2>2 DEF InQueue, OnePlace
  <2>4. \A x \in Slots : x # s => (InQueue(x)' <=> InQueue(x)) BY <1>2, <2>1 DEF InQueue
  <2>5. /\ daemon'.pc = "get"
        /\ \A x \in Slots : /\ AtDaemon(x)' <=> x = s
                            /\ ~DaemonHolds(x)'
                            /\ Going(x)' <=> Going(x)
    BY <1>1, <1>2, <2>1 DEF AtDaemon, DaemonHolds, Daemons, Going
  <2>6. \A x \in Slots : /\ Carried(x)' <=> Carried(x)
                         /\ Unstarted(x)' <=> Unstarted(x)
    BY <1>1, <1>4, <1>5, <2>3, <2>4, <2>5 DEF Carried, Unstarted
  <2>7. QED BY <1>1, <1>3, <1>6, <1>7, <2>5, <2>6, DaemonSound
<1>10. QED BY <1>8, <1>9 DEF DaemonRead, DaemonGoes

LEMMA DaemonDispatchSound ==
  ASSUME Beside, DaemonDispatch
  PROVE  Sound'
<1>0. PICK s \in Slots : s = daemon.slot BY DEF DaemonDispatch, Beside, Inv, Pointers
<1> DEFINE cores == tcb[s].cores
<1>1. PICK f : f = FirstCore(cores) OBVIOUS
<1>2. /\ UNCHANGED <<node, tcb, queue, core, irq, jobs, user, canceller, finished, release>>
      /\ daemon' = [daemon EXCEPT !.pc = "query"]
      /\ dispatch' = [c \in Cores |-> dispatch[c] \/ c \in cores]
      /\ daemon.pc = "dispatch"
  BY <1>0 DEF DaemonDispatch, DaemonGoes, table, history, Beside
<1>3. /\ AtDaemon(s) /\ Carried(s) /\ OnePlace(s) /\ f \in Cores
      /\ \A x \in Slots : /\ InQueue(x)' <=> InQueue(x)
                          /\ ~AtDaemon(x)' /\ ~DaemonHolds(x)'
                          /\ DaemonHolds(x) <=> x = s
                          /\ AtDaemon(x) <=> x = s
  BY <1>0, <1>1, DispatchPlaces DEF Beside, Sound
<1>4. \A x \in Slots, c \in Cores :
        /\ HandedTo(c, x)' <=> HandedTo(c, x) \/ (c = f /\ x = s)
        /\ Owns(c, x)' <=> Owns(c, x) \/ (c = f /\ x = s)
  BY <1>0, <1>1, DispatchPlaces DEF Beside, Sound
<1>5. \A x \in Slots : Carried(x)' <=> Carried(x)
  BY <1>0, <1>1, DispatchPlaces DEF Beside, Sound
<1>6. \A x \in Slots : /\ Unstarted(x)' => Unstarted(x)
                       /\ Going(x)' => Going(x)
  <2>1. daemon'.pc = "query" /\ daemon'.slot = daemon.slot
    BY <1>2 DEF Beside, Inv, TypeOK, Daemons
  <2>2. QED BY <2>1, <1>2, <1>3, <1>4 DEF Unstarted, Going
<1>7. SameTasks /\ NodesGoOn BY <1>2 DEF SameTasks, NodesGoOn, NodeKept
<1>8. \A x \in Slots : Held(x)' = Held(x)
  <2>1. \A x \in Slots : UserHolds(x)' <=> UserHolds(x) BY <1>2 DEF UserHolds
  <2>2. \A x \in Slots : ReleaseHolds(x)' <=> ReleaseHolds(x) BY <1>2 DEF ReleaseHolds
  <2>3. \A x \in Slots : CoreHolds(x)' <=> CoreHolds(x) BY <1>2 DEF CoreHolds
  <2>4. ~Handed(s) BY <1>3 DEF OnePlace, CoreHas, Handed
  <2>5. \A x \in Slots : Handed(x)' <=> Handed(x) \/ x = s BY <1>3, <1>4 DEF Handed
  <2>6. QED BY <2>1, <2>2, <2>3, <2>4, <2>5, <1>3 DEF Held, One
<1>9. Counted' BY <1>2, <1>8, CountedKept DEF Beside, Sound
<1>10. MarksOwned'
  <2> SUFFICES ASSUME NEW x \in Cores, dispatch'[x]
               PROVE  \E c \in Cores, t \in Slots : Owns(c, t)' /\ x \in tcb'[t].cores
    BY DEF MarksOwned
  <2>1. CASE x \in cores BY <2>1, <1>2, <1>3, <1>4
  <2>2. CASE x \notin cores
    <3>1. dispatch[x] BY <2>2, <1>2
    <3>2. PICK c \in Cores, t \in Slots : Owns(c, t) /\ x \in tcb[t].cores
      BY <3>1 DEF Beside, Sound, MarksOwned
    <3>3. QED BY <3>2, <1>2, <1>4
  <2>3. QED BY <2>1, <2>2
<1>11. daemon'.pc \notin {"sleep", "read"} BY <1>2 DEF Beside, Inv, TypeOK, Daemons
<1>12. QED BY <1>2, <1>5, <1>6, <1>7, <1>9, <1>10, <1>11, DaemonSound

-----------------------------------------------------------------------------
(* vipdrv_task_core_thread_handle, for the thread of core c: the others    *)
(* keep what they have.                                                    *)
Worth(s, v2) ==
  v2 = "SUCCESS" => \A t \in Handles : tcb[s].task = t /\ Trusted(t) => finished[t]

LEMMA CoreSound ==
  ASSUME Beside, NEW c \in Cores, SameTasks, NodesGoOn,
         Counted', MarksOwned', JobsCarried', JobsStopped', Pend',
         UNCHANGED <<user, canceller, daemon, queue, finished>>,
         \A d \in Cores : d # c => /\ core'[d] = core[d]
                                   /\ core[d].pc \in {"irq", "result", "end", "free", "unuse"} =>
                                        tcb'[core[d].slot].status = tcb[core[d].slot].status,
         \A d \in Cores : irq'[d] => irq[d] /\ core'[d].pc = "irq",
         core'[c].status # "CANCELED",
         \A s \in Slots :
           /\ tcb[s].wake => tcb'[s].wake
           /\ Carried(s)' => Carried(s) /\ (tcb'[s].wake => tcb[s].wake)
           /\ Carried(s) /\ ~Carried(s)' => /\ tcb'[s].status # "READY"
                                            /\ tcb'[s].wake \/ ~Alive(tcb[s].task)
           /\ tcb'[s].status = "READY" => tcb[s].status = "READY"
           /\ Unstarted(s)' => Unstarted(s) /\ tcb'[s].status = tcb[s].status
           /\ Going(s)' => Going(s) \/ (tcb'[s].status # "READY" /\ ~Live(tcb[s].task))
           /\ tcb'[s].v2 = tcb[s].v2 \/ (tcb'[s].v2 # "CANCELED" /\ Worth(s, tcb'[s].v2)),
         \A s \in Slots : core'[c].slot = s =>
           /\ core'[c].pc \in {"irq", "result", "end", "free", "unuse"} => tcb'[s].status # "READY"
           /\ core'[c].pc = "irq" => tcb'[s].status = "INFER_START" \/ ~Live(tcb[s].task)
           /\ irq'[c] \/ (core'[c].pc = "result" /\ core'[c].status = "SUCCESS") =>
                Worth(s, "SUCCESS")
           /\ core'[c].pc \in {"free", "unuse"} => core'[c].wake \/ ~Alive(tcb[s].task)
  PROVE  Sound'
<1>1. Base' /\ SlotsOwned' /\ TasksOwned'
  BY OwnedKept, TasksKept DEF Beside, Sound
<1>2. \A d \in Cores : core[d].pc \notin {"sleep", "get", "signal"} => core[d].slot \in Slots
  BY DEF Beside, Inv, Pointers
<1>3. core'[c].pc \notin {"sleep", "get", "signal"} => core'[c].slot \in Slots
  BY DEF Beside, Inv, Pointers
<1>4. StatusOf'
  <2>1. StatusOf BY DEF Beside, Sound
  <2>2. \A s \in Slots : tcb'[s].status = "READY" => Carried(s)' BY <2>1 DEF StatusOf
  <2>3. \A s \in Slots : Going(s)' => tcb'[s].status # "READY" BY <2>1 DEF StatusOf
  <2>4. \A d \in Cores : core'[d].pc \in {"irq", "result", "end", "free", "unuse"} =>
          tcb'[core'[d].slot].status # "READY"
    BY <2>1, <1>2, <1>3 DEF StatusOf
  <2>5. \A h \in Handles : release'[h].pc \in {"cancel", "wait_idle"} =>
          tcb'[release'[h].slot].status # "READY"
    BY <2>1 DEF StatusOf, Beside, ExitTypes, HasTask
  <2>6. \A d \in Cores, t \in Handles :
          core'[d].pc = "irq" /\ tcb'[core'[d].slot].task = t /\ Live(t)' =>
            tcb'[core'[d].slot].status = "INFER_START"
    BY <2>1, <1>2, <1>3, BesideTells DEF StatusOf, SameTasks
  <2>7. QED BY <2>2, <2>3, <2>4, <2>5, <2>6 DEF StatusOf
<1>5. Uncancelled'
  <2>1. \A h \in Handles : user[h].pc \in Waiting => user[h].slot \in Slots
    BY DEF Beside, Inv, Pointers, Waiting
  <2>2. QED BY <2>1, BesideTells DEF Beside, Sound, Uncancelled
<1>6. DoneIfTrusted'
  <2>1. DoneIfTrusted BY DEF Beside, Sound
  <2>2. \A d \in Cores : irq'[d] => core'[d].pc = "irq" OBVIOUS
  <2>3. ASSUME NEW d \in Cores, NEW t \in Handles,
               irq'[d] \/ (core'[d].pc = "result" /\ core'[d].status = "SUCCESS"),
               tcb'[core'[d].slot].task = t, Trusted(t)'
        PROVE  finished'[t]
    <3>1. Trusted(t) BY <2>3, BesideTells
    <3>2. core'[d].pc \in {"irq", "result"} BY <2>3
    <3>3. core'[d].slot \in Slots /\ tcb[core'[d].slot].task = t
      BY <2>3, <3>2, <1>2, <1>3 DEF SameTasks
    <3>4. CASE d = c BY <3>1, <3>3, <3>4, <2>3 DEF Worth
    <3>5. CASE d # c BY <3>1, <3>3, <3>5, <2>1, <2>3 DEF DoneIfTrusted
    <3>6. QED BY <3>4, <3>5
  <2>4. ASSUME NEW h \in Handles, Trusted(h)', Reports(h)' PROVE finished'[h]
    <3>1. Trusted(h) BY <2>4, BesideTells
    <3>2. CASE Reports(h) BY <3>1, <3>2, <2>1 DEF DoneIfTrusted
    <3>3. CASE ~Reports(h)
      <4>1. user[h].pc \in Waiting /\ tcb'[user[h].slot].v2 = "SUCCESS"
            /\ tcb[user[h].slot].v2 # "SUCCESS"
        BY <2>4, <3>3 DEF Reports
      <4>2. user[h].slot \in Slots /\ tcb[user[h].slot].task = h
        BY <4>1 DEF Beside, Inv, Pointers, Sound, Base, Owners, Waiting
      <4>3. Worth(user[h].slot, "SUCCESS") BY <4>1, <4>2
      <4>4. QED BY <4>2, <4>3, <3>1 DEF Worth
    <3>4. QED BY <3>2, <3>3
  <2>5. \A d \in Cores, t \in Handles :
          (irq'[d] \/ (core'[d].pc = "result" /\ core'[d].status = "SUCCESS"))
            /\ tcb'[core'[d].slot].task = t /\ Trusted(t)' => finished'[t]
    BY <2>3
  <2>6. \A h \in Handles : Trusted(h)' /\ Reports(h)' => finished'[h] BY <2>4
  <2>7. QED BY <2>2, <2>5, <2>6 DEF DoneIfTrusted
<1>7. Wakes'
  <2>1. Wakes BY DEF Beside, Sound
  <2>2. ASSUME NEW h \in Handles, NEW s \in Slots, user'[h].pc \in Waiting, user'[h].slot = s
        PROVE  Carried(s)' \/ tcb'[s].wake
    <3>1. user[h].slot = s /\ user[h].pc \in Waiting BY <2>2
    <3>2. Alive(h) /\ tcb[s].task = h
      BY <3>1, BesideTells DEF Waiting, Beside, Sound, Base, Owners
    <3>3. Carried(s) \/ tcb[s].wake BY <2>1, <3>1 DEF Wakes
    <3>4. QED BY <3>2, <3>3
  <2>3. \A d \in Cores, t \in Handles :
          core'[d].pc \in {"free", "unuse"} /\ tcb'[core'[d].slot].task = t /\ Alive(t)' => core'[d].wake
    BY <2>1, <1>2, <1>3, BesideTells DEF Wakes, SameTasks
  <2>4. QED BY <2>2, <2>3 DEF Wakes
<1>8. QED BY <1>1, <1>4, <1>5, <1>6, <1>7 DEF Beside, Sound

(* A core thread that works on a task has it alone.                        *)
LEMMA WorksAlone ==
  ASSUME Beside, NEW c \in Cores, NEW s \in Slots, WorksOn(c, s)
  PROVE  /\ Carried(s) /\ ~InQueue(s) /\ ~AtDaemon(s) /\ ~HandedTo(c, s)
         /\ \A d \in Cores : d # c => ~CoreHas(d, s)
         /\ \A d \in Cores : d # c /\ core[d].pc \in {"submit", "irq", "result", "end", "remove",
                                                      "free", "unuse"} => core[d].slot # s
<1>1. CoreHas(c, s) /\ OnePlace(s) BY DEF CoreHas, Beside, Sound, Base, Placed
<1>2. QED BY <1>1 DEF OnePlace, Carried, CoreHas, WorksOn

LEMMA CoreWorksSound ==
  ASSUME Beside, NEW c \in Cores, NEW s \in Slots, s = core[c].slot, SameTasks,
         UNCHANGED <<user, canceller, daemon, queue, finished, dispatch, run_signal>>,
         core[c].pc \in {"submit", "irq", "result", "end", "remove"},
         core'[c].pc \in {"irq", "result", "end", "remove", "free"}, core'[c].slot = s,
         \A d \in Cores : d # c => core'[d] = core[d] /\ tcb_index'[d] = tcb_index[d],
         \A x \in Slots : /\ tcb'[x].wake = tcb[x].wake
                          /\ x # s => tcb'[x].status = tcb[x].status /\ tcb'[x].v2 = tcb[x].v2,
         UNCHANGED node \/ (core[c].pc = "remove" /\ MarkRemoved(s)),
         JobsCarried', JobsStopped',
         \A d \in Cores : irq'[d] => irq[d] /\ core'[d].pc = "irq",
         core'[c].status # "CANCELED", tcb'[s].status # "READY",
         core'[c].pc = "remove" => core[c].pc = "submit" /\ tcb[s].status # "READY",
         core'[c].pc = "free" => core'[c].wake \/ core[c].pc = "remove",
         core'[c].pc = "irq" => tcb'[s].status = "INFER_START" \/ ~Live(tcb[s].task),
         irq'[c] \/ (core'[c].pc = "result" /\ core'[c].status = "SUCCESS") => Worth(s, "SUCCESS"),
         tcb'[s].v2 = tcb[s].v2 \/ (tcb'[s].v2 # "CANCELED" /\ Worth(s, tcb'[s].v2))
  PROVE  Sound'
<1>1. WorksOn(c, s) BY DEF WorksOn
<1>2. /\ Carried(s) /\ ~InQueue(s) /\ ~AtDaemon(s) /\ ~HandedTo(c, s)
      /\ \A d \in Cores : d # c => ~CoreHas(d, s)
      /\ \A d \in Cores : d # c /\ core[d].pc \in {"submit", "irq", "result", "end", "remove",
                                                   "free", "unuse"} => core[d].slot # s
  BY <1>1, WorksAlone
<1>3. ~run_signal[c] BY DEF Beside, Sound, Base, Placed, CoreSlots
<1>4. \A x \in Slots, d \in Cores : /\ HandedTo(d, x)' <=> HandedTo(d, x)
                                    /\ WorksOn(d, x)' <=> WorksOn(d, x)
                                    /\ Owns(d, x)' <=> Owns(d, x)
                                    /\ CoreHas(d, x)' <=> CoreHas(d, x)
  <2>1. \A x \in Slots : /\ HandedTo(c, x)' <=> HandedTo(c, x)
                         /\ WorksOn(c, x)' <=> WorksOn(c, x)
                         /\ Owns(c, x)' <=> Owns(c, x)
    BY <1>3 DEF HandedTo, WorksOn, Owns
  <2>2. QED BY <2>1, OtherCores DEF CoreHas, Beside
<1>5. \A x \in Slots : Carried(x)' <=> Carried(x) BY <1>4 DEF Carried, InQueue, AtDaemon
<1>6. \A x \in Slots : Held(x)' = Held(x)
  <2>1. \A x \in Slots : CoreHolds(x)' <=> CoreHolds(x) BY DEF CoreHolds
  <2>2. UNCHANGED <<user, release>> BY DEF Beside
  <2>3. \A x \in Slots : DaemonHolds(x)' <=> DaemonHolds(x) BY DEF DaemonHolds
  <2>4. \A x \in Slots : Handed(x)' <=> Handed(x) BY <1>4 DEF Handed
  <2>5. QED BY <2>1, <2>2, <2>3, <2>4, ThreadHolds DEF Held, One
<1>7. PICK t \in Handles : t = tcb[s].task BY <1>2 DEF Beside, Sound, Base, Owners
<1>8. core[c].pc = "remove" => ~Live(t)
  BY <1>2, <1>7 DEF Going, Beside, Sound, TasksOwned
<1>9. core'[c].pc = "remove" => ~Live(t)
  BY <1>2, <1>7 DEF Unstarted, Beside, Sound, TasksOwned
<1>10. Counted' /\ NodesGoOn
  <2>1. CASE UNCHANGED node
    BY <2>1, <1>6, CountedKept DEF Beside, Sound, NodesGoOn, NodeKept
  <2>2. CASE core[c].pc = "remove" /\ MarkRemoved(s)
    <3>1. CoreHolds(s) BY <2>2 DEF CoreHolds
    <3>2. Held(s) # 0 BY <3>1, HeldIs
    <3>3. QED BY <2>2, <3>2, <1>2, <1>6, <1>7, <1>8, ThreadMarks
  <2>3. QED BY <2>1, <2>2
<1>11. MarksOwned' BY <1>4, MarksStay DEF Beside, Sound
<1>12. Pend' BY DEF Pend
<1>13. \A d \in Cores : d # c /\ core[d].pc \in {"irq", "result", "end", "free", "unuse"} =>
         tcb'[core[d].slot].status = tcb[core[d].slot].status
  <2>1. \A d \in Cores : core[d].pc \in {"irq", "result", "end", "free", "unuse"} => core[d].slot \in Slots
    BY DEF Beside, Inv, Pointers
  <2>2. QED BY <2>1, <1>2
<1>14. \A x \in Slots : Unstarted(x)' => Unstarted(x) /\ x # s
  <2>1. \A x \in Slots : Unstarted(x)' => Unstarted(x)
    BY <1>4 DEF Unstarted, InQueue, AtDaemon
  <2>2. ~Unstarted(s)'
    <3>1. ~InQueue(s)' /\ ~AtDaemon(s)' BY <1>2 DEF InQueue, AtDaemon
    <3>2. \A d \in Cores : ~HandedTo(d, s)' BY <1>2, <1>4 DEF CoreHas
    <3>3. \A d \in Cores : ~(core'[d].slot = s /\ core'[d].pc = "submit") BY <1>2
    <3>4. QED BY <3>1, <3>2, <3>3 DEF Unstarted
  <2>3. QED BY <2>1, <2>2
<1>15. \A x \in Slots : Going(x)' => Going(x) \/ (x = s /\ core'[c].pc = "remove")
  BY DEF Going
<1>16. \A x \in Slots :
         /\ Carried(x)' <=> Carried(x)
         /\ tcb'[x].status = "READY" => tcb[x].status = "READY"
         /\ Unstarted(x)' => Unstarted(x) /\ tcb'[x].status = tcb[x].status
         /\ Going(x)' => Going(x) \/ (tcb'[x].status # "READY" /\ ~Live(tcb[x].task))
         /\ tcb'[x].v2 = tcb[x].v2 \/ (tcb'[x].v2 # "CANCELED" /\ Worth(x, tcb'[x].v2))
  BY <1>5, <1>7, <1>9, <1>14, <1>15
<1>17. core'[c].pc = "free" => core'[c].wake \/ ~Alive(tcb[s].task)
  BY <1>7, <1>8, BesideTells
<1>18. QED BY <1>10, <1>11, <1>12, <1>13, <1>16, <1>17, CoreSound

LEMMA CoreSubmitSound ==
  ASSUME Beside, NEW c \in Cores, CoreSubmit(c)
  PROVE  Sound'
<1>0. PICK s \in Slots : s = core[c].slot BY DEF CoreSubmit, Beside, Inv, Pointers
<1>1. PICK t \in Handles : t = tcb[s].task
  BY <1>0 DEF CoreSubmit, WorksOn, CoreHas, Carried, Beside, Sound, Base, Owners
<1>2. /\ UNCHANGED <<node, queue, daemon, user, canceller, dispatch, tcb_index, run_signal, irq,
                     finished, release>>
      /\ core[c].pc = "submit" /\ tcb[s].status = "READY"
      /\ tcb' = [tcb EXCEPT ![s].status = "INFER_START"]
      /\ \/ /\ jobs' = [d \in Cores |-> IF d \in tcb[s].cores THEN jobs[d] \cup {Job(t)} ELSE jobs[d]]
            /\ core' = [core EXCEPT ![c].pc = "irq"]
         \/ /\ UNCHANGED jobs
            /\ core' = [core EXCEPT ![c].pc = "result", ![c].status = "FAILURE"]
  BY <1>0, <1>1 DEF CoreSubmit, CoreGoes, Beside
<1>3. core \in [Cores -> CoreThreads] /\ tcb \in [Slots -> TCBs] BY DEF Beside, Inv, TypeOK
<1>4. /\ core'[c].slot = s /\ \A d \in Cores : d # c => core'[d] = core[d]
      /\ \/ core'[c].pc = "irq" /\ core'[c].status = core[c].status
         \/ core'[c].pc = "result" /\ core'[c].status = "FAILURE" /\ UNCHANGED jobs
  BY <1>0, <1>2, <1>3 DEF CoreThreads
<1>5. /\ tcb'[s].status = "INFER_START"
      /\ \A x \in Slots : /\ tcb'[x].task = tcb[x].task /\ tcb'[x].cores = tcb[x].cores
                          /\ tcb'[x].wake = tcb[x].wake /\ tcb'[x].v2 = tcb[x].v2
                          /\ x # s => tcb'[x].status = tcb[x].status
  BY <1>2, <1>3 DEF TCBs
<1>6. SameTasks BY <1>5 DEF SameTasks
<1>7. Live(t)
  <2>1. Carried(s) BY <1>0, <1>2 DEF WorksOn, CoreHas, Carried
  <2>2. QED BY <1>1, <1>2, <2>1 DEF Beside, Sound, TasksOwned
<1>8. ~irq[c] /\ ~irq'[c] BY <1>2 DEF Beside, Sound, DoneIfTrusted
<1>9. core[c].status # "CANCELED" BY DEF Beside, Sound, Uncancelled
<1>10. \A d \in Cores : irq'[d] => irq[d] /\ core'[d].pc = "irq"
  BY <1>2, <1>4, <1>8 DEF Beside, Sound, DoneIfTrusted
<1>11. JobsCarried' /\ JobsStopped'
  <2>1. CASE UNCHANGED jobs
    <3>1. \A d \in Cores : Running(d) => Running(d)' /\ core'[d].slot = core[d].slot
      BY <1>2, <1>4 DEF Running
    <3>2. QED BY <2>1, <3>1, <1>2, <1>6, JobsUntouched
  <2>2. CASE /\ jobs' = [d \in Cores |-> IF d \in tcb[s].cores THEN jobs[d] \cup {Job(t)} ELSE jobs[d]]
             /\ core' = [core EXCEPT ![c].pc = "irq"]
    <3>1. tcb[s].cores \subseteq Cores BY <1>3 DEF TCBs
    <3>2. ASSUME NEW x \in Cores, NEW j \in jobs'[x]
          PROVE  \E d \in Cores : /\ Running(d)' /\ x \in tcb'[core'[d].slot].cores /\ j = JobOf(d)'
                                  /\ \A y \in tcb'[core'[d].slot].cores : j \in jobs'[y]
      <4>1. CASE j \in jobs[x]
        <5>1. PICK d \in Cores : /\ Running(d) /\ x \in tcb[core[d].slot].cores /\ j = JobOf(d)
                                 /\ \A y \in tcb[core[d].slot].cores : j \in jobs[y]
          BY <4>1 DEF Beside, Sound, JobsCarried
        <5>2. d # c /\ core[d].slot \in Slots BY <5>1, <1>2 DEF Running, Beside, Inv, Pointers
        <5>3. core'[d] = core[d] /\ Running(d)' BY <5>1, <5>2, <1>2, <1>4 DEF Running
        <5>4. JobOf(d)' = JobOf(d) BY <5>2, <5>3, <1>2, <1>5 DEF JobOf, Job
        <5>5. tcb'[core[d].slot].cores = tcb[core[d].slot].cores /\ tcb[core[d].slot].cores \subseteq Cores
          BY <5>2, <1>3, <1>5 DEF TCBs
        <5>6. \A y \in Cores : jobs[y] \subseteq jobs'[y] BY <2>2
        <5>7. QED BY <5>1, <5>3, <5>4, <5>5, <5>6
      <4>2. CASE j \notin jobs[x]
        <5>1. x \in tcb[s].cores /\ j = Job(t) BY <4>2, <2>2
        <5>2. core'[c].pc = "irq" BY <2>2, <1>3 DEF CoreThreads
        <5>3. Running(c)' BY <5>2, <1>8 DEF Running
        <5>4. JobOf(c)' = Job(t) BY <1>1, <1>2, <1>4, <1>5 DEF JobOf, Job
        <5>5. \A y \in tcb[s].cores : j \in jobs'[y] BY <5>1, <3>1, <2>2
        <5>6. QED BY <5>1, <5>3, <5>4, <5>5, <1>4, <1>5
      <4>3. QED BY <4>1, <4>2
    <3>3. JobsCarried' BY <3>2 DEF JobsCarried
    <3>4. ASSUME NEW h \in Handles, release'[h].pc \in {"clear"} \cup Cleared, OnHardware(h)'
          PROVE  h \in raced' \cup overran'
      <4>1. release[h].pc \in {"clear"} \cup Cleared BY <3>4, <1>2
      <4>2. CASE OnHardware(h) BY <4>1, <4>2 DEF Beside, Sound, JobsStopped
      <4>3. CASE ~OnHardware(h)
        <5>1. PICK x \in Cores : \E j \in jobs'[x] : j[1] = h BY <3>4 DEF OnHardware
        <5>2. PICK j \in jobs'[x] : j[1] = h BY <5>1
        <5>3. j \notin jobs[x] BY <4>3, <5>2 DEF OnHardware
        <5>4. j = Job(t) BY <5>3, <2>2
        <5>5. h = t BY <5>2, <5>4 DEF Job
        <5>6. release[h].pc = "clear" BY <4>1, <5>5, <1>7 DEF Live
        <5>7. Started(h) BY <3>4, <4>3 DEF Started
        <5>8. QED BY <5>6, <5>7 DEF Beside
      <4>4. QED BY <4>2, <4>3
    <3>5. JobsStopped' BY <3>4 DEF JobsStopped
    <3>6. QED BY <3>3, <3>5
  <2>3. QED BY <2>1, <2>2, <1>2
<1>12. \A x \in Slots : /\ tcb'[x].wake = tcb[x].wake
                        /\ x # s => tcb'[x].status = tcb[x].status /\ tcb'[x].v2 = tcb[x].v2
  BY <1>5
<1>13. /\ core'[c].pc \in {"irq", "result"} /\ core'[c].status # "CANCELED"
       /\ ~(core'[c].pc = "result" /\ core'[c].status = "SUCCESS")
       /\ tcb'[s].status = "INFER_START" /\ tcb'[s].v2 = tcb[s].v2
  BY <1>4, <1>5, <1>9
<1>14. QED BY <1>0, <1>2, <1>4, <1>6, <1>8, <1>10, <1>11, <1>12, <1>13, CoreWorksSound

LEMMA CoreDropsSound ==
  ASSUME Beside, NEW c \in Cores, CoreSkip(c) \/ CoreRemove(c)
  PROVE  Sound'
<1>0. PICK s \in Slots : s = core[c].slot BY DEF CoreSkip, CoreRemove, Beside, Inv, Pointers
<1>1. /\ UNCHANGED <<tcb, queue, daemon, user, canceller, dispatch, run_signal, irq, jobs,
                     finished, release>>
      /\ \/ /\ core[c].pc = "submit" /\ tcb[s].status # "READY" /\ UNCHANGED node
            /\ \E wake \in BOOLEAN : core' = [core EXCEPT ![c].pc = "remove", ![c].wake = wake]
            /\ tcb_index' = [tcb_index EXCEPT ![c] = 0]
         \/ /\ core[c].pc = "remove" /\ MarkRemoved(s) /\ UNCHANGED tcb_index
            /\ core' = [core EXCEPT ![c].pc = "free"]
  BY <1>0 DEF CoreSkip, CoreRemove, CoreGoes, table, history, Beside
<1>2. core \in [Cores -> CoreThreads] /\ tcb_index \in [Cores -> Slots \cup {0}]
  BY DEF Beside, Inv, TypeOK
<1>3. /\ core'[c].slot = s /\ core'[c].status = core[c].status
      /\ core'[c].pc = IF core[c].pc = "submit" THEN "remove" ELSE "free"
      /\ \A d \in Cores : d # c => core'[d] = core[d] /\ tcb_index'[d] = tcb_index[d]
  BY <1>0, <1>1, <1>2 DEF CoreThreads
<1>4. SameTasks BY <1>1 DEF SameTasks
<1>5. JobsCarried' /\ JobsStopped'
  <2>1. \A d \in Cores : Running(d) => Running(d)' /\ core'[d].slot = core[d].slot
    BY <1>1, <1>3 DEF Running
  <2>2. QED BY <2>1, <1>1, <1>4, JobsUntouched
<1>6. ~irq[c] /\ ~irq'[c] BY <1>1 DEF Beside, Sound, DoneIfTrusted
<1>7. \A d \in Cores : irq'[d] => irq[d] /\ core'[d].pc = "irq"
  BY <1>1, <1>3, <1>6 DEF Beside, Sound, DoneIfTrusted
<1>8. tcb[s].status # "READY"
  <2>1. core[c].pc = "remove" => Going(s) BY <1>0 DEF Going
  <2>2. QED BY <1>1, <2>1 DEF Beside, Sound, StatusOf
<1>9. core[c].status # "CANCELED" BY DEF Beside, Sound, Uncancelled
<1>10. core[c].pc \in {"submit", "remove"} BY <1>1
<1>11. UNCHANGED node \/ (core[c].pc = "remove" /\ MarkRemoved(s)) BY <1>1
<1>12. QED BY <1>0, <1>1, <1>3, <1>4, <1>5, <1>6, <1>7, <1>8, <1>9, <1>10, <1>11, CoreWorksSound

(* A wait for the hardware ends in SUCCESS on an interrupt, and in TIMEOUT *)
(* only for a job that was stopped.                                        *)
LEMMA CoreIrqSound ==
  ASSUME Beside, NEW c \in Cores,
         CoreIrq(c) \/ (CoreTimeOut(c) /\ ~OnHardware(tcb[core[c].slot].task))
  PROVE  Sound'
<1>0. PICK s \in Slots : s = core[c].slot BY DEF CoreIrq, CoreTimeOut, Beside, Inv, Pointers
<1>1. /\ UNCHANGED <<node, tcb, queue, daemon, user, canceller, dispatch, tcb_index, run_signal,
                     jobs, finished, release>>
      /\ core[c].pc = "irq"
      /\ \/ /\ irq[c] /\ irq' = [irq EXCEPT ![c] = FALSE]
            /\ core' = [core EXCEPT ![c].pc = "result", ![c].status = "SUCCESS"]
         \/ /\ ~irq[c] /\ UNCHANGED irq /\ ~OnHardware(tcb[s].task)
            /\ core' = [core EXCEPT ![c].pc = "result", ![c].status = "TIMEOUT"]
  BY <1>0 DEF CoreIrq, CoreTimeOut, table, history, Beside
<1>2. core \in [Cores -> CoreThreads] /\ irq \in [Cores -> BOOLEAN] BY DEF Beside, Inv, TypeOK
<1>3. /\ core'[c].slot = s /\ core'[c].pc = "result" /\ ~irq'[c]
      /\ (irq[c] /\ core'[c].status = "SUCCESS") \/ core'[c].status = "TIMEOUT"
      /\ \A d \in Cores : d # c => core'[d] = core[d] /\ irq'[d] = irq[d]
  BY <1>0, <1>1, <1>2 DEF CoreThreads
<1>4. SameTasks BY <1>1 DEF SameTasks
<1>5. JobsCarried' /\ JobsStopped'
  <2>1. ASSUME NEW d \in Cores, Running(d)
        PROVE  \/ Running(d)' /\ core'[d].slot = core[d].slot
               \/ ~OnHardware(tcb[core[d].slot].task)
    <3>1. CASE d = c BY <3>1, <2>1, <1>0, <1>1 DEF Running
    <3>2. CASE d # c BY <3>2, <2>1, <1>3 DEF Running
    <3>3. QED BY <3>1, <3>2
  <2>2. QED BY <2>1, <1>1, <1>4, JobsUntouched
<1>6. \A d \in Cores : irq'[d] => irq[d] /\ core'[d].pc = "irq"
  BY <1>3 DEF Beside, Sound, DoneIfTrusted
<1>7. tcb[s].status # "READY" BY <1>0, <1>1 DEF Beside, Sound, StatusOf
<1>8. core'[c].status = "SUCCESS" => Worth(s, "SUCCESS")
  BY <1>0, <1>3 DEF Worth, Beside, Sound, DoneIfTrusted
<1>9. core'[c].status # "CANCELED" BY <1>3
<1>10. core[c].pc \in {"submit", "irq", "result", "end", "remove"} /\ UNCHANGED node BY <1>1
<1>11. \A d \in Cores : d # c => core'[d] = core[d] /\ tcb_index'[d] = tcb_index[d]
  BY <1>1, <1>3
<1>12. QED BY <1>0, <1>1, <1>3, <1>4, <1>5, <1>6, <1>7, <1>8, <1>9, <1>10, <1>11, CoreWorksSound

LEMMA CoreResultSound ==
  ASSUME Beside, NEW c \in Cores, CoreResult(c)
  PROVE  Sound'
<1>0. PICK s \in Slots : s = core[c].slot BY DEF CoreResult, Beside, Inv, Pointers
<1>1. /\ UNCHANGED <<node, queue, daemon, user, canceller, dispatch, run_signal, irq, jobs,
                     finished, release>>
      /\ core[c].pc = "result"
      /\ tcb_index' = [tcb_index EXCEPT ![c] = 0]
      /\ tcb' = [tcb EXCEPT ![s].v2 = core[c].status]
      /\ core' = [core EXCEPT ![c].pc = "end"]
  BY <1>0 DEF CoreResult, CoreGoes, history, Beside
<1>2. /\ core \in [Cores -> CoreThreads] /\ tcb \in [Slots -> TCBs]
      /\ tcb_index \in [Cores -> Slots \cup {0}]
  BY DEF Beside, Inv, TypeOK
<1>3. /\ core'[c].slot = s /\ core'[c].pc = "end" /\ core'[c].status = core[c].status
      /\ \A d \in Cores : d # c => core'[d] = core[d] /\ tcb_index'[d] = tcb_index[d]
  BY <1>0, <1>1, <1>2 DEF CoreThreads
<1>4. /\ tcb'[s].v2 = core[c].status /\ tcb'[s].status = tcb[s].status
      /\ \A x \in Slots : /\ tcb'[x].task = tcb[x].task /\ tcb'[x].cores = tcb[x].cores
                          /\ tcb'[x].wake = tcb[x].wake
                          /\ x # s => tcb'[x].status = tcb[x].status /\ tcb'[x].v2 = tcb[x].v2
  BY <1>1, <1>2 DEF TCBs
<1>5. SameTasks BY <1>4 DEF SameTasks
<1>6. JobsCarried' /\ JobsStopped'
  <2>1. \A d \in Cores : Running(d) => Running(d)' /\ core'[d].slot = core[d].slot
    BY <1>1, <1>3 DEF Running
  <2>2. QED BY <2>1, <1>1, <1>5, JobsUntouched
<1>7. \A d \in Cores : irq'[d] => irq[d] /\ core'[d].pc = "irq" /\ d # c
  BY <1>1, <1>3 DEF Beside, Sound, DoneIfTrusted
<1>8. tcb'[s].status # "READY" BY <1>0, <1>1, <1>4 DEF Beside, Sound, StatusOf
<1>9. Worth(s, tcb'[s].v2)
  BY <1>0, <1>1, <1>4 DEF Worth, Beside, Sound, DoneIfTrusted
<1>10. core[c].status # "CANCELED" BY DEF Beside, Sound, Uncancelled
<1>11. core[c].pc \in {"submit", "irq", "result", "end", "remove"} /\ UNCHANGED node BY <1>1
<1>12. QED BY <1>0, <1>1, <1>3, <1>4, <1>5, <1>6, <1>7, <1>8, <1>9, <1>10, <1>11, CoreWorksSound

LEMMA CoreEndSound ==
  ASSUME Beside, NEW c \in Cores, CoreEnd(c)
  PROVE  Sound'
<1>0. PICK s \in Slots : s = core[c].slot BY DEF CoreEnd, Beside, Inv, Pointers
<1>1. /\ UNCHANGED <<node, queue, daemon, user, canceller, dispatch, run_signal, tcb_index, jobs,
                     finished, release>>
      /\ core[c].pc = "end"
      /\ irq' = [irq EXCEPT ![c] = FALSE]
      /\ tcb' = [tcb EXCEPT ![s].status = "INFER_END"]
      /\ core' = [core EXCEPT ![c].pc = "free", ![c].wake = TRUE]
  BY <1>0 DEF CoreEnd, history, Beside
<1>2. /\ core \in [Cores -> CoreThreads] /\ tcb \in [Slots -> TCBs] /\ irq \in [Cores -> BOOLEAN]
  BY DEF Beside, Inv, TypeOK
<1>3. /\ core'[c].slot = s /\ core'[c].pc = "free" /\ core'[c].status = core[c].status
      /\ core'[c].wake /\ ~irq'[c]
      /\ \A d \in Cores : d # c => core'[d] = core[d] /\ irq'[d] = irq[d]
  BY <1>0, <1>1, <1>2 DEF CoreThreads
<1>4. /\ tcb'[s].v2 = tcb[s].v2 /\ tcb'[s].status = "INFER_END"
      /\ \A x \in Slots : /\ tcb'[x].task = tcb[x].task /\ tcb'[x].cores = tcb[x].cores
                          /\ tcb'[x].wake = tcb[x].wake
                          /\ x # s => tcb'[x].status = tcb[x].status /\ tcb'[x].v2 = tcb[x].v2
  BY <1>1, <1>2 DEF TCBs
<1>5. SameTasks BY <1>4 DEF SameTasks
<1>6. JobsCarried' /\ JobsStopped'
  <2>1. \A d \in Cores : Running(d) => Running(d)' /\ core'[d].slot = core[d].slot
    BY <1>1, <1>3 DEF Running
  <2>2. QED BY <2>1, <1>1, <1>5, JobsUntouched
<1>7. \A d \in Cores : irq'[d] => irq[d] /\ core'[d].pc = "irq"
  BY <1>3 DEF Beside, Sound, DoneIfTrusted
<1>8. core[c].status # "CANCELED" BY DEF Beside, Sound, Uncancelled
<1>9. core[c].pc \in {"submit", "irq", "result", "end", "remove"} /\ UNCHANGED node BY <1>1
<1>10. \A d \in Cores : d # c => core'[d] = core[d] /\ tcb_index'[d] = tcb_index[d]
  BY <1>1, <1>3
<1>11. QED BY <1>0, <1>1, <1>3, <1>4, <1>5, <1>6, <1>7, <1>8, <1>9, <1>10, CoreWorksSound

(* A core thread that neither looks at the status of its task nor waits    *)
(* for the hardware.                                                       *)
LEMMA CoreGoesOnSound ==
  ASSUME Beside, NEW c \in Cores, SameTasks, NodesGoOn, Counted', MarksOwned', Pend',
         UNCHANGED <<user, canceller, daemon, queue, finished, irq, jobs>>,
         core[c].pc # "irq", core'[c].pc \notin {"irq", "result", "end", "remove"},
         core'[c].status = core[c].status,
         \A d \in Cores : d # c => core'[d] = core[d],
         \A s \in Slots :
           /\ tcb'[s].status = tcb[s].status /\ tcb'[s].v2 = tcb[s].v2
           /\ tcb[s].wake => tcb'[s].wake
           /\ Carried(s)' => Carried(s) /\ (tcb'[s].wake => tcb[s].wake)
           /\ Carried(s) /\ ~Carried(s)' => /\ tcb[s].status # "READY"
                                            /\ tcb'[s].wake \/ ~Alive(tcb[s].task)
           /\ Unstarted(s)' => Unstarted(s)
           /\ core'[c].slot = s /\ core'[c].pc \in {"free", "unuse"} =>
                tcb[s].status # "READY" /\ (core'[c].wake \/ ~Alive(tcb[s].task))
  PROVE  Sound'
<1>1. ~irq[c] /\ ~irq'[c] BY DEF Beside, Sound, DoneIfTrusted
<1>2. \A d \in Cores : irq'[d] => irq[d] /\ core'[d].pc = "irq"
  BY <1>1 DEF Beside, Sound, DoneIfTrusted
<1>3. core'[c].status # "CANCELED" BY DEF Beside, Sound, Uncancelled
<1>4. \A s \in Slots : Going(s)' => Going(s) BY DEF Going
<1>5. JobsCarried' /\ JobsStopped'
  <2>1. \A d \in Cores : Running(d) => Running(d)' /\ core'[d].slot = core[d].slot
    BY DEF Running
  <2>2. QED BY <2>1, JobsUntouched
<1>6. \A d \in Cores : d # c /\ core[d].pc \in {"irq", "result", "end", "free", "unuse"} =>
        tcb'[core[d].slot].status = tcb[core[d].slot].status
  BY DEF Beside, Inv, Pointers
<1>7. QED BY <1>1, <1>2, <1>3, <1>4, <1>5, <1>6, CoreSound

(* Of the threads that hold a slot, the core thread that has its task is   *)
(* the only one of its kind.                                               *)
LEMMA HoldsAlone ==
  ASSUME Beside, NEW c \in Cores, NEW s \in Slots, CoreHas(c, s)
  PROVE  /\ Carried(s) /\ ~InQueue(s) /\ ~AtDaemon(s)
         /\ \A d \in Cores : d # c => ~CoreHas(d, s) /\ ~HandedTo(d, s)
         /\ \A d \in Cores : d # c /\ core[d].slot = s => core[d].pc \in {"sleep", "get", "signal"}
<1>1. OnePlace(s) BY DEF Beside, Sound, Base, Placed
<1>2. /\ Carried(s) /\ ~InQueue(s) /\ ~AtDaemon(s)
      /\ \A d \in Cores : d # c => ~CoreHas(d, s) /\ ~HandedTo(d, s)
  BY <1>1 DEF OnePlace, Carried, CoreHas
<1>3. ASSUME NEW d \in Cores, d # c, core[d].slot = s,
             core[d].pc \notin {"sleep", "get", "signal"}
      PROVE  FALSE
  <2>1. core[d].pc \in CorePcs BY DEF Beside, Inv, TypeOK, CoreThreads
  <2>2. CoreSlots(d) BY DEF Beside, Sound, Base, Placed
  <2>3. CoreHas(d, s)
    BY <1>3, <2>1, <2>2 DEF CoreHas, HandedTo, WorksOn, CoreSlots
  <2>4. QED BY <1>2, <1>3, <2>3
<1>4. QED BY <1>2, <1>3

LEMMA CoreIdleSound ==
  ASSUME Beside, NEW c \in Cores, CoreAwake(c) \/ CoreSignal(c)
  PROVE  Sound'
<1>1. /\ UNCHANGED <<node, tcb, queue, daemon, user, canceller, dispatch, tcb_index, irq, jobs,
                     finished, release>>
      /\ \/ /\ core[c].pc = "sleep" /\ run_signal[c]
            /\ run_signal' = [run_signal EXCEPT ![c] = FALSE]
            /\ core' = [core EXCEPT ![c].pc = "get"]
         \/ /\ core[c].pc = "signal" /\ submit_signal' = TRUE /\ UNCHANGED run_signal
            /\ core' = [core EXCEPT ![c].pc = "sleep"]
  BY DEF CoreAwake, CoreSignal, CoreGoes, table, history, Beside
<1>2. core \in [Cores -> CoreThreads] /\ run_signal \in [Cores -> BOOLEAN]
  BY DEF Beside, Inv, TypeOK
<1>3. /\ core'[c].slot = core[c].slot /\ core'[c].status = core[c].status
      /\ \/ core[c].pc = "sleep" /\ run_signal[c] /\ core'[c].pc = "get" /\ ~run_signal'[c]
         \/ core[c].pc = "signal" /\ core'[c].pc = "sleep" /\ run_signal'[c] = run_signal[c]
      /\ \A d \in Cores : d # c => core'[d] = core[d] /\ run_signal'[d] = run_signal[d]
  BY <1>1, <1>2 DEF CoreThreads
<1>4. SameTasks /\ NodesGoOn BY <1>1 DEF SameTasks, NodesGoOn, NodeKept
<1>5. \A s \in Slots, d \in Cores : /\ HandedTo(d, s)' <=> HandedTo(d, s)
                                    /\ WorksOn(d, s)' <=> WorksOn(d, s)
                                    /\ Owns(d, s)' <=> Owns(d, s)
  <2>1. \A s \in Slots : /\ HandedTo(c, s)' <=> HandedTo(c, s)
                         /\ WorksOn(c, s)' <=> WorksOn(c, s)
                         /\ Owns(c, s)' <=> Owns(c, s)
    BY <1>1, <1>3 DEF HandedTo, WorksOn, Owns
  <2>2. QED BY <2>1, <1>1, <1>3, OtherCores DEF Beside
<1>6. \A s \in Slots : /\ Carried(s)' <=> Carried(s)
                       /\ Unstarted(s)' <=> Unstarted(s)
                       /\ CoreHolds(s)' <=> CoreHolds(s)
  BY <1>1, <1>3, <1>5 DEF Carried, Unstarted, InQueue, AtDaemon, CoreHas, CoreHolds
<1>7. Counted'
  <2>1. \A s \in Slots : /\ Handed(s)' <=> Handed(s)
                         /\ DaemonHolds(s)' <=> DaemonHolds(s)
    BY <1>1, <1>5 DEF Handed, DaemonHolds
  <2>2. \A s \in Slots : Held(s)' = Held(s) BY <2>1, <1>1, <1>6, ThreadHolds DEF Held, One
  <2>3. QED BY <2>2, <1>1, CountedKept DEF Beside, Sound
<1>8. MarksOwned' BY <1>1, <1>4, <1>5, MarksStay DEF Beside, Sound
<1>9. Pend' BY <1>1, <1>3 DEF Pend
<1>10. core[c].pc # "irq" /\ core'[c].pc \in {"get", "sleep"} BY <1>3
<1>11. QED BY <1>1, <1>3, <1>4, <1>6, <1>7, <1>8, <1>9, <1>10, CoreGoesOnSound

(* The daemon's reference, which the thread inherits, keeps the slot in    *)
(* use, so the thread finds it.                                            *)
LEMMA CoreGetSound ==
  ASSUME Beside, NEW c \in Cores, CoreGet(c)
  PROVE  Sound'
<1>1. /\ UNCHANGED <<tcb, queue, daemon, user, canceller, dispatch, tcb_index, run_signal, irq,
                     jobs, finished, release>>
      /\ core[c].pc = "get"
  BY CoreGetTakes DEF CoreGet, history, Beside
<1>2. PICK s \in Slots : s = tcb_index[c]
  BY <1>1 DEF Beside, Sound, Base, Placed, CoreSlots
<1>3. core \in [Cores -> CoreThreads] /\ ~run_signal[c] /\ HandedTo(c, s)
  BY <1>1, <1>2 DEF Beside, Inv, TypeOK, Sound, Base, Placed, CoreSlots, HandedTo
<1>4. Used(s)
  <2>1. Handed(s) BY <1>3 DEF Handed
  <2>2. Held(s) # 0 BY <2>1, HeldIs
  <2>3. QED BY <2>2 DEF Beside, Sound, Counted
<1>5. TakeRef(s) /\ core' = [core EXCEPT ![c].pc = "inherit", ![c].slot = s]
  BY <1>2, <1>4, CoreGetTakes
<1>6. /\ core'[c].pc = "inherit" /\ core'[c].slot = s /\ core'[c].status = core[c].status
      /\ \A d \in Cores : d # c => core'[d] = core[d]
  BY <1>3, <1>5 DEF CoreThreads
<1>7. SameTasks BY <1>1 DEF SameTasks
<1>8. \A x \in Slots, d \in Cores : /\ HandedTo(d, x)' <=> HandedTo(d, x)
                                    /\ WorksOn(d, x)' <=> WorksOn(d, x)
                                    /\ Owns(d, x)' <=> Owns(d, x)
  <2>1. \A x \in Slots : /\ HandedTo(c, x)' <=> HandedTo(c, x)
                         /\ WorksOn(c, x)' <=> WorksOn(c, x)
                         /\ Owns(c, x)' <=> Owns(c, x)
    BY <1>1, <1>6 DEF HandedTo, WorksOn, Owns
  <2>2. QED BY <2>1, <1>1, <1>6, OtherCores DEF Beside
<1>9. \A x \in Slots : /\ Carried(x)' <=> Carried(x)
                       /\ Unstarted(x)' <=> Unstarted(x)
  BY <1>1, <1>6, <1>8 DEF Carried, Unstarted, InQueue, AtDaemon, CoreHas
<1>10. \A x \in Slots : Held(x)' = IF x = s THEN Held(x) + 1 ELSE Held(x)
  <2>1. CoreHas(c, s) BY <1>3 DEF CoreHas
  <2>2. ~CoreHolds(s)
    <3>1. \A d \in Cores : core[d].slot = s => core[d].pc \in {"sleep", "get", "signal"}
      BY <2>1, <1>1, HoldsAlone
    <3>2. QED BY <3>1 DEF CoreHolds
  <2>3. \A x \in Slots : CoreHolds(x)' <=> CoreHolds(x) \/ x = s
    BY <1>1, <1>6 DEF CoreHolds
  <2>4. \A x \in Slots : /\ Handed(x)' <=> Handed(x)
                         /\ DaemonHolds(x)' <=> DaemonHolds(x)
    BY <1>1, <1>8 DEF Handed, DaemonHolds
  <2>5. QED BY <2>2, <2>3, <2>4, <1>1, ThreadHolds DEF Held, One
<1>11. Counted' /\ NodesGoOn BY <1>1, <1>4, <1>5, <1>10, ThreadTakes
<1>12. MarksOwned' BY <1>1, <1>7, <1>8, MarksStay DEF Beside, Sound
<1>13. Pend' BY <1>6 DEF Pend
<1>14. core[c].pc # "irq" /\ core'[c].pc \notin {"irq", "result", "end", "remove", "free", "unuse"}
  BY <1>1, <1>6
<1>15. QED BY <1>1, <1>6, <1>7, <1>9, <1>11, <1>12, <1>13, <1>14, CoreGoesOnSound

LEMMA CoreInheritSound ==
  ASSUME Beside, NEW c \in Cores, CoreInherit(c)
  PROVE  Sound'
<1>1. /\ UNCHANGED <<queue, daemon, user, canceller, dispatch, tcb_index, run_signal, irq, jobs,
                     finished, release>>
      /\ core[c].pc = "inherit"
      /\ core' = [core EXCEPT ![c].pc = "submit"]
  BY DEF CoreInherit, CoreGoes, history, Beside
<1>2. PICK s \in Slots : s = tcb_index[c]
  BY <1>1 DEF Beside, Sound, Base, Placed, CoreSlots
<1>3. core \in [Cores -> CoreThreads] /\ ~run_signal[c] /\ HandedTo(c, s) /\ core[c].slot = s
  BY <1>1, <1>2 DEF Beside, Inv, TypeOK, Sound, Base, Placed, CoreSlots, HandedTo
<1>4. Unuse(s, FALSE) BY <1>2 DEF CoreInherit
<1>5. SameTasks /\ tcb' = tcb BY <1>4 DEF Unuse, SameTasks
<1>6. /\ core'[c].pc = "submit" /\ core'[c].slot = s /\ core'[c].status = core[c].status
      /\ \A d \in Cores : d # c => core'[d] = core[d]
  BY <1>1, <1>3 DEF CoreThreads
<1>7. CoreHas(c, s) BY <1>3 DEF CoreHas
<1>8. /\ ~InQueue(s) /\ ~AtDaemon(s)
      /\ \A d \in Cores : d # c => ~CoreHas(d, s) /\ ~HandedTo(d, s)
  BY <1>7, HoldsAlone
<1>9. \A x \in Slots : /\ ~HandedTo(c, x)' /\ (HandedTo(c, x) <=> x = s)
                       /\ Owns(c, x)' <=> Owns(c, x)
                       /\ CoreHas(c, x)' <=> CoreHas(c, x)
  BY <1>1, <1>2, <1>3, <1>6 DEF HandedTo, WorksOn, Owns, CoreHas
<1>10. \A x \in Slots, d \in Cores :
         /\ d # c => (HandedTo(d, x)' <=> HandedTo(d, x))
         /\ Owns(d, x)' <=> Owns(d, x)
         /\ CoreHas(d, x)' <=> CoreHas(d, x)
  BY <1>1, <1>6, <1>9, OtherCores DEF Beside
<1>11. \A x \in Slots : Carried(x)' <=> Carried(x)
  BY <1>1, <1>10 DEF Carried, InQueue, AtDaemon
<1>12. \A x \in Slots : Unstarted(x)' => Unstarted(x)
  <2>1. Unstarted(s) BY <1>3 DEF Unstarted
  <2>2. \A x \in Slots : x # s /\ Unstarted(x)' => Unstarted(x)
    BY <1>1, <1>6, <1>9, <1>10 DEF Unstarted, InQueue, AtDaemon
  <2>3. QED BY <2>1, <2>2
<1>13. \A x \in Slots : Held(x)' = IF x = s THEN Held(x) - 1 ELSE Held(x)
  <2>1. Handed(s) /\ \A x \in Slots : Handed(x)' <=> Handed(x) /\ x # s
    BY <1>3, <1>8, <1>9, <1>10 DEF Handed
  <2>2. \A x \in Slots : CoreHolds(x)' <=> CoreHolds(x) BY <1>1, <1>3, <1>6 DEF CoreHolds
  <2>3. \A x \in Slots : DaemonHolds(x)' <=> DaemonHolds(x) BY <1>1 DEF DaemonHolds
  <2>4. QED BY <2>1, <2>2, <2>3, <1>1, ThreadHolds DEF Held, One
<1>14. Counted' /\ NodesGoOn BY <1>1, <1>4, <1>13, ThreadDrops
<1>15. MarksOwned' BY <1>1, <1>5, <1>10, MarksStay DEF Beside, Sound
<1>16. Pend' BY <1>6 DEF Pend
<1>17. core[c].pc # "irq" /\ core'[c].pc \notin {"irq", "result", "end", "remove", "free", "unuse"}
  BY <1>1, <1>6
<1>18. QED BY <1>1, <1>5, <1>6, <1>11, <1>12, <1>14, <1>15, <1>16, <1>17, CoreGoesOnSound

LEMMA CoreFreeSound ==
  ASSUME Beside, NEW c \in Cores, CoreFree(c)
  PROVE  Sound'
<1>0. PICK s \in Slots : s = core[c].slot BY DEF CoreFree, Beside, Inv, Pointers
<1>1. /\ UNCHANGED <<node, tcb, queue, daemon, user, canceller, tcb_index, run_signal, irq, jobs,
                     finished, release>>
      /\ core[c].pc = "free"
      /\ dispatch' = [d \in Cores |-> dispatch[d] /\ d \notin tcb[s].cores]
      /\ core' = [core EXCEPT ![c].pc = "unuse"]
  BY <1>0 DEF CoreFree, CoreGoes, table, history, Beside
<1>2. core \in [Cores -> CoreThreads] /\ ~run_signal[c]
  BY <1>0, <1>1 DEF Beside, Inv, TypeOK, Sound, Base, Placed, CoreSlots
<1>3. /\ core'[c].pc = "unuse" /\ core'[c].slot = s /\ core'[c].status = core[c].status
      /\ core'[c].wake = core[c].wake
      /\ \A d \in Cores : d # c => core'[d] = core[d]
  BY <1>0, <1>1, <1>2 DEF CoreThreads
<1>4. SameTasks /\ NodesGoOn BY <1>1 DEF SameTasks, NodesGoOn, NodeKept
<1>5. \A x \in Slots : /\ ~HandedTo(c, x)' /\ ~HandedTo(c, x)
                       /\ WorksOn(c, x)' <=> WorksOn(c, x)
                       /\ Owns(c, x) => x = s
  BY <1>0, <1>1, <1>2, <1>3 DEF HandedTo, WorksOn, Owns
<1>6. \A x \in Slots, d \in Cores : /\ HandedTo(d, x)' <=> HandedTo(d, x)
                                    /\ CoreHas(d, x)' <=> CoreHas(d, x)
                                    /\ d # c => (Owns(d, x)' <=> Owns(d, x))
  BY <1>1, <1>3, <1>5, OtherCores DEF CoreHas, Beside
<1>7. \A x \in Slots : /\ Carried(x)' <=> Carried(x)
                       /\ Unstarted(x)' <=> Unstarted(x)
                       /\ CoreHolds(x)' <=> CoreHolds(x)
  BY <1>0, <1>1, <1>3, <1>6 DEF Carried, Unstarted, InQueue, AtDaemon, CoreHolds
<1>8. Counted'
  <2>1. \A x \in Slots : /\ Handed(x)' <=> Handed(x)
                         /\ DaemonHolds(x)' <=> DaemonHolds(x)
    BY <1>1, <1>6 DEF Handed, DaemonHolds
  <2>2. \A x \in Slots : Held(x)' = Held(x) BY <2>1, <1>1, <1>7, ThreadHolds DEF Held, One
  <2>3. QED BY <2>2, <1>1, CountedKept DEF Beside, Sound
<1>9. MarksOwned'
  <2>1. \A x \in Cores : dispatch'[x] <=> dispatch[x] /\ x \notin tcb[s].cores BY <1>1
  <2>2. \A x \in Cores, t \in Slots, d \in Cores :
          Owns(d, t) /\ x \in tcb[t].cores /\ dispatch'[x] => Owns(d, t)'
    BY <2>1, <1>5, <1>6
  <2>3. QED BY <2>1, <2>2, <1>4, MarksStay DEF Beside, Sound
<1>10. Pend' BY <1>3 DEF Pend
<1>11. tcb[s].status # "READY" /\ (core'[c].wake \/ ~Alive(tcb[s].task))
  <2>1. tcb[s].status # "READY" BY <1>0, <1>1 DEF Beside, Sound, StatusOf
  <2>2. core[c].wake \/ ~Alive(tcb[s].task)
    <3>1. WorksOn(c, s) BY <1>0, <1>1 DEF WorksOn
    <3>2. Carried(s) BY <3>1 DEF Carried, CoreHas
    <3>3. tcb[s].task \in Handles BY <3>2 DEF Beside, Sound, Base, Owners
    <3>4. QED BY <3>3, <1>0, <1>1 DEF Beside, Sound, Wakes
  <2>3. QED BY <2>1, <2>2, <1>3
<1>12. core[c].pc # "irq" /\ core'[c].pc = "unuse" BY <1>1, <1>3
<1>13. QED BY <1>1, <1>3, <1>4, <1>7, <1>8, <1>9, <1>10, <1>11, <1>12, CoreGoesOnSound

LEMMA CoreUnuseSound ==
  ASSUME Beside, NEW c \in Cores, CoreUnuse(c)
  PROVE  Sound'
<1>0. PICK s \in Slots : s = core[c].slot BY DEF CoreUnuse, Beside, Inv, Pointers
<1>1. /\ UNCHANGED <<queue, daemon, user, canceller, dispatch, tcb_index, run_signal, irq, jobs,
                     finished, release>>
      /\ core[c].pc = "unuse"
      /\ Unuse(s, core[c].wake)
      /\ core' = [core EXCEPT ![c].pc = "signal"]
  BY <1>0 DEF CoreUnuse, CoreGoes, history, Beside
<1>2. core \in [Cores -> CoreThreads] /\ core[c].wake \in BOOLEAN /\ WorksOn(c, s)
  BY <1>0, <1>1 DEF Beside, Inv, TypeOK, CoreThreads, WorksOn
<1>3. /\ core'[c].pc = "signal" /\ core'[c].slot = s /\ core'[c].status = core[c].status
      /\ \A d \in Cores : d # c => core'[d] = core[d]
  BY <1>0, <1>1, <1>2 DEF CoreThreads
<1>4. /\ SameTasks
      /\ \A x \in Slots : tcb'[x].status = tcb[x].status /\ tcb'[x].v2 = tcb[x].v2
      /\ \A x \in Slots : x # s => tcb'[x].wake = tcb[x].wake
  BY <1>1, <1>2, UnuseNodes DEF Beside, Inv
<1>5. CoreHas(c, s) /\ ~HandedTo(c, s)
  BY <1>2 DEF CoreHas, Beside, Sound, Base, Placed, OnePlace
<1>6. /\ Carried(s) /\ ~InQueue(s) /\ ~AtDaemon(s)
      /\ \A d \in Cores : d # c => ~CoreHas(d, s) /\ ~HandedTo(d, s)
      /\ \A d \in Cores : d # c /\ core[d].slot = s => core[d].pc \in {"sleep", "get", "signal"}
  BY <1>5, HoldsAlone
<1>7. \A x \in Slots : /\ HandedTo(c, x)' <=> HandedTo(c, x)
                       /\ ~WorksOn(c, x)' /\ (WorksOn(c, x) <=> x = s)
                       /\ Owns(c, x)' <=> Owns(c, x)
  BY <1>0, <1>1, <1>3 DEF HandedTo, WorksOn, Owns
<1>8. \A x \in Slots, d \in Cores : /\ HandedTo(d, x)' <=> HandedTo(d, x)
                                    /\ d # c \/ x # s => (CoreHas(d, x)' <=> CoreHas(d, x))
                                    /\ Owns(d, x)' <=> Owns(d, x)
  BY <1>1, <1>3, <1>7, OtherCores DEF CoreHas, Beside
<1>9. ~CoreHas(c, s)' BY <1>5, <1>7 DEF CoreHas
<1>10. \A x \in Slots : /\ Carried(x)' <=> Carried(x) /\ x # s
                        /\ Unstarted(x)' => Unstarted(x)
  <2>1. ~Carried(s)' BY <1>1, <1>6, <1>8, <1>9 DEF Carried, InQueue, AtDaemon
  <2>2. \A x \in Slots : x # s => (Carried(x)' <=> Carried(x))
    BY <1>1, <1>8 DEF Carried, InQueue, AtDaemon
  <2>3. \A x \in Slots : Unstarted(x)' => Unstarted(x)
    BY <1>1, <1>3, <1>8 DEF Unstarted, InQueue, AtDaemon
  <2>4. QED BY <2>1, <2>2, <2>3
<1>11. \A x \in Slots : Held(x)' = IF x = s THEN Held(x) - 1 ELSE Held(x)
  <2>1. CoreHolds(s) /\ \A x \in Slots : CoreHolds(x)' <=> CoreHolds(x) /\ x # s
    BY <1>0, <1>1, <1>3, <1>6 DEF CoreHolds
  <2>2. \A x \in Slots : /\ Handed(x)' <=> Handed(x)
                         /\ DaemonHolds(x)' <=> DaemonHolds(x)
    BY <1>1, <1>8 DEF Handed, DaemonHolds
  <2>3. QED BY <2>1, <2>2, <1>1, ThreadHolds DEF Held, One
<1>12. Counted' /\ NodesGoOn /\ Used(s) BY <1>1, <1>2, <1>11, ThreadDrops
<1>13. MarksOwned' BY <1>1, <1>4, <1>8, MarksStay DEF Beside, Sound
<1>14. Pend' BY <1>3 DEF Pend
<1>15. tcb[s].wake => tcb'[s].wake
  BY <1>1 DEF Unuse, Beside, Inv, TypeOK, TCBs
<1>16. tcb[s].status # "READY" /\ (tcb'[s].wake \/ ~Alive(tcb[s].task))
  <2>1. tcb[s].status # "READY" BY <1>0, <1>1 DEF Beside, Sound, StatusOf
  <2>2. core[c].wake \/ ~Alive(tcb[s].task)
    <3>1. tcb[s].task \in Handles BY <1>6 DEF Beside, Sound, Base, Owners
    <3>2. QED BY <3>1, <1>0, <1>1 DEF Beside, Sound, Wakes
  <2>3. core[c].wake => tcb'[s].wake
    <3>1. tcb \in [Slots -> TCBs] BY DEF Beside, Inv, TypeOK
    <3>2. QED BY <1>1, <1>12, <3>1 DEF Unuse, TCBs
  <2>4. QED BY <2>1, <2>2, <2>3
<1>17. core[c].pc # "irq" /\ core'[c].pc = "signal" BY <1>1, <1>3
<1>18. QED
  BY <1>1, <1>3, <1>4, <1>10, <1>12, <1>13, <1>14, <1>15, <1>16, <1>17, CoreGoesOnSound

-----------------------------------------------------------------------------
(* The hardware finishes the job of one core thread, on all cores of its   *)
(* task, and raises the interrupt flag of that thread.                     *)
LEMMA RunsAlone ==
  ASSUME Inv, Base, NEW c \in Cores, NEW d \in Cores, Running(c), Running(d),
         tcb[core[c].slot].task = tcb[core[d].slot].task
  PROVE  c = d
<1>1. core[c].slot \in Slots /\ core[d].slot \in Slots BY DEF Running, Inv, Pointers
<1>2. CoreHas(c, core[c].slot) /\ CoreHas(d, core[d].slot) BY DEF Running, CoreHas, WorksOn
<1>3. Carried(core[c].slot) /\ Carried(core[d].slot) BY <1>2 DEF Carried
<1>4. core[c].slot = core[d].slot BY <1>1, <1>3 DEF Base, Owners
<1>5. QED BY <1>1, <1>2, <1>4 DEF Base, Placed, OnePlace

LEMMA HardwareDoneSound ==
  ASSUME Beside, NEW h \in Handles, HardwareDone(h)
  PROVE  Sound'
<1>1. PICK j \in UNION {jobs[x] : x \in Cores} :
        /\ j[1] = h
        /\ jobs' = [x \in Cores |-> jobs[x] \ {j}]
        /\ irq' = [irq EXCEPT ![FirstCore({x \in Cores : j \in jobs[x]})] = TRUE]
        /\ finished' = [finished EXCEPT ![h] = @ \/ j = Job(h)]
        /\ UNCHANGED <<table, queue, submit_signal, daemon, dispatch, tcb_index, run_signal,
                       core, user, canceller>>
  BY DEF HardwareDone
<1>2. UNCHANGED <<node, tcb, queue, submit_signal, daemon, dispatch, tcb_index, run_signal,
                  core, user, canceller, release>>
  BY <1>1 DEF table, Beside
<1>3. PICK c \in Cores : /\ Running(c) /\ j = JobOf(c)
                         /\ \A y \in tcb[core[c].slot].cores : j \in jobs[y]
  BY DEF Beside, Sound, JobsCarried
<1>4. PICK s \in Slots : s = core[c].slot BY <1>3 DEF Running, Beside, Inv, Pointers
<1>5. tcb[s].task = h /\ j = Job(h)
  <2>1. j = <<tcb[s].task, user[tcb[s].task].left>> BY <1>3, <1>4 DEF JobOf, Job
  <2>2. tcb[s].task = h BY <2>1, <1>1
  <2>3. QED BY <2>1, <2>2 DEF Job
<1>6. ASSUME NEW d \in Cores, Running(d), JobOf(d) = j PROVE d = c
  <2>1. j[1] = tcb[core[d].slot].task BY <1>6 DEF JobOf, Job
  <2>2. QED BY <2>1, <1>1, <1>3, <1>4, <1>5, <1>6, RunsAlone DEF Beside, Sound
<1>7. tcb[s].cores \subseteq Cores /\ c = FirstCore(tcb[s].cores)
  <2>1. CoreHas(c, s) BY <1>3, <1>4 DEF Running, CoreHas, WorksOn
  <2>2. QED BY <2>1 DEF Beside, Sound, Base, Flags, CoresMarked, Inv, TypeOK, TCBs
<1>8. {x \in Cores : j \in jobs[x]} = tcb[s].cores
  <2>1. ASSUME NEW x \in Cores, j \in jobs[x] PROVE x \in tcb[s].cores
    <3>1. PICK d \in Cores : Running(d) /\ x \in tcb[core[d].slot].cores /\ j = JobOf(d)
      BY <2>1 DEF Beside, Sound, JobsCarried
    <3>2. QED BY <3>1, <1>4, <1>6
  <2>2. \A x \in tcb[s].cores : j \in jobs[x] BY <1>3, <1>4
  <2>3. QED BY <2>1, <2>2, <1>7
<1>9. irq' = [irq EXCEPT ![c] = TRUE] BY <1>1, <1>7, <1>8
<1>10. irq \in [Cores -> BOOLEAN] /\ finished \in [Handles -> BOOLEAN] BY DEF Beside, Inv, TypeOK
<1>11. irq'[c] /\ \A d \in Cores : d # c => irq'[d] = irq[d] BY <1>9, <1>10
<1>12. finished'[h] /\ \A g \in Handles : finished[g] => finished'[g]
  BY <1>1, <1>5, <1>10
<1>13. \A d \in Cores : d # c => (Running(d)' <=> Running(d)) BY <1>2, <1>11 DEF Running
<1>14. \A d \in Cores : JobOf(d)' = JobOf(d) BY <1>2 DEF JobOf, Job
<1>15. JobsCarried'
  <2>1. ASSUME NEW x \in Cores, NEW k \in jobs'[x]
        PROVE  \E d \in Cores : /\ Running(d)' /\ x \in tcb'[core'[d].slot].cores /\ k = JobOf(d)'
                                /\ \A y \in tcb'[core'[d].slot].cores : k \in jobs'[y]
    <3>1. k \in jobs[x] /\ k # j BY <2>1, <1>1
    <3>2. PICK d \in Cores : /\ Running(d) /\ x \in tcb[core[d].slot].cores /\ k = JobOf(d)
                             /\ \A y \in tcb[core[d].slot].cores : k \in jobs[y]
      BY <3>1 DEF Beside, Sound, JobsCarried
    <3>3. d # c BY <3>1, <3>2, <1>3
    <3>4. tcb[core[d].slot].cores \subseteq Cores
      <4>1. core[d].slot \in Slots BY <3>2 DEF Running, Beside, Inv, Pointers
      <4>2. QED BY <4>1 DEF Beside, Inv, TypeOK, TCBs
    <3>5. \A y \in tcb[core[d].slot].cores : k \in jobs'[y] BY <3>1, <3>2, <3>4, <1>1
    <3>6. QED BY <3>2, <3>3, <3>5, <1>2, <1>13, <1>14
  <2>2. QED BY <2>1 DEF JobsCarried
<1>16. JobsStopped'
  <2>1. \A g : OnHardware(g)' => OnHardware(g) BY <1>1 DEF OnHardware
  <2>2. QED BY <2>1, <1>2, BesideTells DEF Beside, Sound, JobsStopped
<1>17. DoneIfTrusted'
  <2>1. DoneIfTrusted BY DEF Beside, Sound
  <2>2. \A d \in Cores : irq'[d] => core'[d].pc = "irq"
    BY <2>1, <1>2, <1>3, <1>11 DEF DoneIfTrusted, Running
  <2>3. ASSUME NEW d \in Cores, NEW t \in Handles,
               irq'[d] \/ (core'[d].pc = "result" /\ core'[d].status = "SUCCESS"),
               tcb'[core'[d].slot].task = t, Trusted(t)'
        PROVE  finished'[t]
    <3>1. Trusted(t) BY <2>3, BesideTells
    <3>2. CASE d = c BY <3>2, <2>3, <1>2, <1>4, <1>5, <1>12
    <3>3. CASE d # c
      <4>1. finished[t] BY <3>1, <3>3, <2>1, <2>3, <1>2, <1>11 DEF DoneIfTrusted
      <4>2. QED BY <4>1, <1>12
    <3>4. QED BY <3>2, <3>3
  <2>4. \A g \in Handles : Trusted(g)' /\ Reports(g)' => finished'[g]
    <3>1. \A g \in Handles : Reports(g)' => Reports(g) BY <1>2 DEF Reports
    <3>2. QED BY <3>1, <2>1, <1>12, BesideTells DEF DoneIfTrusted
  <2>5. \A d \in Cores, t \in Handles :
          (irq'[d] \/ (core'[d].pc = "result" /\ core'[d].status = "SUCCESS"))
            /\ tcb'[core'[d].slot].task = t /\ Trusted(t)' => finished'[t]
    BY <2>3
  <2>6. QED BY <2>2, <2>4, <2>5 DEF DoneIfTrusted
<1>18. /\ \A x \in Slots, d \in Cores : /\ HandedTo(d, x)' <=> HandedTo(d, x)
                                        /\ CoreHas(d, x)' <=> CoreHas(d, x)
                                        /\ Owns(d, x)' <=> Owns(d, x)
       /\ \A x \in Slots : /\ Held(x)' = Held(x)
                           /\ Going(x)' <=> Going(x)
  BY <1>2 DEF HandedTo, WorksOn, CoreHas, Owns, Held, UserHolds, DaemonHolds, Handed, CoreHolds,
              ReleaseHolds, Going
<1>19. \A x \in Slots : /\ Carried(x)' <=> Carried(x)
                        /\ Unstarted(x)' <=> Unstarted(x)
  BY <1>2, <1>18 DEF Carried, Unstarted, InQueue, AtDaemon
<1>20. SameTasks /\ NodesGoOn BY <1>2 DEF SameTasks, NodesGoOn, NodeKept
<1>21. Base' /\ SlotsOwned' /\ TasksOwned'
  BY <1>2, <1>18, <1>19, <1>20, OwnedKept, TasksKept DEF Beside, Sound
<1>22. StatusOf' /\ Uncancelled'
  BY <1>2, <1>18, <1>19, BesideTells DEF Beside, Sound, StatusOf, Uncancelled
<1>23. Counted' BY <1>2, <1>18, CountedKept DEF Beside, Sound
<1>24. MarksOwned' BY <1>2, <1>18, <1>20, MarksStay DEF Beside, Sound
<1>25. Wakes'
  <2>1. Pend' <=> Pend BY <1>2 DEF Pend
  <2>2. Wakes BY DEF Beside, Sound
  <2>3. (\E x \in Slots : InQueue(x)') <=> (\E x \in Slots : InQueue(x)) BY <1>2 DEF InQueue
  <2>4. QED BY <2>1, <2>2, <2>3, <1>2, <1>19, BesideTells DEF Wakes
<1>26. QED
  BY <1>15, <1>16, <1>17, <1>21, <1>22, <1>23, <1>24, <1>25 DEF Sound

-----------------------------------------------------------------------------
(* vipdrv_task_tcb_submit and vipdrv_task_tcb_wait.  The slot of a call is *)
(* the user's own, and what is carried in it is the user's task.           *)
LEMMA UserPlaces ==
  ASSUME Beside, NEW h \in Handles, user[h].pc # "out"
  PROVE  /\ user[h].slot \in Slots /\ Used(user[h].slot) /\ user[h].pc # "abandon"
         /\ node[user[h].slot].handle = h
         /\ node[user[h].slot].remove <=> user[h].pc = "leave"
         /\ \A x \in Slots : node[x].handle = h => x = user[h].slot
         /\ Alive(h) /\ release[h].pc = "alive"
         /\ Carried(user[h].slot) => tcb[user[h].slot].task = h /\ user[h].pc \in Waiting
<1>1. user[h].slot \in Slots /\ node[user[h].slot].handle = h /\ user[h].pc # "abandon"
  BY DEF Beside, Inv, Pointers, Sound, SlotsOwned
<1>2. Alive(h) /\ release[h].pc = "alive" BY BesideTells DEF Alive
<1>3. node[user[h].slot].remove <=> user[h].pc = "leave"
  BY <1>1, <1>2 DEF Beside, Sound, SlotsOwned, Removed, Cleared
<1>4. \A x \in Slots : node[x].handle = h => x = user[h].slot
  BY DEF Beside, Sound, Base, Owners
<1>5. Used(user[h].slot) BY <1>1, BesideTells DEF Used
<1>6. ASSUME Carried(user[h].slot)
      PROVE  tcb[user[h].slot].task = h /\ user[h].pc \in Waiting
  <2>1. PICK t \in Handles : t = tcb[user[h].slot].task
    BY <1>1, <1>6 DEF Beside, Sound, Base, Owners
  <2>2. node[user[h].slot].handle \in {NoHandle, t}
    BY <1>1, <1>6, <2>1 DEF Beside, Sound, TasksOwned
  <2>3. t = h BY <1>1, <2>2, BesideTells
  <2>4. QED BY <1>1, <1>2, <1>6, <2>1, <2>3 DEF Beside, Sound, TasksOwned
<1>7. QED BY <1>1, <1>2, <1>3, <1>4, <1>5, <1>6

(* The steps of a call that do not queue a task.                           *)
LEMMA UserSound ==
  ASSUME Beside, NEW h \in Handles, NEW s \in Slots, s = user[h].slot,
         user[h].pc # "out", user'[h].slot = s,
         \A g \in Handles : user'[g].left = user[g].left /\ (g # h => user'[g] = user[g]),
         UNCHANGED <<queue, tcb_index, run_signal, core, dispatch, daemon, canceller, irq, jobs,
                     finished>>,
         SameTasks, \A x \in Slots : tcb'[x].v2 = tcb[x].v2,
         \A x \in Slots : x # s => tcb'[x] = tcb[x] /\ node'[x] = node[x],
         Carried(s) => tcb'[s].status = tcb[s].status /\ (tcb'[s].wake => tcb[s].wake),
         tcb'[s].status \in {tcb[s].status, "EMPTY"},
         user'[h].pc \in Waiting => user[h].pc \in Waiting /\ (tcb[s].wake => tcb'[s].wake),
         Carried(s) => user'[h].pc \in Waiting,
         user'[h].pc # "abandon", user'[h].result # "CANCELED", Reports(h)' => Reports(h),
         submit_signal => submit_signal',
         user[h].pc \in {"unuse", "signal"} => submit_signal' \/ user'[h].pc \in {"unuse", "signal"},
         node'[s].ref = node[s].ref + One(user'[h].pc \in Holding) - One(user[h].pc \in Holding),
         user'[h].pc = "out" => node'[s].handle = NoHandle /\ node'[s].ref = 0,
         user'[h].pc # "out" => /\ node'[s].handle = node[s].handle
                                /\ node'[s].remove <=> user'[h].pc = "leave"
  PROVE  Sound'
<1>1. /\ Used(s) /\ node[s].handle = h /\ Alive(h) /\ release[h].pc = "alive"
      /\ \A x \in Slots : node[x].handle = h => x = s
      /\ Carried(s) => tcb[s].task = h /\ user[h].pc \in Waiting
  BY UserPlaces
<1>2. UNCHANGED release /\ NoHandle \notin Handles BY BesideTells DEF Beside
<1>3. \A g \in Handles : user[g].pc # "out" /\ g # h => user[g].slot \in Slots /\ user[g].slot # s
  BY DEF Beside, Inv, Pointers, Sound, Base, Owners
<1>4. \A x \in Slots, d \in Cores : /\ HandedTo(d, x)' <=> HandedTo(d, x)
                                    /\ CoreHas(d, x)' <=> CoreHas(d, x)
                                    /\ Owns(d, x)' <=> Owns(d, x)
  BY DEF HandedTo, WorksOn, CoreHas, Owns
<1>5. \A x \in Slots : /\ Carried(x)' <=> Carried(x)
                       /\ Unstarted(x)' <=> Unstarted(x)
                       /\ Going(x)' <=> Going(x)
                       /\ InQueue(x)' <=> InQueue(x)
  BY <1>4 DEF Carried, Unstarted, InQueue, AtDaemon, Going
<1>6. \A c \in Cores : core[c].pc \in {"submit", "irq", "result", "end", "remove", "free", "unuse"} =>
        core[c].slot \in Slots /\ Carried(core[c].slot)
  BY DEF Beside, Inv, Pointers, Carried, CoreHas, WorksOn
<1>7. \A x \in Slots : Carried(x) => tcb'[x].status = tcb[x].status OBVIOUS
<1>8. SlotsOwned'
  <2>1. \A g \in Handles : canceller'[g].pc = "out" BY DEF Beside, Sound, SlotsOwned
  <2>2. ASSUME NEW g \in Handles, Alive(g)', user'[g].pc = "out", NEW x \in Slots
        PROVE  node'[x].handle # g
    <3>1. CASE g = h BY <3>1, <2>2, <1>1, <1>2
    <3>2. CASE g # h
      <4>1. Alive(g) /\ user[g].pc = "out" BY <3>2, <2>2, BesideTells
      <4>2. node[x].handle # g BY <4>1 DEF Beside, Sound, SlotsOwned
      <4>3. QED BY <3>2, <4>2, <1>1, <1>2
    <3>3. QED BY <3>1, <3>2
  <2>3. ASSUME NEW g \in Handles, user'[g].pc # "out"
        PROVE  user'[g].pc # "abandon" /\ node'[user'[g].slot].handle = g
    <3>1. CASE g = h BY <3>1, <2>3, <1>1
    <3>2. CASE g # h BY <3>2, <2>3, <1>3 DEF Beside, Sound, SlotsOwned
    <3>3. QED BY <3>1, <3>2
  <2>4. ASSUME NEW g \in Handles, release'[g].pc \in HasTask
        PROVE  node'[release'[g].slot].handle = g
    <3>1. release[g].slot \in Slots /\ node[release[g].slot].handle = g /\ g # h
      BY <2>4, <1>1, <1>2 DEF Beside, ExitTypes, Sound, SlotsOwned, HasTask
    <3>2. QED BY <3>1, <1>1, <1>2
  <2>5. \A x, y \in Slots : node'[x].handle = node'[y].handle => x = y \/ node'[x].handle = NoHandle
    BY <1>1 DEF Beside, Sound, SlotsOwned
  <2>6. ASSUME NEW x \in Slots, NEW g \in Handles, node'[x].handle = g
        PROVE  /\ Removed(g)' => node'[x].remove
               /\ node'[x].remove => Removed(g)' \/ release'[g].pc = "remove"
    <3>1. CASE x = s
      <4>1. g = h /\ user'[h].pc # "out" BY <3>1, <2>6, <1>1, <1>2
      <4>2. Removed(h)' <=> user'[h].pc = "leave" BY <1>1, <1>2 DEF Removed, Cleared
      <4>3. QED BY <3>1, <4>1, <4>2
    <3>2. CASE x # s
      <4>1. node'[x] = node[x] /\ g # h BY <3>2, <2>6, <1>1
      <4>2. Removed(g)' <=> Removed(g) BY <4>1, <1>2 DEF Removed
      <4>3. QED BY <4>1, <4>2, <2>6, <1>2 DEF Beside, Sound, SlotsOwned
    <3>3. QED BY <3>1, <3>2
  <2>7. QED BY <2>1, <2>2, <2>3, <2>4, <2>5, <2>6 DEF SlotsOwned
<1>9. TasksOwned'
  <2> SUFFICES ASSUME NEW x \in Slots, NEW t \in Handles, Carried(x)', tcb'[x].task = t
               PROVE  /\ node'[x].handle \in {NoHandle, t}
                      /\ Live(t)' => /\ node'[x].handle = t
                                     /\ Unstarted(x)' => tcb'[x].status = "READY"
                                     /\ ~Going(x)'
                      /\ ~Live(t)' => tcb'[x].status # "READY"
                      /\ Alive(t)' => /\ ~tcb'[x].wake /\ user'[t].slot = x
                                      /\ user'[t].pc \in Waiting
    BY DEF TasksOwned
  <2>1. Carried(x) /\ tcb[x].task = t BY <1>5 DEF SameTasks
  <2>2. /\ node[x].handle \in {NoHandle, t}
        /\ Live(t) => /\ node[x].handle = t
                      /\ Unstarted(x) => tcb[x].status = "READY"
                      /\ ~Going(x)
        /\ ~Live(t) => tcb[x].status # "READY"
        /\ Alive(t) => ~tcb[x].wake /\ user[t].slot = x /\ user[t].pc \in Waiting
    BY <2>1 DEF Beside, Sound, TasksOwned
  <2>3. (Live(t)' <=> Live(t)) /\ (Alive(t)' <=> Alive(t)) BY BesideTells
  <2>4. CASE x = s
    <3>1. t = h /\ user'[h].pc \in Waiting BY <2>1, <2>4, <1>1
    <3>2. user'[h].pc # "out" BY <3>1 DEF Waiting
    <3>3. QED BY <2>1, <2>2, <2>3, <2>4, <3>1, <3>2, <1>1, <1>5
  <2>5. CASE x # s
    <3>1. node'[x] = node[x] /\ tcb'[x] = tcb[x] BY <2>5
    <3>2. Alive(t) => user'[t] = user[t] BY <2>2, <2>5
    <3>3. QED BY <2>2, <2>3, <3>1, <3>2, <1>5
  <2>6. QED BY <2>4, <2>5
<1>10. StatusOf'
  <2>1. StatusOf BY DEF Beside, Sound
  <2>2. \A x \in Slots : tcb'[x].status = "READY" => tcb[x].status = "READY" OBVIOUS
  <2>3. \A x \in Slots : tcb'[x].status = "READY" => Carried(x)' BY <2>1, <2>2, <1>5 DEF StatusOf
  <2>4. \A x \in Slots : Going(x)' => tcb'[x].status # "READY" BY <2>1, <2>2, <1>5 DEF StatusOf
  <2>5. \A c \in Cores : core'[c].pc \in {"irq", "result", "end", "free", "unuse"} =>
          tcb'[core'[c].slot].status # "READY"
    BY <2>1, <2>2, <1>6 DEF StatusOf
  <2>6. \A g \in Handles : release'[g].pc \in {"cancel", "wait_idle"} =>
          tcb'[release'[g].slot].status # "READY"
    BY <2>1, <2>2, <1>2 DEF StatusOf, Beside, ExitTypes, HasTask
  <2>7. \A c \in Cores, t \in Handles :
          core'[c].pc = "irq" /\ tcb'[core'[c].slot].task = t /\ Live(t)' =>
            tcb'[core'[c].slot].status = "INFER_START"
    BY <2>1, <1>6, <1>7, BesideTells DEF StatusOf, SameTasks
  <2>8. QED BY <2>3, <2>4, <2>5, <2>6, <2>7 DEF StatusOf
<1>11. Uncancelled'
  <2>1. Uncancelled BY DEF Beside, Sound
  <2>2. \A g \in Handles : Alive(g)' => user'[g].result # "CANCELED"
    BY <2>1, BesideTells DEF Uncancelled
  <2>3. \A g \in Handles : user'[g].pc \in Waiting => tcb'[user'[g].slot].v2 # "CANCELED"
    <3>1. \A g \in Handles : user'[g].pc \in Waiting => /\ user[g].pc \in Waiting
                                                      /\ user'[g].slot = user[g].slot
                                                      /\ user[g].slot \in Slots
      BY <1>3 DEF Waiting
    <3>2. QED BY <3>1, <2>1 DEF Uncancelled
  <2>4. QED BY <2>1, <2>2, <2>3 DEF Uncancelled
<1>12. Counted'
  <2>1. /\ UserHolds(s) <=> user[h].pc \in Holding
        /\ UserHolds(s)' <=> user'[h].pc \in Holding
        /\ \A x \in Slots : x # s => (UserHolds(x)' <=> UserHolds(x))
    BY UserMoves DEF Beside, Sound, Base
  <2>2. \A x \in Slots : /\ DaemonHolds(x)' <=> DaemonHolds(x)
                         /\ Handed(x)' <=> Handed(x)
                         /\ CoreHolds(x)' <=> CoreHolds(x)
                         /\ ReleaseHolds(x)' <=> ReleaseHolds(x)
    BY <1>2 DEF DaemonHolds, Handed, HandedTo, CoreHolds, ReleaseHolds
  <2>3. Counted BY DEF Beside, Sound
  <2>4. node[s].ref = Held(s) /\ node'[s].ref = Held(s)'
    <3>1. node'[s].ref = node[s].ref + One(UserHolds(s)') - One(UserHolds(s)) BY <2>1 DEF One
    <3>2. node[s].ref = Held(s) BY <2>3 DEF Counted
    <3>3. QED BY <3>1, <3>2, <2>2 DEF Held, One
  <2>5. \A x \in Slots : x # s => Held(x)' = Held(x) BY <2>1, <2>2 DEF Held, One
  <2>6. node'[s].ref # 0 => Used(s)' BY <1>1, <1>2 DEF Used
  <2>7. Used(s)' /\ node'[s].remove => node'[s].ref # 0
    <3> SUFFICES ASSUME Used(s)', node'[s].remove PROVE node'[s].ref # 0 OBVIOUS
    <3>1. user'[h].pc = "leave" BY DEF Used
    <3>2. UserHolds(s)' BY <3>1, <2>1 DEF Holding
    <3>3. Held(s)' # 0 BY <3>2 DEF Held, One
    <3>4. QED BY <3>3, <2>4
  <2>8. \A x \in Slots : x # s => /\ node'[x].ref = Held(x)'
                                  /\ node'[x].ref # 0 => Used(x)'
                                  /\ Used(x)' /\ node'[x].remove => node'[x].ref # 0
    BY <2>3, <2>5 DEF Counted, Used
  <2>9. \A x \in Slots : /\ node'[x].ref = Held(x)'
                         /\ node'[x].ref # 0 => Used(x)'
                         /\ Used(x)' /\ node'[x].remove => node'[x].ref # 0
    BY <2>4, <2>6, <2>7, <2>8
  <2>10. QED BY <2>9 DEF Counted
<1>13. MarksOwned' BY <1>4, MarksStay DEF Beside, Sound
<1>14. JobsCarried' /\ JobsStopped'
  <2>1. \A d \in Cores : Running(d)' <=> Running(d) BY DEF Running
  <2>2. ASSUME NEW d \in Cores, Running(d)
        PROVE  JobOf(d)' = JobOf(d) /\ tcb'[core[d].slot].cores = tcb[core[d].slot].cores
    <3>1. core[d].slot \in Slots /\ Carried(core[d].slot) BY <2>2, <1>6 DEF Running
    <3>2. tcb[core[d].slot].task \in Handles BY <3>1 DEF Beside, Sound, Base, Owners
    <3>3. QED BY <3>1, <3>2 DEF JobOf, Job, SameTasks
  <2>3. JobsCarried' BY <2>1, <2>2 DEF Beside, Sound, JobsCarried
  <2>4. \A g : OnHardware(g)' <=> OnHardware(g) BY DEF OnHardware
  <2>5. JobsStopped' BY <2>4, <1>2, BesideTells DEF Beside, Sound, JobsStopped
  <2>6. QED BY <2>3, <2>5
<1>15. DoneIfTrusted'
  <2>1. DoneIfTrusted BY DEF Beside, Sound
  <2>2. \A c \in Cores : irq'[c] => core'[c].pc = "irq" BY <2>1 DEF DoneIfTrusted
  <2>3. \A c \in Cores, t \in Handles :
          (irq'[c] \/ (core'[c].pc = "result" /\ core'[c].status = "SUCCESS"))
            /\ tcb'[core'[c].slot].task = t /\ Trusted(t)' => finished'[t]
    BY <2>1, <1>6, BesideTells DEF DoneIfTrusted, SameTasks
  <2>4. \A g \in Handles : Trusted(g)' /\ Reports(g)' => finished'[g]
    <3>1. \A g \in Handles : Reports(g)' => Reports(g)
      <4> SUFFICES ASSUME NEW g \in Handles, g # h, Reports(g)' PROVE Reports(g) OBVIOUS
      <4>1. user'[g] = user[g] OBVIOUS
      <4>2. user[g].pc \in Waiting => tcb'[user[g].slot].v2 = tcb[user[g].slot].v2
        BY <1>3 DEF Waiting
      <4>3. QED BY <4>1, <4>2 DEF Reports
    <3>2. QED BY <3>1, <2>1, BesideTells DEF DoneIfTrusted
  <2>5. QED BY <2>2, <2>3, <2>4 DEF DoneIfTrusted
<1>16. Wakes'
  <2>1. Wakes BY DEF Beside, Sound
  <2>2. Pend => Pend' BY DEF Pend
  <2>3. (\E x \in Slots : InQueue(x)') <=> (\E x \in Slots : InQueue(x)) BY <1>5
  <2>4. ASSUME NEW g \in Handles, NEW x \in Slots, user'[g].pc \in Waiting, user'[g].slot = x
        PROVE  Carried(x)' \/ tcb'[x].wake
    <3>1. CASE g = h BY <3>1, <2>1, <2>4, <1>5 DEF Wakes
    <3>2. CASE g # h
      <4>1. user[g].pc \in Waiting /\ user[g].slot = x /\ x # s
        BY <3>2, <2>4, <1>3 DEF Waiting
      <4>2. QED BY <4>1, <2>1, <1>5 DEF Wakes
    <3>3. QED BY <3>1, <3>2
  <2>5. \A c \in Cores, t \in Handles :
          core'[c].pc \in {"free", "unuse"} /\ tcb'[core'[c].slot].task = t /\ Alive(t)' => core'[c].wake
    BY <2>1, <1>6, BesideTells DEF Wakes, SameTasks
  <2>6. QED BY <2>1, <2>2, <2>3, <2>4, <2>5 DEF Wakes
<1>17. QED
  BY <1>8, <1>9, <1>10, <1>11, <1>12, <1>13, <1>14, <1>15, <1>16 DEF Sound, Beside

(* The steps that only lead on to the next one, and count a reference.     *)
LEMMA UserGoesSound ==
  ASSUME Beside, NEW h \in Handles, NEW s \in Slots, s = user[h].slot, user[h].pc # "out",
         user'[h].pc \notin {"out", "abandon"}, user'[h].slot = s,
         user'[h].result = user[h].result, user'[h].left = user[h].left,
         \A g \in Handles : g # h => user'[g] = user[g],
         UNCHANGED <<tcb, queue, tcb_index, run_signal, core, dispatch, daemon, canceller, irq,
                     jobs, finished>>,
         user'[h].pc \in Waiting => user[h].pc \in Waiting,
         Carried(s) => user'[h].pc \in Waiting,
         user'[h].pc \in {"remove", "leave"} => user[h].pc \in {"remove", "leave"},
         submit_signal => submit_signal',
         user[h].pc \in {"unuse", "signal"} => submit_signal' \/ user'[h].pc \in {"unuse", "signal"},
         \A x \in Slots : x # s => node'[x] = node[x],
         node'[s].ref = node[s].ref + One(user'[h].pc \in Holding) - One(user[h].pc \in Holding),
         node'[s].handle = node[s].handle,
         node'[s].remove <=> user'[h].pc = "leave"
  PROVE  Sound'
<1>1. SameTasks BY DEF SameTasks
<1>2. user'[h].result # "CANCELED" BY UserPlaces DEF Beside, Sound, Uncancelled
<1>3. Reports(h)' => Reports(h) BY DEF Reports
<1>4. /\ \A g \in Handles : user'[g].left = user[g].left /\ (g # h => user'[g] = user[g])
      /\ tcb'[s].status \in {tcb[s].status, "EMPTY"}
      /\ user'[h].pc \in Waiting => user[h].pc \in Waiting /\ (tcb[s].wake => tcb'[s].wake)
      /\ Carried(s) => tcb'[s].status = tcb[s].status /\ (tcb'[s].wake => tcb[s].wake)
      /\ \A x \in Slots : tcb'[x].v2 = tcb[x].v2
      /\ \A x \in Slots : x # s => tcb'[x] = tcb[x] /\ node'[x] = node[x]
  OBVIOUS
<1>5. QED BY <1>1, <1>2, <1>3, <1>4, UserSound

LEMMA SubmitGetSound ==
  ASSUME Beside, NEW h \in Handles, SubmitGet(h)
  PROVE  Sound'
<1>1. user[h].pc = "get" BY DEF SubmitGet
<1>2. PICK s \in Slots : s = user[h].slot BY <1>1, UserPlaces
<1>3. /\ Used(s) /\ node[s].handle = h /\ ~node[s].remove /\ ~Carried(s)
  BY <1>1, <1>2, UserPlaces DEF Waiting
<1>4. /\ TakeRef(s) /\ user' = [user EXCEPT ![h].pc = "enqueue"]
      /\ UNCHANGED <<tcb, queue, submit_signal, tcb_index, run_signal, core, dispatch, daemon,
                     canceller, irq, jobs, finished>>
  BY <1>2, <1>3 DEF SubmitGet, UserGoes, hwVars, history
<1>5. user \in [Handles -> Users] /\ node \in [Slots -> Nodes] BY DEF Beside, Inv, TypeOK
<1>6. /\ user'[h].pc = "enqueue" /\ user'[h].slot = s
      /\ user'[h].result = user[h].result /\ user'[h].left = user[h].left
      /\ \A g \in Handles : g # h => user'[g] = user[g]
  BY <1>2, <1>4, <1>5 DEF Users
<1>7. node'[s] = [node[s] EXCEPT !.ref = @ + 1] /\ \A x \in Slots : x # s => node'[x] = node[x]
  BY <1>4, <1>5 DEF TakeRef
<1>8. /\ node'[s].handle = node[s].handle /\ node'[s].remove = node[s].remove
      /\ node'[s].ref = node[s].ref + 1 /\ node[s].ref \in Int
  BY <1>5, <1>7 DEF Nodes
<1>9. node'[s].ref = node[s].ref + One(user'[h].pc \in Holding) - One(user[h].pc \in Holding)
  BY <1>1, <1>6, <1>8 DEF One, Holding
<1>10. user'[h].pc \notin Waiting BY <1>6 DEF Waiting
<1>11. QED
  BY <1>1, <1>2, <1>3, <1>4, <1>6, <1>7, <1>8, <1>9, <1>10, UserGoesSound

LEMMA SubmitUnuseSound ==
  ASSUME Beside, NEW h \in Handles, SubmitUnuse(h)
  PROVE  Sound'
<1>1. user[h].pc = "unuse" BY UserPlaces DEF SubmitUnuse
<1>2. PICK s \in Slots : s = user[h].slot BY <1>1, UserPlaces
<1>3. /\ Used(s) /\ node[s].handle = h /\ ~node[s].remove
  BY <1>1, <1>2, UserPlaces
<1>4. /\ Unuse(s, FALSE) /\ user' = [user EXCEPT ![h].pc = "signal"]
      /\ UNCHANGED <<tcb, queue, submit_signal, tcb_index, run_signal, core, dispatch, daemon,
                     canceller, irq, jobs, finished>>
  BY <1>1, <1>2 DEF SubmitUnuse, UserGoes, Unuse, hwVars, history
<1>5. user \in [Handles -> Users] /\ node \in [Slots -> Nodes] BY DEF Beside, Inv, TypeOK
<1>6. /\ user'[h].pc = "signal" /\ user'[h].slot = s
      /\ user'[h].result = user[h].result /\ user'[h].left = user[h].left
      /\ \A g \in Handles : g # h => user'[g] = user[g]
  BY <1>2, <1>4, <1>5 DEF Users
<1>7. /\ node'[s].handle = node[s].handle /\ node'[s].remove = node[s].remove
      /\ node'[s].ref = node[s].ref - 1 /\ node[s].ref \in Int
  BY <1>3, <1>4, <1>5, UnuseNodes DEF Beside, Inv, Nodes
<1>8. \A x \in Slots : x # s => node'[x] = node[x] BY <1>4, <1>5 DEF Unuse
<1>9. node'[s].ref = node[s].ref + One(user'[h].pc \in Holding) - One(user[h].pc \in Holding)
  BY <1>1, <1>6, <1>7 DEF One, Holding
<1>10. user'[h].pc \in Waiting /\ user[h].pc \in Waiting BY <1>1, <1>6 DEF Waiting
<1>11. QED
  BY <1>1, <1>2, <1>3, <1>4, <1>6, <1>7, <1>8, <1>9, <1>10, UserGoesSound

(* The steps that touch neither the table nor a TCB.                       *)
LEMMA UserOnlySound ==
  ASSUME Beside, NEW h \in Handles, SubmitSignal(h) \/ WaitFind(h) \/ WaitCheck(h)
  PROVE  Sound'
<1>1. user[h].pc \in {"signal", "find", "check"} BY DEF SubmitSignal, WaitFind, WaitCheck
<1>2. PICK s \in Slots : s = user[h].slot BY <1>1, UserPlaces
<1>3. /\ Used(s) /\ node[s].handle = h /\ ~node[s].remove
      /\ \A x \in Slots : node[x].handle = h => x = s
  BY <1>1, <1>2, UserPlaces
<1>4. UNCHANGED <<node, tcb, queue, tcb_index, run_signal, core, dispatch, daemon, canceller,
                  irq, jobs, finished>>
  BY DEF SubmitSignal, WaitFind, WaitCheck, table, hwVars, history
<1>5. user \in [Handles -> Users] /\ node \in [Slots -> Nodes] BY DEF Beside, Inv, TypeOK
<1>6. /\ user'[h].slot = s /\ user'[h].result = user[h].result /\ user'[h].left = user[h].left
      /\ \A g \in Handles : g # h => user'[g] = user[g]
      /\ \/ user[h].pc = "signal" /\ user'[h].pc = "find" /\ submit_signal'
         \/ user[h].pc = "find" /\ user'[h].pc = "ref" /\ submit_signal' = submit_signal
         \/ user[h].pc = "check" /\ user'[h].pc = "block" /\ submit_signal' = submit_signal
  <2>1. CASE SubmitSignal(h) BY <2>1, <1>2, <1>5 DEF SubmitSignal, UserGoes, Users
  <2>2. CASE WaitFind(h)
    <3>1. s \in SlotsOf(h) BY <1>3 DEF SlotsOf
    <3>2. PICK x \in SlotsOf(h) : user' = [user EXCEPT ![h].pc = "ref", ![h].slot = x]
      BY <2>2, <3>1 DEF WaitFind
    <3>3. x = s BY <3>2, <1>3 DEF SlotsOf
    <3>4. QED BY <2>2, <3>2, <3>3, <1>5 DEF WaitFind, Users
  <2>3. CASE WaitCheck(h)
    <3>1. user[h].pc \in Waiting BY <2>3 DEF WaitCheck, Waiting
    <3>2. tcb[s].v2 # "CANCELED" BY <3>1, <1>2 DEF Beside, Sound, Uncancelled
    <3>3. QED BY <2>3, <3>2, <1>2, <1>5 DEF WaitCheck, Users
  <2>4. QED BY <2>1, <2>2, <2>3
<1>7. user[h].pc \in Waiting /\ user'[h].pc \in Waiting BY <1>6 DEF Waiting
<1>8. user'[h].pc \in Holding <=> user[h].pc \in Holding BY <1>6 DEF Holding
<1>9. node[s].ref \in Int BY <1>5 DEF Nodes
<1>10. node'[s].ref = node[s].ref + One(user'[h].pc \in Holding) - One(user[h].pc \in Holding)
  BY <1>4, <1>8, <1>9 DEF One
<1>11. /\ user'[h].pc \notin {"out", "abandon", "remove", "leave"}
       /\ submit_signal => submit_signal'
       /\ user[h].pc \in {"unuse", "signal"} => submit_signal'
  BY <1>6
<1>12. \A x \in Slots : x # s => node'[x] = node[x] BY <1>4
<1>13. QED BY <1>1, <1>2, <1>3, <1>4, <1>6, <1>7, <1>10, <1>11, <1>12, UserGoesSound

LEMMA WaitRefSound ==
  ASSUME Beside, NEW h \in Handles, WaitRef(h)
  PROVE  Sound'
<1>1. user[h].pc = "ref" BY DEF WaitRef
<1>2. PICK s \in Slots : s = user[h].slot BY <1>1, UserPlaces
<1>3. Used(s) /\ node[s].handle = h /\ ~node[s].remove BY <1>1, <1>2, UserPlaces
<1>4. /\ TakeRef(s) /\ user' = [user EXCEPT ![h].pc = "check"]
      /\ UNCHANGED <<tcb, queue, submit_signal, tcb_index, run_signal, core, dispatch, daemon,
                     canceller, irq, jobs, finished>>
  BY <1>2 DEF WaitRef, UserGoes, hwVars, history
<1>5. user \in [Handles -> Users] /\ node \in [Slots -> Nodes] BY DEF Beside, Inv, TypeOK
<1>6. /\ user'[h].pc = "check" /\ user'[h].slot = s
      /\ user'[h].result = user[h].result /\ user'[h].left = user[h].left
      /\ \A g \in Handles : g # h => user'[g] = user[g]
  BY <1>2, <1>4, <1>5 DEF Users
<1>7. node'[s] = [node[s] EXCEPT !.ref = @ + 1] /\ \A x \in Slots : x # s => node'[x] = node[x]
  BY <1>4, <1>5 DEF TakeRef
<1>8. /\ node'[s].handle = node[s].handle /\ node'[s].remove = node[s].remove
      /\ node'[s].ref = node[s].ref + 1 /\ node[s].ref \in Int
  BY <1>5, <1>7 DEF Nodes
<1>9. node'[s].ref = node[s].ref + One(user'[h].pc \in Holding) - One(user[h].pc \in Holding)
  BY <1>1, <1>6, <1>8 DEF One, Holding
<1>10. user'[h].pc \in Waiting /\ user[h].pc \in Waiting BY <1>1, <1>6 DEF Waiting
<1>11. QED
  BY <1>1, <1>2, <1>3, <1>4, <1>6, <1>7, <1>8, <1>9, <1>10, UserGoesSound

LEMMA WaitRemoveSound ==
  ASSUME Beside, NEW h \in Handles, WaitRemove(h)
  PROVE  Sound'
<1>1. user[h].pc = "remove" BY DEF WaitRemove
<1>2. PICK s \in Slots : s = user[h].slot BY <1>1, UserPlaces
<1>3. Used(s) /\ node[s].handle = h /\ ~Carried(s) BY <1>1, <1>2, UserPlaces DEF Waiting
<1>4. /\ MarkRemoved(s) /\ user' = [user EXCEPT ![h].pc = "leave"]
      /\ UNCHANGED <<tcb, queue, submit_signal, tcb_index, run_signal, core, dispatch, daemon,
                     canceller, irq, jobs, finished>>
  BY <1>2 DEF WaitRemove, UserGoes, hwVars, history
<1>5. user \in [Handles -> Users] /\ node \in [Slots -> Nodes] BY DEF Beside, Inv, TypeOK
<1>6. /\ user'[h].pc = "leave" /\ user'[h].slot = s
      /\ user'[h].result = user[h].result /\ user'[h].left = user[h].left
      /\ \A g \in Handles : g # h => user'[g] = user[g]
  BY <1>2, <1>4, <1>5 DEF Users
<1>7. node[s].ref # 0
  <2>1. UserHolds(s) BY <1>1, <1>2 DEF UserHolds, Holding
  <2>2. Held(s) # 0 BY <2>1 DEF Held, One
  <2>3. QED BY <2>2 DEF Beside, Sound, Counted
<1>8. node' = [node EXCEPT ![s] = [@ EXCEPT !.remove = TRUE]] BY <1>3, <1>4, <1>7 DEF MarkRemoved
<1>9. /\ node'[s].handle = node[s].handle /\ node'[s].remove /\ node'[s].ref = node[s].ref
      /\ node[s].ref \in Int /\ \A x \in Slots : x # s => node'[x] = node[x]
  BY <1>5, <1>8 DEF Nodes
<1>10. node'[s].ref = node[s].ref + One(user'[h].pc \in Holding) - One(user[h].pc \in Holding)
  BY <1>1, <1>6, <1>9 DEF One, Holding
<1>11. user'[h].pc \notin Waiting BY <1>6 DEF Waiting
<1>12. QED BY <1>1, <1>2, <1>3, <1>4, <1>6, <1>9, <1>10, <1>11, UserGoesSound

(* The user that is woken has a task that nobody carries any more.         *)
LEMMA WaitWokenSound ==
  ASSUME Beside, NEW h \in Handles, WaitWoken(h)
  PROVE  Sound'
<1>1. user[h].pc = "block" BY DEF WaitWoken
<1>2. PICK s \in Slots : s = user[h].slot BY <1>1, UserPlaces
<1>3. /\ tcb[s].wake /\ tcb' = [tcb EXCEPT ![s].wake = FALSE, ![s].status = "EMPTY"]
      /\ user' = [user EXCEPT ![h].pc = "remove", ![h].result = tcb[s].v2]
      /\ UNCHANGED <<node, queue, submit_signal, tcb_index, run_signal, core, dispatch, daemon,
                     canceller, irq, jobs, finished>>
  BY <1>2 DEF WaitWoken, hwVars, history
<1>4. /\ user \in [Handles -> Users] /\ node \in [Slots -> Nodes] /\ tcb \in [Slots -> TCBs]
  BY DEF Beside, Inv, TypeOK
<1>5. Used(s) /\ node[s].handle = h /\ ~node[s].remove /\ ~Carried(s)
  <2>1. Used(s) /\ node[s].handle = h /\ ~node[s].remove /\ Alive(h) BY <1>1, <1>2, UserPlaces
  <2>2. ASSUME Carried(s) PROVE FALSE
    <3>1. tcb[s].task = h BY <1>1, <1>2, <2>2, UserPlaces
    <3>2. QED BY <2>1, <2>2, <3>1, <1>3 DEF Beside, Sound, TasksOwned
  <2>3. QED BY <2>1, <2>2
<1>6. /\ user'[h].pc = "remove" /\ user'[h].slot = s /\ user'[h].result = tcb[s].v2
      /\ user'[h].left = user[h].left
      /\ \A g \in Handles : g # h => user'[g] = user[g]
  BY <1>2, <1>3, <1>4 DEF Users
<1>7. \A x \in Slots : /\ tcb'[x].task = tcb[x].task /\ tcb'[x].cores = tcb[x].cores
                       /\ tcb'[x].v2 = tcb[x].v2
                       /\ x # s => tcb'[x] = tcb[x]
  BY <1>3, <1>4 DEF TCBs
<1>8. SameTasks /\ tcb'[s].status = "EMPTY" BY <1>3, <1>4, <1>7 DEF SameTasks, TCBs
<1>9. user[h].pc \in Waiting /\ user'[h].pc \notin Waiting BY <1>1, <1>6 DEF Waiting
<1>10. user'[h].result # "CANCELED" BY <1>2, <1>6, <1>9 DEF Beside, Sound, Uncancelled
<1>11. Reports(h)' => Reports(h) BY <1>2, <1>6, <1>9 DEF Reports
<1>12. node'[s].ref = node[s].ref + One(user'[h].pc \in Holding) - One(user[h].pc \in Holding)
  <2>1. node[s].ref \in Int BY <1>4 DEF Nodes
  <2>2. QED BY <2>1, <1>1, <1>3, <1>6 DEF One, Holding
<1>13. /\ \A g \in Handles : user'[g].left = user[g].left /\ (g # h => user'[g] = user[g])
       /\ \A x \in Slots : x # s => tcb'[x] = tcb[x] /\ node'[x] = node[x]
       /\ \A x \in Slots : tcb'[x].v2 = tcb[x].v2
       /\ node'[s].handle = node[s].handle /\ node'[s].remove = node[s].remove
  BY <1>3, <1>6, <1>7
<1>14. QED
  BY <1>1, <1>2, <1>3, <1>5, <1>6, <1>8, <1>9, <1>10, <1>11, <1>12, <1>13, UserSound

(* A slot in which nothing is carried is held by no thread of the driver.  *)
LEMMA HeldByUser ==
  ASSUME Beside, NEW h \in Handles, NEW s \in Slots, node[s].handle = h, Alive(h), ~Carried(s)
  PROVE  Held(s) = One(UserHolds(s))
<1>1. ~DaemonHolds(s) BY DEF Carried, AtDaemon, DaemonHolds
<1>2. ~Handed(s) BY DEF Carried, CoreHas, Handed
<1>3. ~CoreHolds(s)
  <2> SUFFICES ASSUME NEW d \in Cores, core[d].slot = s,
                      core[d].pc \notin {"sleep", "get", "signal"}
               PROVE  FALSE
    BY DEF CoreHolds
  <2>1. core[d].pc \in CorePcs BY DEF Beside, Inv, TypeOK, CoreThreads
  <2>2. CoreHas(d, s)
    BY <2>1 DEF CoreHas, HandedTo, WorksOn, Beside, Sound, Base, Placed, CoreSlots
  <2>3. QED BY <2>2 DEF Carried
<1>4. ~ReleaseHolds(s)
  <2> SUFFICES ASSUME NEW g \in Handles, release[g].slot = s, release[g].pc \in HasTask
               PROVE  FALSE
    BY DEF ReleaseHolds
  <2>1. g = h BY DEF Beside, Sound, SlotsOwned
  <2>2. QED BY <2>1 DEF Alive, HasTask
<1>5. QED BY <1>1, <1>2, <1>3, <1>4 DEF Held, One

LEMMA WaitLeaveSound ==
  ASSUME Beside, NEW h \in Handles, WaitLeave(h)
  PROVE  Sound'
<1>1. user[h].pc = "leave" BY DEF WaitLeave
<1>2. PICK s \in Slots : s = user[h].slot BY <1>1, UserPlaces
<1>3. Used(s) /\ node[s].handle = h /\ node[s].remove /\ ~Carried(s) /\ Alive(h)
  BY <1>1, <1>2, UserPlaces DEF Waiting
<1>4. /\ Unuse(s, FALSE) /\ user' = [user EXCEPT ![h].pc = "out"]
      /\ UNCHANGED <<tcb, queue, submit_signal, tcb_index, run_signal, core, dispatch, daemon,
                     canceller, irq, jobs, finished>>
  BY <1>1, <1>2 DEF WaitLeave, UserGoes, Unuse, hwVars, history
<1>5. user \in [Handles -> Users] /\ node \in [Slots -> Nodes] BY DEF Beside, Inv, TypeOK
<1>6. /\ user'[h].pc = "out" /\ user'[h].slot = s
      /\ user'[h].result = user[h].result /\ user'[h].left = user[h].left
      /\ \A g \in Handles : g # h => user'[g] = user[g]
  BY <1>2, <1>4, <1>5 DEF Users
<1>7. node[s].ref = 1
  <2>1. UserHolds(s) BY <1>1, <1>2 DEF UserHolds, Holding
  <2>2. Held(s) = 1 BY <2>1, <1>3, HeldByUser DEF One
  <2>3. QED BY <2>2 DEF Beside, Sound, Counted
<1>8. node'[s].handle = NoHandle /\ node'[s].ref = 0
  BY <1>3, <1>4, <1>7, UnuseNodes DEF Beside, Inv
<1>9. \A x \in Slots : x # s => node'[x] = node[x] BY <1>4, <1>5 DEF Unuse
<1>10. node'[s].ref = node[s].ref + One(user'[h].pc \in Holding) - One(user[h].pc \in Holding)
  BY <1>1, <1>6, <1>7, <1>8 DEF One, Holding
<1>11. user'[h].pc \notin Waiting /\ user[h].pc \notin Waiting BY <1>1, <1>6 DEF Waiting
<1>12. user'[h].result # "CANCELED" BY <1>3, <1>6 DEF Beside, Sound, Uncancelled
<1>13. Reports(h)' => Reports(h) BY <1>1, <1>6, <1>11 DEF Reports
<1>14. SameTasks BY <1>4 DEF SameTasks
<1>15. /\ \A g \in Handles : user'[g].left = user[g].left /\ (g # h => user'[g] = user[g])
       /\ \A x \in Slots : x # s => tcb'[x] = tcb[x] /\ node'[x] = node[x]
       /\ \A x \in Slots : tcb'[x].v2 = tcb[x].v2
       /\ tcb'[s].status \in {tcb[s].status, "EMPTY"}
  BY <1>4, <1>6, <1>9
<1>16. QED
  BY <1>1, <1>2, <1>3, <1>4, <1>6, <1>8, <1>10, <1>11, <1>12, <1>13, <1>14, <1>15, UserSound

(* The task that is queued was carried nowhere, and its process goes on.   *)
LEMMA SubmitEnqueueSound ==
  ASSUME Beside, NEW h \in Handles, SubmitEnqueue(h)
  PROVE  Sound'
<1>1. user[h].pc = "enqueue" BY DEF SubmitEnqueue
<1>2. PICK s \in Slots : s = user[h].slot BY <1>1, UserPlaces
<1>3. /\ Used(s) /\ node[s].handle = h /\ ~node[s].remove /\ ~Carried(s)
      /\ Alive(h) /\ release[h].pc = "alive"
  BY <1>1, <1>2, UserPlaces DEF Waiting
<1>4. UNCHANGED <<node, submit_signal, tcb_index, run_signal, core, dispatch, daemon, canceller,
                  irq, jobs, release>>
  BY DEF SubmitEnqueue, hwVars, Beside
<1>5. PICK need \in CoresOf[h] :
        tcb' = [tcb EXCEPT ![s] = [status |-> "READY", v2 |-> "FAILURE",
                                   task |-> h, cores |-> need, wake |-> FALSE]]
  BY <1>2, <1>3 DEF SubmitEnqueue
<1>6. /\ queue' = [queue EXCEPT ![s] = @ + 1] /\ user' = [user EXCEPT ![h].pc = "unuse"]
      /\ finished' = [finished EXCEPT ![h] = FALSE]
  BY <1>2, <1>3 DEF SubmitEnqueue, UserGoes
<1>7. /\ user \in [Handles -> Users] /\ tcb \in [Slots -> TCBs] /\ queue \in [Slots -> Nat]
      /\ finished \in [Handles -> BOOLEAN]
  BY DEF Beside, Inv, TypeOK
<1>8. /\ user'[h].pc = "unuse" /\ user'[h].slot = s /\ user'[h].result = user[h].result
      /\ user'[h].left = user[h].left
      /\ \A g \in Handles : g # h => user'[g] = user[g] /\ finished'[g] = finished[g]
  BY <1>2, <1>6, <1>7 DEF Users
<1>9. /\ tcb'[s].status = "READY" /\ tcb'[s].v2 = "FAILURE" /\ tcb'[s].task = h
      /\ ~tcb'[s].wake
      /\ \A x \in Slots : x # s => tcb'[x] = tcb[x]
  BY <1>5, <1>7
<1>10. queue'[s] > 0 /\ \A x \in Slots : x # s => queue'[x] = queue[x]
  BY <1>6, <1>7
<1>11. \A x \in Slots, c \in Cores : /\ HandedTo(c, x)' <=> HandedTo(c, x)
                                     /\ WorksOn(c, x)' <=> WorksOn(c, x)
                                     /\ CoreHas(c, x)' <=> CoreHas(c, x)
                                     /\ Owns(c, x)' <=> Owns(c, x)
  BY <1>4 DEF HandedTo, WorksOn, CoreHas, Owns
<1>12. /\ InQueue(s)' /\ Carried(s)'
       /\ \A x \in Slots : /\ x # s => (InQueue(x)' <=> InQueue(x))
                           /\ x # s => (Carried(x)' <=> Carried(x))
                           /\ x # s => (Unstarted(x)' <=> Unstarted(x))
                           /\ Going(x)' <=> Going(x)
  BY <1>4, <1>10, <1>11 DEF InQueue, Carried, AtDaemon, Unstarted, Going
<1>13. ~Going(s)
  BY <1>3 DEF Going, Carried, AtDaemon, CoreHas, WorksOn
<1>14. \A x \in Slots : Carried(x) => x # s /\ tcb[x].task # h
  BY <1>1, <1>3 DEF Beside, Sound, Base, Owners
<1>15. \A c \in Cores : core[c].pc \in {"submit", "irq", "result", "end", "remove", "free", "unuse"} =>
         core[c].slot \in Slots /\ Carried(core[c].slot)
  BY DEF Beside, Inv, Pointers, Carried, CoreHas, WorksOn
<1>16. \A g \in Handles : user[g].pc # "out" /\ g # h => user[g].slot \in Slots /\ user[g].slot # s
  BY <1>1, <1>2 DEF Beside, Inv, Pointers, Sound, Base, Owners
<1>17. SlotsOwned'
  <2>1. \A g \in Handles : /\ user'[g].slot = user[g].slot
                           /\ user'[g].pc = "out" <=> user[g].pc = "out"
                           /\ user'[g].pc = "leave" <=> user[g].pc = "leave"
                           /\ user'[g].pc = "abandon" <=> user[g].pc = "abandon"
    BY <1>1, <1>2, <1>8
  <2>2. \A g : (Alive(g)' <=> Alive(g)) BY BesideTells
  <2>3. \A g \in Handles : Removed(g)' <=> Removed(g) BY <2>1, <1>4 DEF Removed
  <2>4. SlotsOwned BY DEF Beside, Sound
  <2>5. QED BY <2>1, <2>2, <2>3, <2>4, <1>4 DEF SlotsOwned
<1>18. TasksOwned'
  <2> SUFFICES ASSUME NEW x \in Slots, NEW t \in Handles, Carried(x)', tcb'[x].task = t
               PROVE  /\ node'[x].handle \in {NoHandle, t}
                      /\ Live(t)' => /\ node'[x].handle = t
                                     /\ Unstarted(x)' => tcb'[x].status = "READY"
                                     /\ ~Going(x)'
                      /\ ~Live(t)' => tcb'[x].status # "READY"
                      /\ Alive(t)' => /\ ~tcb'[x].wake /\ user'[t].slot = x
                                      /\ user'[t].pc \in Waiting
    BY DEF TasksOwned
  <2>1. (Live(t)' <=> Live(t)) /\ (Alive(t)' <=> Alive(t)) BY BesideTells
  <2>2. CASE x = s
    <3>1. t = h /\ Live(h) BY <2>2, <1>3, <1>9, BesideTells
    <3>2. user'[h].pc \in Waiting BY <1>8 DEF Waiting
    <3>3. QED BY <2>1, <2>2, <3>1, <3>2, <1>3, <1>4, <1>8, <1>9, <1>12, <1>13
  <2>3. CASE x # s
    <3>1. Carried(x) /\ tcb[x].task = t /\ t # h BY <2>3, <1>9, <1>12, <1>14
    <3>2. /\ node[x].handle \in {NoHandle, t}
          /\ Live(t) => /\ node[x].handle = t
                        /\ Unstarted(x) => tcb[x].status = "READY"
                        /\ ~Going(x)
          /\ ~Live(t) => tcb[x].status # "READY"
          /\ Alive(t) => ~tcb[x].wake /\ user[t].slot = x /\ user[t].pc \in Waiting
      BY <3>1 DEF Beside, Sound, TasksOwned
    <3>3. QED BY <2>1, <2>3, <3>1, <3>2, <1>4, <1>8, <1>9, <1>12
  <2>4. QED BY <2>2, <2>3
<1>19. StatusOf'
  <2>1. StatusOf BY DEF Beside, Sound
  <2>2. \A x \in Slots : tcb'[x].status = "READY" => Carried(x)'
    BY <2>1, <1>9, <1>12 DEF StatusOf
  <2>3. \A x \in Slots : Going(x)' => tcb'[x].status # "READY"
    BY <2>1, <1>9, <1>12, <1>13 DEF StatusOf
  <2>4. \A c \in Cores : core'[c].pc \in {"irq", "result", "end", "free", "unuse"} =>
          tcb'[core'[c].slot].status # "READY"
    BY <2>1, <1>4, <1>9, <1>14, <1>15 DEF StatusOf
  <2>5. ASSUME NEW g \in Handles, release'[g].pc \in {"cancel", "wait_idle"}
        PROVE  tcb'[release'[g].slot].status # "READY"
    <3>1. release[g].slot \in Slots /\ node[release[g].slot].handle = g /\ g # h
      BY <2>5, <1>3, <1>4 DEF Beside, ExitTypes, Sound, SlotsOwned, HasTask
    <3>2. QED BY <2>1, <2>5, <3>1, <1>3, <1>4, <1>9 DEF StatusOf
  <2>6. \A c \in Cores, t \in Handles :
          core'[c].pc = "irq" /\ tcb'[core'[c].slot].task = t /\ Live(t)' =>
            tcb'[core'[c].slot].status = "INFER_START"
    BY <2>1, <1>4, <1>9, <1>14, <1>15, BesideTells DEF StatusOf
  <2>7. QED BY <2>2, <2>3, <2>4, <2>5, <2>6 DEF StatusOf
<1>20. Uncancelled'
  <2>1. Uncancelled BY DEF Beside, Sound
  <2>2. \A g \in Handles : Alive(g)' => user'[g].result # "CANCELED"
    BY <2>1, <1>8, BesideTells DEF Uncancelled
  <2>3. ASSUME NEW g \in Handles, user'[g].pc \in Waiting
        PROVE  tcb'[user'[g].slot].v2 # "CANCELED"
    <3>1. CASE g = h BY <3>1, <1>8, <1>9
    <3>2. CASE g # h
      <4>1. user[g].pc \in Waiting /\ user[g].slot \in Slots /\ user[g].slot # s
        BY <3>2, <2>3, <1>8, <1>16 DEF Waiting
      <4>2. QED BY <3>2, <4>1, <2>1, <1>8, <1>9 DEF Uncancelled
    <3>3. QED BY <3>1, <3>2
  <2>4. QED BY <2>1, <2>2, <2>3, <1>4 DEF Uncancelled
<1>21. Counted'
  <2>1. \A x \in Slots : UserHolds(x)' <=> UserHolds(x)
    BY <1>1, <1>2, <1>8, UserMoves DEF Holding, Beside, Sound, Base
  <2>2. \A x \in Slots : /\ DaemonHolds(x)' <=> DaemonHolds(x)
                         /\ Handed(x)' <=> Handed(x)
                         /\ CoreHolds(x)' <=> CoreHolds(x)
                         /\ ReleaseHolds(x)' <=> ReleaseHolds(x)
    BY <1>4 DEF DaemonHolds, Handed, HandedTo, CoreHolds, ReleaseHolds
  <2>3. \A x \in Slots : Held(x)' = Held(x) BY <2>1, <2>2 DEF Held, One
  <2>4. QED BY <2>3, <1>4, CountedKept DEF Beside, Sound
<1>22. MarksOwned'
  <2> SUFFICES ASSUME NEW y \in Cores, dispatch[y]
               PROVE  \E c \in Cores, x \in Slots : Owns(c, x)' /\ y \in tcb'[x].cores
    BY <1>4 DEF MarksOwned
  <2>1. PICK c \in Cores, x \in Slots : Owns(c, x) /\ y \in tcb[x].cores
    BY DEF Beside, Sound, MarksOwned
  <2>2. x # s BY <2>1, <1>3 DEF Owns, Carried, CoreHas
  <2>3. Owns(c, x)' /\ y \in tcb'[x].cores BY <2>1, <2>2, <1>9, <1>11
  <2>4. QED BY <2>3
<1>23. JobsCarried' /\ JobsStopped'
  <2>1. \A d \in Cores : Running(d)' <=> Running(d) BY <1>4 DEF Running
  <2>2. ASSUME NEW d \in Cores, Running(d)
        PROVE  JobOf(d)' = JobOf(d) /\ tcb'[core'[d].slot].cores = tcb[core[d].slot].cores
    <3>1. core[d].slot \in Slots /\ Carried(core[d].slot) BY <2>2, <1>15 DEF Running
    <3>2. tcb[core[d].slot].task \in Handles BY <3>1 DEF Beside, Sound, Base, Owners
    <3>3. tcb'[core'[d].slot] = tcb[core[d].slot] BY <3>1, <1>4, <1>9, <1>14
    <3>4. user'[tcb[core[d].slot].task].left = user[tcb[core[d].slot].task].left
      BY <3>2, <1>8
    <3>5. QED BY <3>3, <3>4 DEF JobOf, Job
  <2>3. JobsCarried' BY <2>1, <2>2, <1>4 DEF Beside, Sound, JobsCarried
  <2>4. \A g : OnHardware(g)' <=> OnHardware(g) BY <1>4 DEF OnHardware
  <2>5. JobsStopped' BY <2>4, <1>4, BesideTells DEF Beside, Sound, JobsStopped
  <2>6. QED BY <2>3, <2>5
<1>24. DoneIfTrusted'
  <2>1. DoneIfTrusted BY DEF Beside, Sound
  <2>2. \A c \in Cores : irq'[c] => core'[c].pc = "irq" BY <2>1, <1>4 DEF DoneIfTrusted
  <2>3. ASSUME NEW c \in Cores, NEW t \in Handles,
               irq'[c] \/ (core'[c].pc = "result" /\ core'[c].status = "SUCCESS"),
               tcb'[core'[c].slot].task = t, Trusted(t)'
        PROVE  finished'[t]
    <3>1. core[c].pc \in {"irq", "result"} BY <2>2, <2>3, <1>4
    <3>2. core[c].slot \in Slots /\ core[c].slot # s /\ tcb[core[c].slot].task # h
      BY <3>1, <1>14, <1>15
    <3>3. tcb[core[c].slot].task = t /\ t # h BY <3>2, <2>3, <1>4, <1>9
    <3>4. QED BY <2>1, <2>3, <3>3, <1>4, <1>8, BesideTells DEF DoneIfTrusted
  <2>4. ASSUME NEW g \in Handles, Trusted(g)', Reports(g)' PROVE finished'[g]
    <3>1. CASE g = h BY <3>1, <2>4, <1>8, <1>9 DEF Reports
    <3>2. CASE g # h
      <4>1. user'[g] = user[g] /\ finished'[g] = finished[g] BY <3>2, <1>8
      <4>2. user[g].pc \in Waiting => tcb'[user[g].slot] = tcb[user[g].slot]
        BY <3>2, <1>9, <1>16 DEF Waiting
      <4>3. Reports(g) BY <2>4, <4>1, <4>2 DEF Reports
      <4>4. QED BY <2>1, <2>4, <4>1, <4>3, BesideTells DEF DoneIfTrusted
    <3>3. QED BY <3>1, <3>2
  <2>5. QED BY <2>2, <2>3, <2>4 DEF DoneIfTrusted
<1>25. Wakes'
  <2>1. Wakes BY DEF Beside, Sound
  <2>2. Pend' BY <1>8 DEF Pend
  <2>3. ASSUME NEW g \in Handles, NEW x \in Slots, user'[g].pc \in Waiting, user'[g].slot = x
        PROVE  Carried(x)' \/ tcb'[x].wake
    <3>1. CASE g = h BY <3>1, <2>3, <1>8, <1>12
    <3>2. CASE g # h
      <4>1. user[g].pc \in Waiting /\ user[g].slot = x /\ x # s
        BY <3>2, <2>3, <1>8, <1>16 DEF Waiting
      <4>2. QED BY <4>1, <2>1, <1>9, <1>12 DEF Wakes
    <3>3. QED BY <3>1, <3>2
  <2>4. \A c \in Cores, t \in Handles :
          core'[c].pc \in {"free", "unuse"} /\ tcb'[core'[c].slot].task = t /\ Alive(t)' => core'[c].wake
    BY <2>1, <1>4, <1>9, <1>14, <1>15, BesideTells DEF Wakes
  <2>5. QED BY <2>2, <2>3, <2>4 DEF Wakes
<1>26. QED
  BY <1>17, <1>18, <1>19, <1>20, <1>21, <1>22, <1>23, <1>24, <1>25 DEF Sound, Beside

-----------------------------------------------------------------------------
(* A submission begins with an idle slot.  It is one that nobody carries,  *)
(* unless the submission meets the entry of a destroyed task.              *)
LEMMA SubmitInsertSound ==
  ASSUME Inv, Inv', ExitTypes, Sound, NEW h \in Handles, SubmitInsert(h), Alive(h),
         ~TakesLeftover(h), UNCHANGED <<release, overran, cancel_found>>,
         raced' = raced \cup {g \in Handles : release[g].pc = "clear" /\ Started(g)}
  PROVE  Sound'
<1>1. /\ user[h].pc = "out" /\ \A x \in Slots : node[x].handle # h
      /\ Placed /\ Flags /\ Owners
  BY DEF SubmitInsert, Sound, SlotsOwned, Base
<1>2. PICK s \in Idle :
        /\ node' = [node EXCEPT ![s].handle = h, ![s].remove = FALSE]
        /\ user' = [user EXCEPT ![h].left = @ - 1, ![h].pc = "get", ![h].slot = s]
  BY <1>1 DEF SubmitInsert, SlotsOf, Idle
<1>3. s \in Slots /\ node[s].handle = NoHandle BY DEF Idle
<1>4. UNCHANGED <<tcb, queue, submit_signal, tcb_index, run_signal, core, dispatch, daemon,
                  canceller, irq, jobs, finished>>
  BY DEF SubmitInsert, hwVars, history
<1>5. user \in [Handles -> Users] /\ node \in [Slots -> Nodes] BY DEF Inv, TypeOK
<1>6. /\ user'[h].pc = "get" /\ user'[h].slot = s /\ user'[h].result = user[h].result
      /\ \A g \in Handles : g # h => user'[g] = user[g]
  BY <1>2, <1>5 DEF Users
<1>7. /\ node'[s].handle = h /\ ~node'[s].remove /\ node'[s].ref = node[s].ref
      /\ \A x \in Slots : x # s => node'[x] = node[x]
  BY <1>2, <1>3, <1>5 DEF Nodes
<1>8. ~Carried(s)
  <2>1. ~InQueue(s) /\ ~(daemon.pc = "get" /\ daemon.slot = s)
    BY <1>1, <1>6 DEF TakesLeftover, InQueue
  <2>2. ~DaemonHolds(s) /\ ~Handed(s) /\ ~CoreHolds(s)
    <3>1. node[s].ref = 0 BY <1>3 DEF Sound, Counted, Used
    <3>2. Held(s) = 0 BY <3>1, <1>3 DEF Sound, Counted
    <3>3. QED BY <3>2, HeldIs
  <2>3. ~AtDaemon(s) BY <2>1, <2>2 DEF AtDaemon, DaemonHolds
  <2>4. \A c \in Cores : ~CoreHas(c, s) BY <2>2 DEF CoreHas, WorksOn, Handed, CoreHolds
  <2>5. QED BY <2>1, <2>3, <2>4 DEF Carried
<1>9. ASSUME NEW x \in Slots, Carried(x)
      PROVE  x # s /\ tcb[x].task \in Handles /\ tcb[x].task # h
  <2>1. tcb[x].task \in Handles BY <1>1, <1>9 DEF Owners
  <2>2. tcb[x].task # h BY <1>1, <1>9 DEF Sound, TasksOwned, Waiting
  <2>3. QED BY <2>1, <2>2, <1>8, <1>9
<1>10. SameTasks BY <1>4 DEF SameTasks
<1>11. Placed' /\ Flags' /\ \A x \in Slots : Carried(x)' <=> Carried(x)
  BY <1>1, <1>4, <1>10, PlacesUntouched
<1>12. NoHandle \notin Handles BY DispatchAssumption DEF DispatchAssumption
<1>13. ASSUME NEW g \in Handles, g # h, user[g].pc # "out"
       PROVE  user[g].slot \in Slots /\ user[g].slot # s /\ node[user[g].slot].handle = g
  BY <1>3, <1>12, <1>13 DEF Inv, Pointers, Sound, SlotsOwned
<1>14. Owners'
  <2>1. \A g, k \in Handles :
          user'[g].pc # "out" /\ user'[k].pc # "out" /\ g # k => user'[g].slot # user'[k].slot
    BY <1>1, <1>6, <1>13 DEF Owners
  <2>2. ASSUME NEW g \in Handles, user'[g].pc # "out", NEW x \in Slots, node'[x].handle = g
        PROVE  x = user'[g].slot
    <3>1. CASE g = h BY <3>1, <2>2, <1>1, <1>6, <1>7
    <3>2. CASE g # h BY <3>2, <2>2, <1>1, <1>6, <1>7 DEF Owners
    <3>3. QED BY <3>1, <3>2
  <2>3. \A g \in Handles : user'[g].pc \in {"get", "enqueue"} =>
          \A x \in Slots : Carried(x)' => x # user'[g].slot /\ tcb'[x].task # g
    BY <1>1, <1>4, <1>6, <1>9, <1>11 DEF Owners
  <2>4. \A g \in Handles :
          user'[g].pc \in Waiting \cup {"remove", "leave"} => tcb'[user'[g].slot].task = g
    BY <1>1, <1>4, <1>6 DEF Owners, Waiting
  <2>5. /\ \A x \in Slots : Carried(x)' => tcb'[x].task \in Handles
        /\ \A x, y \in Slots : Carried(x)' /\ Carried(y)' /\ x # y => tcb'[x].task # tcb'[y].task
    BY <1>1, <1>4, <1>11 DEF Owners
  <2>6. QED BY <2>1, <2>2, <2>3, <2>4, <2>5 DEF Owners
<1>15. Beside BY <1>11, <1>14 DEF Beside, Base
<1>16. SlotsOwned'
  <2>1. \A g \in Handles : canceller'[g].pc = "out" BY <1>4 DEF Sound, SlotsOwned
  <2>2. \A g \in Handles : Alive(g)' /\ user'[g].pc = "out" => \A x \in Slots : node'[x].handle # g
    BY <1>6, <1>7, <1>15, BesideTells DEF Sound, SlotsOwned
  <2>3. ASSUME NEW g \in Handles, user'[g].pc # "out"
        PROVE  user'[g].pc # "abandon" /\ node'[user'[g].slot].handle = g
    <3>1. CASE g = h BY <3>1, <1>6, <1>7
    <3>2. CASE g # h BY <3>2, <2>3, <1>6, <1>7, <1>13 DEF Sound, SlotsOwned
    <3>3. QED BY <3>1, <3>2
  <2>4. ASSUME NEW g \in Handles, release'[g].pc \in HasTask
        PROVE  node'[release'[g].slot].handle = g
    <3>1. release[g].slot \in Slots /\ node[release[g].slot].handle = g
      BY <2>4 DEF ExitTypes, Sound, SlotsOwned, HasTask
    <3>2. release[g].slot # s BY <3>1, <1>3, <1>12
    <3>3. QED BY <3>1, <3>2, <1>7
  <2>5. \A x, y \in Slots : node'[x].handle = node'[y].handle => x = y \/ node'[x].handle = NoHandle
    BY <1>1, <1>7 DEF Sound, SlotsOwned
  <2>6. ASSUME NEW x \in Slots, NEW g \in Handles, node'[x].handle = g
        PROVE  /\ Removed(g)' => node'[x].remove
               /\ node'[x].remove => Removed(g)' \/ release'[g].pc = "remove"
    <3>1. CASE x = s
      <4>1. g = h BY <3>1, <2>6, <1>7
      <4>2. ~Removed(h)' BY <1>6 DEF Removed, Alive, Cleared
      <4>3. QED BY <3>1, <4>1, <4>2, <1>7
    <3>2. CASE x # s
      <4>1. node'[x] = node[x] /\ g # h BY <3>2, <2>6, <1>1, <1>7
      <4>2. Removed(g)' <=> Removed(g) BY <4>1, <1>6 DEF Removed
      <4>3. QED BY <4>1, <4>2, <2>6 DEF Sound, SlotsOwned
    <3>3. QED BY <3>1, <3>2
  <2>7. QED BY <2>1, <2>2, <2>3, <2>4, <2>5, <2>6 DEF SlotsOwned
<1>17. /\ \A x \in Slots, d \in Cores : Owns(d, x)' <=> Owns(d, x)
       /\ \A x \in Slots : /\ Unstarted(x)' <=> Unstarted(x)
                           /\ Going(x)' <=> Going(x)
                           /\ InQueue(x)' <=> InQueue(x)
  BY <1>4 DEF Owns, HandedTo, WorksOn, Unstarted, Going, InQueue, AtDaemon
<1>18. TasksOwned'
  <2> SUFFICES ASSUME NEW x \in Slots, NEW t \in Handles, Carried(x)', tcb'[x].task = t
               PROVE  /\ node'[x].handle \in {NoHandle, t}
                      /\ Live(t)' => /\ node'[x].handle = t
                                     /\ Unstarted(x)' => tcb'[x].status = "READY"
                                     /\ ~Going(x)'
                      /\ ~Live(t)' => tcb'[x].status # "READY"
                      /\ Alive(t)' => /\ ~tcb'[x].wake /\ user'[t].slot = x
                                      /\ user'[t].pc \in Waiting
    BY DEF TasksOwned
  <2>1. (Live(t)' <=> Live(t)) /\ (Alive(t)' <=> Alive(t)) BY <1>15, BesideTells
  <2>2. Carried(x) /\ tcb[x].task = t /\ t # h /\ x # s BY <1>4, <1>9, <1>11
  <2>3. /\ node[x].handle \in {NoHandle, t}
        /\ Live(t) => /\ node[x].handle = t
                      /\ Unstarted(x) => tcb[x].status = "READY"
                      /\ ~Going(x)
        /\ ~Live(t) => tcb[x].status # "READY"
        /\ Alive(t) => ~tcb[x].wake /\ user[t].slot = x /\ user[t].pc \in Waiting
    BY <2>2 DEF Sound, TasksOwned
  <2>4. QED BY <2>1, <2>2, <2>3, <1>4, <1>6, <1>7, <1>17
<1>19. StatusOf' BY <1>4, <1>11, <1>15, <1>17, BesideTells DEF Sound, StatusOf
<1>20. Uncancelled'
  BY <1>4, <1>6, <1>15, BesideTells DEF Sound, Uncancelled, Waiting
<1>21. Counted'
  <2>1. \A x \in Slots : UserHolds(x)' <=> UserHolds(x)
    BY <1>1, <1>6 DEF UserHolds, Holding
  <2>2. \A x \in Slots : /\ DaemonHolds(x)' <=> DaemonHolds(x)
                         /\ Handed(x)' <=> Handed(x)
                         /\ CoreHolds(x)' <=> CoreHolds(x)
                         /\ ReleaseHolds(x)' <=> ReleaseHolds(x)
    BY <1>4 DEF DaemonHolds, Handed, HandedTo, CoreHolds, ReleaseHolds
  <2>3. \A x \in Slots : Held(x)' = Held(x) BY <2>1, <2>2 DEF Held, One
  <2>4. Counted BY DEF Sound
  <2>5. Used(s)' BY <1>3, <1>7, <1>12 DEF Used
  <2>6. \A x \in Slots : /\ node'[x].ref = Held(x)'
                         /\ node'[x].ref # 0 => Used(x)'
                         /\ Used(x)' /\ node'[x].remove => node'[x].ref # 0
    BY <2>3, <2>4, <2>5, <1>7 DEF Counted, Used
  <2>7. QED BY <2>6 DEF Counted
<1>22. MarksOwned' BY <1>4, <1>10, <1>17, MarksStay DEF Sound
<1>23. \A c \in Cores : core[c].pc \in {"irq", "result", "free", "unuse"} =>
         core[c].slot \in Slots /\ Carried(core[c].slot)
  BY DEF Inv, Pointers, Carried, CoreHas, WorksOn
<1>24. JobsCarried' /\ JobsStopped'
  <2>1. \A d \in Cores : Running(d)' <=> Running(d) BY <1>4 DEF Running
  <2>2. ASSUME NEW d \in Cores, Running(d) PROVE JobOf(d)' = JobOf(d)
    <3>1. tcb[core[d].slot].task \in Handles /\ tcb[core[d].slot].task # h
      BY <2>2, <1>9, <1>23 DEF Running
    <3>2. QED BY <3>1, <1>4, <1>6 DEF JobOf, Job
  <2>3. JobsCarried' BY <2>1, <2>2, <1>4 DEF Sound, JobsCarried
  <2>4. \A g : OnHardware(g)' <=> OnHardware(g) BY <1>4 DEF OnHardware
  <2>5. JobsStopped' BY <2>4, <1>15, BesideTells DEF Sound, JobsStopped
  <2>6. QED BY <2>3, <2>5
<1>25. DoneIfTrusted'
  <2>1. DoneIfTrusted BY DEF Sound
  <2>2. \A c \in Cores : irq'[c] => core'[c].pc = "irq" BY <2>1, <1>4 DEF DoneIfTrusted
  <2>3. \A c \in Cores, t \in Handles :
          (irq'[c] \/ (core'[c].pc = "result" /\ core'[c].status = "SUCCESS"))
            /\ tcb'[core'[c].slot].task = t /\ Trusted(t)' => finished'[t]
    BY <2>1, <1>4, <1>15, BesideTells DEF DoneIfTrusted
  <2>4. \A g \in Handles : Trusted(g)' /\ Reports(g)' => finished'[g]
    <3>1. \A g \in Handles : Reports(g)' => Reports(g)
      BY <1>4, <1>6 DEF Reports, Waiting
    <3>2. QED BY <3>1, <2>1, <1>4, <1>15, BesideTells DEF DoneIfTrusted
  <2>5. QED BY <2>2, <2>3, <2>4 DEF DoneIfTrusted
<1>26. Wakes'
  <2>1. Wakes BY DEF Sound
  <2>2. Pend => Pend' BY <1>1, <1>4, <1>6 DEF Pend
  <2>3. (\E x \in Slots : InQueue(x)') <=> (\E x \in Slots : InQueue(x)) BY <1>17
  <2>4. \A g \in Handles, x \in Slots :
          user'[g].pc \in Waiting /\ user'[g].slot = x => Carried(x)' \/ tcb'[x].wake
    BY <2>1, <1>4, <1>6, <1>11 DEF Wakes, Waiting
  <2>5. \A c \in Cores, t \in Handles :
          core'[c].pc \in {"free", "unuse"} /\ tcb'[core'[c].slot].task = t /\ Alive(t)' => core'[c].wake
    BY <2>1, <1>4, <1>15, BesideTells DEF Wakes
  <2>6. QED BY <2>1, <2>2, <2>3, <2>4, <2>5, <1>4 DEF Wakes
<1>27. QED
  BY <1>15, <1>16, <1>18, <1>19, <1>20, <1>21, <1>22, <1>24, <1>25, <1>26 DEF Sound, Beside

-----------------------------------------------------------------------------
(* All steps of the dispatch, while the threads run.                       *)
LEMMA GoesOnSound ==
  ASSUME Beside, GoesOn, TimesOutOnlyStopped
  PROVE  Sound'
<1>1. CASE \E h \in Handles : Submit(h)
  BY <1>1, SubmitGetSound, SubmitEnqueueSound, SubmitUnuseSound, UserOnlySound DEF Submit
<1>2. CASE \E h \in Handles : Wait(h)
  BY <1>2, UserOnlySound, WaitRefSound, WaitWokenSound, WaitRemoveSound, WaitLeaveSound DEF Wait
<1>3. CASE Daemon
  BY <1>3, DaemonWakesSound, DaemonReadSound, DaemonGetSound, DaemonCheckSound,
     DaemonDropsSound, DaemonDispatchSound
     DEF Daemon
<1>4. CASE \E c \in Cores : CoreThread(c)
  <2>1. PICK c \in Cores : CoreThread(c) BY <1>4
  <2>2. CASE CoreTimeOut(c)
    <3>1. core \in [Cores -> CoreThreads] BY DEF Beside, Inv, TypeOK
    <3>2. core[c].pc = "irq" /\ core'[c].status = "TIMEOUT"
      BY <2>2, <3>1 DEF CoreTimeOut, CoreThreads
    <3>3. ~OnHardware(tcb[core[c].slot].task) BY <3>2 DEF TimesOutOnlyStopped
    <3>4. QED BY <2>2, <3>3, CoreIrqSound
  <2>3. CASE CoreAwake(c) \/ CoreSignal(c) BY <2>3, CoreIdleSound
  <2>4. CASE CoreSkip(c) \/ CoreRemove(c) BY <2>4, CoreDropsSound
  <2>5. QED
    BY <2>1, <2>2, <2>3, <2>4, CoreGetSound, CoreInheritSound, CoreSubmitSound, CoreIrqSound,
       CoreResultSound, CoreEndSound, CoreFreeSound, CoreUnuseSound
       DEF CoreThread
<1>5. CASE \E h \in Handles : HardwareDone(h) BY <1>5, HardwareDoneSound
<1>6. QED BY <1>1, <1>2, <1>3, <1>4, <1>5 DEF GoesOn

LEMMA MeanwhileSound ==
  ASSUME Inv, Inv', ExitTypes, Sound, Meanwhile(Next), Orderly'
  PROVE  Sound'
<1>1. /\ Next /\ ProcessesAlive /\ TimesOutOnlyStopped
      /\ UNCHANGED <<release, overran>>
      /\ raced' = raced \cup {h \in Handles : release[h].pc = "clear" /\ Started(h)}
      /\ \A h \in Handles : ~TakesLeftover(h)
      /\ cancel_found' = {}
  BY DEF Meanwhile, lifecycle, Orderly
<1>2. CASE \E h \in Handles : SubmitInsert(h)
  <2>1. PICK h \in Handles : SubmitInsert(h) BY <1>2
  <2>2. UNCHANGED cancel_found BY <2>1 DEF SubmitInsert, history
  <2>3. Alive(h)
    <3>1. user \in [Handles -> Users] BY DEF Inv, TypeOK
    <3>2. user'[h].left = user[h].left - 1 /\ user[h].left \in Nat
      BY <2>1, <3>1 DEF SubmitInsert, Users
    <3>3. user'[h] # user[h] BY <3>2
    <3>4. QED BY <3>3, <1>1 DEF ProcessesAlive
  <2>4. QED BY <1>1, <2>1, <2>2, <2>3, SubmitInsertSound
<1>3. CASE GoesOn
  <2>1. UNCHANGED cancel_found BY <1>3, GoesOnFinds
  <2>2. Base' BY <1>3, GoesOnKept DEF Sound, Kept
  <2>3. Beside BY <1>1, <2>1, <2>2 DEF Beside
  <2>4. QED BY <1>1, <1>3, <2>3, GoesOnSound
<1>4. ASSUME NEW h \in Handles, CancelFind(h) \/ Cancel(h) PROVE FALSE
  <2>1. canceller[h].pc = "out" BY DEF Sound, SlotsOwned
  <2>2. ~CancelFind(h) BY <1>1 DEF CancelFind
  <2>3. ~Cancel(h)
    BY <2>1 DEF Cancel, CancelRef, CancelReady, CancelClean, CancelRunning, CancelWaited,
                CancelHardware, CancelAwait, CancelWoken, CancelOther, CancelRemove, CancelUnuse
  <2>4. QED BY <1>4, <2>2, <2>3
<1>5. QED BY <1>1, <1>2, <1>3, <1>4 DEF Next, GoesOn

-----------------------------------------------------------------------------
(* The steps of the clean-up touch the slot of their own process alone.    *)
Ends(h) ==
  /\ Inv /\ Inv' /\ ExitTypes /\ Sound /\ ~Alive(h)'
  /\ \A g \in Handles : g # h => release'[g] = release[g] /\ user'[g] = user[g]
  /\ user[h].pc \in {"out", "find"} /\ user'[h].pc = "out" /\ user'[h].left = user[h].left
  /\ UNCHANGED <<queue, submit_signal, daemon, dispatch, tcb_index, run_signal, core, canceller,
                 finished>>
  /\ SameTasks /\ HandlesFall
  /\ \A s \in Slots : node[s].handle # h => node'[s] = node[s] /\ tcb'[s] = tcb[s]
  /\ \A s \in Slots : tcb'[s].status = "READY" => tcb[s].status = "READY"
  /\ Live(h)' => Live(h)
  /\ \A g : g \in raced => g \in raced'
  /\ \A g : g \in overran => g \in overran'

LEMMA EndsTells ==
  ASSUME NEW h \in Handles, Ends(h)
  PROVE  /\ Base' /\ NoHandle \notin Handles
         /\ \A g \in Handles : g # h => /\ Alive(g)' <=> Alive(g)
                                        /\ Live(g)' <=> Live(g)
                                        /\ Removed(g)' <=> Removed(g)
         /\ \A g : Alive(g)' /\ g \in Handles => g # h /\ Alive(g)
         /\ \A g : Trusted(g)' => Trusted(g) /\ g # h
         /\ \A s \in Slots, d \in Cores : Owns(d, s)' <=> Owns(d, s)
         /\ \A s \in Slots : /\ Carried(s)' <=> Carried(s)
                             /\ Unstarted(s)' <=> Unstarted(s)
                             /\ Going(s)' <=> Going(s)
                             /\ InQueue(s)' <=> InQueue(s)
         /\ \A g \in Handles : user[g].pc # "out" /\ g # h =>
              /\ user[g].slot \in Slots /\ tcb'[user[g].slot] = tcb[user[g].slot]
         /\ \A c \in Cores :
              core[c].pc \in {"submit", "irq", "result", "end", "remove", "free", "unuse"} =>
                core[c].slot \in Slots /\ Carried(core[c].slot)
<1>1. UsersGoOn
  <2>1. \A g \in Handles : user'[g].pc # "out" => user'[g] = user[g] BY DEF Ends
  <2>2. QED BY <2>1 DEF UsersGoOn, Waiting
<1>2. Placed' /\ Flags' /\ \A s \in Slots : Carried(s)' <=> Carried(s)
  BY PlacesUntouched DEF Ends, Sound, Base
<1>3. Owners' BY <1>1, <1>2, OwnersKept DEF Ends, Sound, Base
<1>4. \A g \in Handles : g # h => /\ Alive(g)' <=> Alive(g)
                                  /\ Live(g)' <=> Live(g)
                                  /\ Removed(g)' <=> Removed(g)
  BY DEF Ends, Alive, Live, Removed
<1>5. \A g : Alive(g)' /\ g \in Handles => g # h /\ Alive(g) BY <1>4 DEF Ends
<1>6. \A g : Trusted(g)' => Trusted(g) /\ g # h BY <1>5 DEF Trusted, Ends
<1>7. /\ \A s \in Slots, d \in Cores : Owns(d, s)' <=> Owns(d, s)
      /\ \A s \in Slots : /\ Unstarted(s)' <=> Unstarted(s)
                          /\ Going(s)' <=> Going(s)
                          /\ InQueue(s)' <=> InQueue(s)
  BY DEF Ends, Owns, HandedTo, WorksOn, Unstarted, Going, InQueue, AtDaemon
<1>8. \A g \in Handles : user[g].pc # "out" /\ g # h =>
        user[g].slot \in Slots /\ tcb'[user[g].slot] = tcb[user[g].slot]
  BY DEF Ends, Inv, Pointers, Sound, SlotsOwned
<1>9. \A c \in Cores :
        core[c].pc \in {"submit", "irq", "result", "end", "remove", "free", "unuse"} =>
          core[c].slot \in Slots /\ Carried(core[c].slot)
  BY DEF Ends, Inv, Pointers, Carried, CoreHas, WorksOn
<1>10. QED
  BY <1>2, <1>3, <1>4, <1>5, <1>6, <1>7, <1>8, <1>9, DispatchAssumption
     DEF Base, DispatchAssumption

LEMMA EndsSound ==
  ASSUME NEW h \in Handles, Ends(h),
         release'[h].pc \in HasTask => node'[release'[h].slot].handle = h,
         \A s \in Slots : node'[s].handle = h =>
           /\ Removed(h)' => node'[s].remove
           /\ node'[s].remove => Removed(h)' \/ release'[h].pc = "remove",
         Live(h)' => \A s \in Slots : node'[s].handle = node[s].handle /\ tcb'[s] = tcb[s],
         ~Live(h)' => \A s \in Slots : Carried(s) /\ tcb[s].task = h => tcb'[s].status # "READY",
         release'[h].pc \in {"cancel", "wait_idle"} => tcb'[release'[h].slot].status # "READY",
         Counted', JobsCarried', DoneIfTrusted', JobsStopped'
  PROVE  Sound'
<1>1. SlotsOwned'
  <2>1. \A g \in Handles : canceller'[g].pc = "out" BY DEF Ends, Sound, SlotsOwned
  <2>2. \A s \in Slots : node'[s].handle \in {node[s].handle, NoHandle} BY DEF Ends, HandlesFall
  <2>3. ASSUME NEW g \in Handles, Alive(g)', user'[g].pc = "out", NEW s \in Slots
        PROVE  node'[s].handle # g
    <3>1. g # h /\ Alive(g) /\ user[g].pc = "out" BY <2>3, EndsTells DEF Ends
    <3>2. node[s].handle # g BY <3>1 DEF Ends, Sound, SlotsOwned
    <3>3. QED BY <2>2, <3>2, EndsTells
  <2>4. ASSUME NEW g \in Handles, user'[g].pc # "out"
        PROVE  user'[g].pc # "abandon" /\ node'[user'[g].slot].handle = g
    <3>1. g # h /\ user'[g] = user[g] BY <2>4 DEF Ends
    <3>2. user[g].slot \in Slots /\ node[user[g].slot].handle = g /\ user[g].pc # "abandon"
      BY <2>4, <3>1, EndsTells DEF Ends, Sound, SlotsOwned
    <3>3. QED BY <3>1, <3>2 DEF Ends
  <2>5. ASSUME NEW g \in Handles, release'[g].pc \in HasTask
        PROVE  node'[release'[g].slot].handle = g
    <3>1. CASE g = h BY <2>5, <3>1
    <3>2. CASE g # h
      <4>1. release'[g] = release[g] BY <3>2 DEF Ends
      <4>2. release[g].slot \in Slots /\ node[release[g].slot].handle = g
        BY <2>5, <4>1 DEF Ends, ExitTypes, Sound, SlotsOwned
      <4>3. QED BY <3>2, <4>1, <4>2 DEF Ends
    <3>3. QED BY <3>1, <3>2
  <2>6. \A s, t \in Slots : node'[s].handle = node'[t].handle => s = t \/ node'[s].handle = NoHandle
    BY <2>2 DEF Ends, Sound, SlotsOwned
  <2>7. ASSUME NEW s \in Slots, NEW g \in Handles, node'[s].handle = g
        PROVE  /\ Removed(g)' => node'[s].remove
               /\ node'[s].remove => Removed(g)' \/ release'[g].pc = "remove"
    <3>1. CASE g = h BY <2>7, <3>1
    <3>2. CASE g # h
      <4>1. node[s].handle = g BY <2>2, <2>7, EndsTells
      <4>2. node'[s] = node[s] /\ release'[g] = release[g] BY <3>2, <4>1 DEF Ends
      <4>3. QED BY <3>2, <4>1, <4>2, EndsTells DEF Ends, Sound, SlotsOwned
    <3>3. QED BY <3>1, <3>2
  <2>8. QED BY <2>1, <2>3, <2>4, <2>5, <2>6, <2>7 DEF SlotsOwned
<1>2. TasksOwned'
  <2> SUFFICES ASSUME NEW s \in Slots, NEW t \in Handles, Carried(s)', tcb'[s].task = t
               PROVE  /\ node'[s].handle \in {NoHandle, t}
                      /\ Live(t)' => /\ node'[s].handle = t
                                     /\ Unstarted(s)' => tcb'[s].status = "READY"
                                     /\ ~Going(s)'
                      /\ ~Live(t)' => tcb'[s].status # "READY"
                      /\ Alive(t)' => /\ ~tcb'[s].wake /\ user'[t].slot = s
                                      /\ user'[t].pc \in Waiting
    BY DEF TasksOwned
  <2>1. Carried(s) /\ tcb[s].task = t BY EndsTells DEF Ends, SameTasks
  <2>2. /\ node[s].handle \in {NoHandle, t}
        /\ Live(t) => /\ node[s].handle = t
                      /\ Unstarted(s) => tcb[s].status = "READY"
                      /\ ~Going(s)
        /\ ~Live(t) => tcb[s].status # "READY"
        /\ Alive(t) => ~tcb[s].wake /\ user[t].slot = s /\ user[t].pc \in Waiting
    BY <2>1 DEF Ends, Sound, TasksOwned
  <2>3. (Unstarted(s)' <=> Unstarted(s)) /\ (Going(s)' <=> Going(s)) BY EndsTells
  <2>4. CASE t = h
    <3>1. node'[s].handle \in {NoHandle, t} BY <2>2 DEF Ends, HandlesFall
    <3>2. Live(h)' => Live(h) BY DEF Ends
    <3>3. ~Alive(h)' BY DEF Ends
    <3>4. QED BY <2>1, <2>2, <2>3, <2>4, <3>1, <3>2, <3>3
  <2>5. CASE t # h
    <3>1. /\ node'[s] = node[s] /\ tcb'[s] = tcb[s] /\ user'[t] = user[t]
          /\ Alive(t)' <=> Alive(t)
          /\ Live(t)' <=> Live(t)
      BY <2>2, <2>5, EndsTells DEF Ends
    <3>2. QED BY <2>2, <2>3, <3>1
  <2>6. QED BY <2>4, <2>5
<1>3. StatusOf'
  <2>1. StatusOf BY DEF Ends, Sound
  <2>2. \A s \in Slots : tcb'[s].status = "READY" => tcb[s].status = "READY" BY DEF Ends
  <2>3. \A s \in Slots : /\ tcb'[s].status = "READY" => Carried(s)'
                         /\ Going(s)' => tcb'[s].status # "READY"
    BY <2>1, <2>2, EndsTells DEF StatusOf
  <2>4. \A c \in Cores : core'[c].pc \in {"irq", "result", "end", "free", "unuse"} =>
          tcb'[core'[c].slot].status # "READY"
    BY <2>1, <2>2, EndsTells DEF StatusOf, Ends
  <2>5. ASSUME NEW g \in Handles, release'[g].pc \in {"cancel", "wait_idle"}
        PROVE  tcb'[release'[g].slot].status # "READY"
    <3>1. CASE g = h BY <2>5, <3>1
    <3>2. CASE g # h
      <4>1. release'[g] = release[g] BY <3>2 DEF Ends
      <4>2. release[g].slot \in Slots BY <2>5, <4>1 DEF Ends, ExitTypes, HasTask
      <4>3. QED BY <2>1, <2>2, <2>5, <4>1, <4>2 DEF StatusOf
    <3>3. QED BY <3>1, <3>2
  <2>6. ASSUME NEW c \in Cores, NEW t \in Handles,
               core'[c].pc = "irq", tcb'[core'[c].slot].task = t, Live(t)'
        PROVE  tcb'[core'[c].slot].status = "INFER_START"
    <3>1. core'[c] = core[c] /\ core[c].slot \in Slots /\ Carried(core[c].slot)
      BY <2>6, EndsTells DEF Ends
    <3>2. tcb[core[c].slot].task = t /\ Live(t)
      BY <2>6, <3>1, EndsTells DEF Ends, SameTasks
    <3>3. tcb[core[c].slot].status = "INFER_START" BY <2>1, <2>6, <3>1, <3>2 DEF StatusOf
    <3>4. tcb'[core[c].slot] = tcb[core[c].slot]
      <4>1. CASE t = h BY <4>1, <2>6, <3>1
      <4>2. CASE t # h
        <5>1. node[core[c].slot].handle = t BY <3>1, <3>2 DEF Ends, Sound, TasksOwned
        <5>2. QED BY <4>2, <5>1, <3>1 DEF Ends
      <4>3. QED BY <4>1, <4>2
    <3>5. QED BY <3>1, <3>3, <3>4
  <2>7. QED BY <2>3, <2>4, <2>5, <2>6 DEF StatusOf
<1>4. Uncancelled'
  <2>1. Uncancelled BY DEF Ends, Sound
  <2>2. \A g \in Handles : Alive(g)' => user'[g].result # "CANCELED"
    BY <2>1, EndsTells DEF Uncancelled, Ends
  <2>3. ASSUME NEW g \in Handles, user'[g].pc \in Waiting PROVE tcb'[user'[g].slot].v2 # "CANCELED"
    <3>1. user'[g].pc # "out" BY <2>3 DEF Waiting
    <3>2. g # h /\ user'[g] = user[g] /\ tcb'[user[g].slot] = tcb[user[g].slot]
      BY <3>1, EndsTells DEF Ends
    <3>3. QED BY <2>1, <2>3, <3>2 DEF Uncancelled
  <2>4. QED BY <2>1, <2>2, <2>3 DEF Uncancelled, Ends
<1>5. MarksOwned' BY EndsTells, MarksStay DEF Ends, Sound
<1>6. Wakes'
  <2>1. Wakes BY DEF Ends, Sound
  <2>2. Pend => Pend'
    <3>1. \A g \in Handles : user[g].pc \in {"unuse", "signal"} => user'[g] = user[g]
      BY DEF Ends
    <3>2. QED BY <3>1 DEF Pend, Ends
  <2>3. (\E s \in Slots : InQueue(s)') <=> (\E s \in Slots : InQueue(s)) BY EndsTells
  <2>4. ASSUME NEW g \in Handles, NEW s \in Slots, user'[g].pc \in Waiting, user'[g].slot = s
        PROVE  Carried(s)' \/ tcb'[s].wake
    <3>1. user'[g].pc # "out" BY <2>4 DEF Waiting
    <3>2. g # h /\ user'[g] = user[g] /\ tcb'[user[g].slot] = tcb[user[g].slot]
      BY <3>1, EndsTells DEF Ends
    <3>3. QED BY <2>1, <2>4, <3>2, EndsTells DEF Wakes
  <2>5. \A c \in Cores, t \in Handles :
          core'[c].pc \in {"free", "unuse"} /\ tcb'[core'[c].slot].task = t /\ Alive(t)' => core'[c].wake
    BY <2>1, EndsTells DEF Wakes, Ends, SameTasks
  <2>6. QED BY <2>1, <2>2, <2>3, <2>4, <2>5 DEF Wakes, Ends
<1>7. QED BY <1>1, <1>2, <1>3, <1>4, <1>5, <1>6, EndsTells DEF Sound

(* The clean-up that leaves the hardware alone. *)
LEMMA EndsHardware ==
  ASSUME NEW h \in Handles, Ends(h), UNCHANGED <<jobs, irq>>,
         release'[h].pc \in {"clear"} \cup Cleared /\ OnHardware(h) => h \in raced' \cup overran'
  PROVE  JobsCarried' /\ DoneIfTrusted' /\ JobsStopped'
<1>1. \A g : OnHardware(g)' <=> OnHardware(g) BY DEF OnHardware
<1>2. \A c \in Cores : Running(c)' <=> Running(c) BY DEF Running, Ends
<1>3. ASSUME NEW c \in Cores, Running(c)
      PROVE  /\ core[c].slot \in Slots /\ core'[c] = core[c]
             /\ tcb'[core[c].slot].cores = tcb[core[c].slot].cores
             /\ tcb'[core[c].slot].task = tcb[core[c].slot].task
             /\ JobOf(c)' = JobOf(c)
  <2>1. core'[c] = core[c] /\ core[c].slot \in Slots /\ Carried(core[c].slot)
    BY <1>3, EndsTells DEF Ends, Running
  <2>2. /\ tcb'[core[c].slot].cores = tcb[core[c].slot].cores
        /\ tcb'[core[c].slot].task = tcb[core[c].slot].task
    BY <2>1 DEF Ends, SameTasks
  <2>3. tcb[core[c].slot].task \in Handles BY <2>1 DEF Ends, Sound, Base, Owners
  <2>4. user'[tcb[core[c].slot].task].left = user[tcb[core[c].slot].task].left
    BY <2>3 DEF Ends
  <2>5. QED BY <2>1, <2>2, <2>4 DEF JobOf, Job
<1>4. JobsCarried'
  <2>1. ASSUME NEW x \in Cores, NEW j \in jobs'[x]
        PROVE  \E c \in Cores : /\ Running(c)' /\ x \in tcb'[core'[c].slot].cores /\ j = JobOf(c)'
                                /\ \A y \in tcb'[core'[c].slot].cores : j \in jobs'[y]
    <3>1. PICK c \in Cores : /\ Running(c) /\ x \in tcb[core[c].slot].cores /\ j = JobOf(c)
                             /\ \A y \in tcb[core[c].slot].cores : j \in jobs[y]
      BY <2>1 DEF Ends, Sound, JobsCarried
    <3>2. QED BY <3>1, <1>2, <1>3
  <2>2. QED BY <2>1 DEF JobsCarried
<1>5. DoneIfTrusted'
  <2>1. DoneIfTrusted BY DEF Ends, Sound
  <2>2. \A c \in Cores : irq'[c] => core'[c].pc = "irq" BY <2>1 DEF DoneIfTrusted, Ends
  <2>3. ASSUME NEW c \in Cores, NEW t \in Handles,
               irq'[c] \/ (core'[c].pc = "result" /\ core'[c].status = "SUCCESS"),
               tcb'[core'[c].slot].task = t, Trusted(t)'
        PROVE  finished'[t]
    <3>1. core'[c] = core[c] /\ (irq[c] \/ (core[c].pc = "result" /\ core[c].status = "SUCCESS"))
      BY <2>3 DEF Ends
    <3>2. core[c].pc \in {"irq", "result"} BY <3>1, <2>1 DEF DoneIfTrusted
    <3>3. core[c].slot \in Slots BY <3>2, EndsTells
    <3>4. tcb[core[c].slot].task = t /\ Trusted(t) BY <2>3, <3>1, <3>3, EndsTells DEF Ends, SameTasks
    <3>5. finished[t] BY <3>1, <3>4, <2>1 DEF DoneIfTrusted
    <3>6. QED BY <3>5 DEF Ends
  <2>4. ASSUME NEW g \in Handles, Trusted(g)', Reports(g)' PROVE finished'[g]
    <3>1. Trusted(g) /\ g # h /\ user'[g] = user[g] BY <2>4, EndsTells DEF Ends
    <3>2. user[g].pc \in Waiting => tcb'[user[g].slot] = tcb[user[g].slot]
      BY <3>1, EndsTells DEF Waiting
    <3>3. Reports(g) BY <2>4, <3>1, <3>2 DEF Reports
    <3>4. QED BY <2>1, <3>1, <3>3 DEF DoneIfTrusted, Ends
  <2>5. \A c \in Cores, t \in Handles :
          (irq'[c] \/ (core'[c].pc = "result" /\ core'[c].status = "SUCCESS"))
            /\ tcb'[core'[c].slot].task = t /\ Trusted(t)' => finished'[t]
    BY <2>3
  <2>6. QED BY <2>2, <2>4, <2>5 DEF DoneIfTrusted
<1>6. JobsStopped'
  <2>1. JobsStopped BY DEF Ends, Sound
  <2>2. ASSUME NEW g \in Handles, release'[g].pc \in {"clear"} \cup Cleared, OnHardware(g)'
        PROVE  g \in raced' \cup overran'
    <3>1. CASE g = h BY <3>1, <2>2, <1>1
    <3>2. CASE g # h BY <3>2, <2>1, <2>2, <1>1 DEF Ends, JobsStopped
    <3>3. QED BY <3>1, <3>2
  <2>3. QED BY <2>2 DEF JobsStopped
<1>7. QED BY <1>4, <1>5, <1>6

(* A job of a process that is live is that of the slot the clean-up found, *)
(* whose task has been started.                                            *)
LEMMA JobIsHis ==
  ASSUME Inv, ExitTypes, Sound, NEW h \in Handles, Live(h), NEW x \in Cores, NEW j \in jobs[x],
         j[1] = h
  PROVE  \E s \in Slots : /\ node[s].handle = h /\ tcb[s].status = "INFER_START"
                          /\ x \in tcb[s].cores /\ tcb[s].task = h
                          /\ \A y \in tcb[s].cores : y \in Cores /\ j \in jobs[y]
<1>1. PICK c \in Cores : /\ Running(c) /\ x \in tcb[core[c].slot].cores /\ j = JobOf(c)
                         /\ \A y \in tcb[core[c].slot].cores : j \in jobs[y]
  BY DEF Sound, JobsCarried
<1>2. PICK s \in Slots : s = core[c].slot BY <1>1 DEF Running, Inv, Pointers
<1>3. tcb[s].task = h BY <1>1, <1>2 DEF JobOf, Job
<1>4. Carried(s) BY <1>1, <1>2 DEF Running, Carried, CoreHas, WorksOn
<1>5. node[s].handle = h BY <1>3, <1>4 DEF Sound, TasksOwned
<1>6. tcb[s].status = "INFER_START" BY <1>1, <1>2, <1>3 DEF Running, Sound, StatusOf
<1>7. tcb[s].cores \subseteq Cores BY DEF Inv, TypeOK, TCBs
<1>8. QED BY <1>1, <1>2, <1>3, <1>5, <1>6, <1>7

LEMMA HisSlot ==
  ASSUME Inv, ExitTypes, Sound, NEW h \in Handles, release[h].pc \in HasTask, NEW s \in Slots,
         node[s].handle = h
  PROVE  s = release[h].slot
<1>1. release[h].slot \in Slots /\ node[release[h].slot].handle = h
  BY DEF ExitTypes, Sound, SlotsOwned
<1>2. QED BY <1>1, DispatchAssumption DEF DispatchAssumption, Sound, SlotsOwned

HoldsOf(h, x) == release[h].slot = x /\ release[h].pc \in HasTask \ {"ref"}

LEMMA EndsHolds ==
  ASSUME NEW h \in Handles, Ends(h), NEW x \in Slots,
         HoldsOf(h, x) \/ HoldsOf(h, x)' => node[x].handle = h
  PROVE  Held(x)' = Held(x) + One(HoldsOf(h, x)') - One(HoldsOf(h, x))
<1>1. /\ UserHolds(x)' <=> UserHolds(x)
      /\ DaemonHolds(x)' <=> DaemonHolds(x)
      /\ Handed(x)' <=> Handed(x)
      /\ CoreHolds(x)' <=> CoreHolds(x)
  <2>1. \A g \in Handles : /\ user[g].pc \in Holding => user'[g] = user[g]
                           /\ user'[g].pc \in Holding => user'[g] = user[g]
    BY DEF Ends, Holding
  <2>2. UserHolds(x)' <=> UserHolds(x) BY <2>1 DEF UserHolds
  <2>3. QED BY <2>2 DEF Ends, DaemonHolds, Handed, HandedTo, CoreHolds
<1> DEFINE Others == \E g \in Handles : g # h /\ HoldsOf(g, x)
<1>2. /\ ReleaseHolds(x) <=> HoldsOf(h, x) \/ Others
      /\ ReleaseHolds(x)' <=> HoldsOf(h, x)' \/ Others
  <2>1. \A g \in Handles : g # h => (HoldsOf(g, x)' <=> HoldsOf(g, x)) BY DEF Ends, HoldsOf
  <2>2. QED BY <2>1 DEF ReleaseHolds, HoldsOf
<1>3. Others => node[x].handle # h
  <2>1. \A g \in Handles : HoldsOf(g, x) => node[x].handle = g
    BY DEF HoldsOf, Ends, Sound, SlotsOwned
  <2>2. QED BY <2>1
<1>4. One(ReleaseHolds(x)') - One(ReleaseHolds(x)) = One(HoldsOf(h, x)') - One(HoldsOf(h, x))
  <2> HIDE DEF Others
  <2>1. QED BY <1>2, <1>3 DEF One
<1>5. /\ One(UserHolds(x)') = One(UserHolds(x)) /\ One(DaemonHolds(x)') = One(DaemonHolds(x))
      /\ One(Handed(x)') = One(Handed(x)) /\ One(CoreHolds(x)') = One(CoreHolds(x))
  BY <1>1 DEF One
<1>6. \A b : One(b) \in Nat BY DEF One
<1> HIDE DEF Others
<1>7. Held(x) = One(UserHolds(x)) + One(DaemonHolds(x)) + One(Handed(x)) + One(CoreHolds(x))
                + One(ReleaseHolds(x))
  BY DEF Held
<1>8. Held(x)' = One(UserHolds(x)') + One(DaemonHolds(x)') + One(Handed(x)') + One(CoreHolds(x)')
                 + One(ReleaseHolds(x)')
  BY DEF Held, One
<1>9. QED BY <1>4, <1>5, <1>6, <1>7, <1>8

LEMMA EndsFrame ==
  ASSUME Inv, Inv', ExitTypes, Sound, NEW h \in Handles, NEW r,
         release' = [release EXCEPT ![h] = r], r.pc # "alive", r.pc \notin Cleared => Live(h),
         user[h].pc \in {"out", "find"}, user' = [user EXCEPT ![h].pc = "out"],
         UNCHANGED <<queue, submit_signal, daemon, dispatch, tcb_index, run_signal, core,
                     canceller, finished>>,
         SameTasks, HandlesFall,
         \A s \in Slots : node[s].handle # h => node'[s] = node[s] /\ tcb'[s] = tcb[s],
         \A s \in Slots : tcb'[s].status = "READY" => tcb[s].status = "READY",
         raced \subseteq raced', overran \subseteq overran'
  PROVE  Ends(h) /\ release'[h] = r
<1>1. release'[h] = r /\ \A g \in Handles : g # h => release'[g] = release[g]
  BY DEF ExitTypes
<1>2. user \in [Handles -> Users] BY DEF Inv, TypeOK
<1>3. /\ user'[h].pc = "out" /\ user'[h].left = user[h].left
      /\ \A g \in Handles : g # h => user'[g] = user[g]
  BY <1>2 DEF Users
<1>4. QED BY <1>1, <1>3 DEF Ends, Alive, Live

(* The steps that read and move on. *)
LEMMA EndsMoves ==
  ASSUME Inv, Inv', ExitTypes, Sound, NEW h \in Handles, NEW r,
         release' = [release EXCEPT ![h] = r], r.pc # "alive", r.pc \notin Cleared => Live(h),
         user[h].pc \in {"out", "find"}, user' = [user EXCEPT ![h].pc = "out"],
         UNCHANGED <<node, tcb, queue, submit_signal, daemon, dispatch, tcb_index, run_signal, core,
                     canceller, finished, jobs, irq, raced>>,
         overran \subseteq overran',
         r.pc \in HasTask \ {"ref"} => release[h].pc \in HasTask \ {"ref"} /\ r.slot = release[h].slot,
         r.pc \notin HasTask \ {"ref"} => release[h].pc \notin HasTask \ {"ref"},
         r.pc = "ref" => r.slot \in Slots /\ node[r.slot].handle = h,
         \A s \in Slots : node[s].handle = h => /\ Removed(h)' => node[s].remove
                                                /\ node[s].remove => Removed(h)',
         r.pc \in Cleared => \A s \in Slots : Carried(s) /\ tcb[s].task = h => tcb[s].status # "READY",
         r.pc \in {"cancel", "wait_idle"} => tcb[r.slot].status # "READY",
         r.pc \in {"clear"} \cup Cleared /\ OnHardware(h) => h \in raced \cup overran'
  PROVE  Sound'
<1>1. Ends(h) /\ release'[h] = r BY EndsFrame DEF SameTasks, HandlesFall
<1>2. release'[h].pc \in HasTask => node'[release'[h].slot].handle = h
  <2>1. CASE r.pc = "ref" BY <1>1, <2>1
  <2>2. CASE r.pc # "ref" BY <1>1, <2>2 DEF Sound, SlotsOwned
  <2>3. QED BY <2>1, <2>2
<1>3. \A x \in Slots : Held(x)' = Held(x)
  <2>1. ASSUME NEW x \in Slots PROVE Held(x)' = Held(x)
    <3>1. HoldsOf(h, x)' <=> HoldsOf(h, x) BY <1>1 DEF HoldsOf
    <3>2. HoldsOf(h, x) => node[x].handle = h BY DEF HoldsOf, Sound, SlotsOwned
    <3>3. Held(x)' = Held(x) + One(HoldsOf(h, x)') - One(HoldsOf(h, x))
      BY <1>1, <3>1, <3>2, EndsHolds
    <3>4. One(HoldsOf(h, x)') = One(HoldsOf(h, x)) BY <3>1 DEF One
    <3>5. Held(x) \in Nat /\ One(HoldsOf(h, x)) \in Nat BY HeldIs DEF One
    <3>6. QED BY <3>3, <3>4, <3>5
  <2>2. QED BY <2>1
<1>4. Counted' BY <1>3, CountedKept DEF Sound
<1>5. JobsCarried' /\ DoneIfTrusted' /\ JobsStopped' BY <1>1, EndsHardware
<1>6. ~Live(h)' => r.pc \in Cleared BY <1>1 DEF Live
<1>7. QED BY <1>1, <1>2, <1>4, <1>5, <1>6, EndsSound

(* One whose user is in no call and who is live has not marked its slot.   *)
LEMMA Unmarked ==
  ASSUME Sound, NEW h \in Handles, user[h].pc # "leave", release[h].pc \notin Cleared
  PROVE  \A s \in Slots : node[s].handle = h => ~node[s].remove
BY DEF Sound, SlotsOwned, Removed, Cleared

LEMMA ReleaseSound ==
  ASSUME Inv, Inv', ExitTypes, Sound, NEW h \in Handles, Release(h)
  PROVE  Sound'
<1>1. /\ release[h].pc = "alive" /\ user[h].pc \in {"out", "find"}
      /\ user' = [user EXCEPT ![h].pc = "out"]
      /\ UNCHANGED <<node, tcb, queue, submit_signal, daemon, dispatch, tcb_index, run_signal, core,
                     canceller, finished, jobs, irq, raced, overran>>
  BY DEF Release, Alive, table, hwVars, history, exitHistory
<1>2. release \in [Handles -> [pc : ReleasePcs, slot : Slots \cup {0}]] BY DEF ExitTypes
<1> DEFINE r == [release[h] EXCEPT !.pc = "find"]
<1>3. r.pc = "find" /\ release' = [release EXCEPT ![h] = r] BY <1>2 DEF Release, Goes
<1> HIDE DEF r
<1>4. release'[h] = r /\ user'[h].pc = "out" BY <1>1, <1>2, <1>3 DEF Inv, TypeOK, Users
<1>5. ~Removed(h)' /\ Live(h) BY <1>1, <1>3, <1>4 DEF Removed, Live, Cleared
<1>6. \A s \in Slots : node[s].handle = h => ~node[s].remove BY <1>1, Unmarked DEF Cleared
<1>7. "find" \notin Cleared \cup HasTask \cup {"clear"} BY DEF Cleared, HasTask
<1>8. release[h].pc \notin HasTask BY <1>1 DEF HasTask
<1>9. QED BY <1>1, <1>3, <1>5, <1>6, <1>7, <1>8, EndsMoves

(* What holds of the clean-up of a process, whatever its step. *)
LEMMA CleanUpTells ==
  ASSUME Inv, ExitTypes, NEW h \in Handles, ~Alive(h)
  PROVE  /\ user[h].pc = "out" /\ user = [user EXCEPT ![h].pc = "out"]
         /\ release \in [Handles -> [pc : ReleasePcs, slot : Slots \cup {0}]]
         /\ release[h].pc \in HasTask => release[h].slot \in Slots
<1>1. user[h].pc = "out" BY DEF ExitTypes
<1>2. user \in [Handles -> Users] BY DEF Inv, TypeOK
<1>3. user = [user EXCEPT ![h].pc = "out"] BY <1>1, <1>2 DEF Users
<1>4. QED BY <1>1, <1>3 DEF ExitTypes

LEMMA GoesTells ==
  ASSUME ExitTypes, NEW h \in Handles, NEW pc, Goes(h, pc)
  PROVE  /\ release' = [release EXCEPT ![h] = [release[h] EXCEPT !.pc = pc]]
         /\ [release[h] EXCEPT !.pc = pc].pc = pc
         /\ [release[h] EXCEPT !.pc = pc].slot = release[h].slot
         /\ release'[h] = [release[h] EXCEPT !.pc = pc]
BY DEF Goes, ExitTypes

LEMMA FindTaskSound ==
  ASSUME Inv, Inv', ExitTypes, Sound, NEW h \in Handles, FindTask(h)
  PROVE  Sound'
<1>1. /\ release[h].pc = "find"
      /\ UNCHANGED <<node, tcb, queue, submit_signal, daemon, dispatch, tcb_index, run_signal, core,
                     user, canceller, finished, jobs, irq, raced, overran>>
  BY DEF FindTask, vars, exitHistory
<1>2. /\ ~Alive(h) /\ Live(h) /\ "find" \notin Cleared \cup HasTask
  BY <1>1 DEF Alive, Live, Cleared, HasTask
<1>3. user[h].pc = "out" /\ user' = [user EXCEPT ![h].pc = "out"] BY <1>1, <1>2, CleanUpTells
<1>4. \A s \in Slots : node[s].handle = h => ~node[s].remove BY <1>1, <1>2, <1>3, Unmarked
<1>5. CASE SlotsOf(h) = {}
  <2> DEFINE r == [release[h] EXCEPT !.pc = "free"]
  <2>1. r.pc = "free" /\ release' = [release EXCEPT ![h] = r]
    BY <1>5, GoesTells DEF FindTask
  <2> HIDE DEF r
  <2>2. "free" \in Cleared \ HasTask /\ "free" # "clear" BY DEF Cleared, HasTask
  <2>3. \A s \in Slots : node[s].handle # h BY <1>5 DEF SlotsOf
  <2>4. \A s \in Slots : ~(Carried(s) /\ tcb[s].task = h)
    BY <1>2, <2>3 DEF Sound, TasksOwned
  <2>5. ~OnHardware(h) BY <1>2, <2>3, JobIsHis DEF OnHardware
  <2>6. QED BY <1>1, <1>2, <1>3, <2>1, <2>2, <2>3, <2>4, <2>5, EndsMoves
<1>6. CASE SlotsOf(h) # {}
  <2>1. PICK s \in SlotsOf(h) : release' = [release EXCEPT ![h] = [pc |-> "ref", slot |-> s]]
    BY <1>6 DEF FindTask
  <2>2. s \in Slots /\ node[s].handle = h BY DEF SlotsOf
  <2> DEFINE r == [pc |-> "ref", slot |-> s]
  <2>3. r.pc = "ref" /\ r.slot = s /\ release' = [release EXCEPT ![h] = r] BY <2>1
  <2> HIDE DEF r
  <2>4. "ref" \notin Cleared /\ "ref" \in HasTask BY DEF Cleared, HasTask
  <2>5. ~Removed(h)'
    <3>1. release'[h].pc = "ref" BY <2>3 DEF ExitTypes
    <3>2. QED BY <3>1, <2>4, <1>1, <1>3 DEF Removed
  <2>6. /\ r.pc \notin Cleared \cup {"alive", "clear", "cancel", "wait_idle"}
        /\ r.pc \notin HasTask \ {"ref"} /\ release[h].pc \notin HasTask \ {"ref"}
    BY <1>1, <1>2, <2>3, <2>4
  <2>7. overran \subseteq overran' BY <1>1
  <2>8. QED BY <1>1, <1>2, <1>3, <1>4, <2>2, <2>3, <2>5, <2>6, <2>7, EndsMoves
<1>7. QED BY <1>5, <1>6

LEMMA LookAtTaskSound ==
  ASSUME Inv, Inv', ExitTypes, Sound, NEW h \in Handles, LookAtTask(h)
  PROVE  Sound'
<1>1. /\ release[h].pc = "look"
      /\ UNCHANGED <<node, tcb, queue, submit_signal, daemon, dispatch, tcb_index, run_signal, core,
                     user, canceller, finished, jobs, irq, raced, overran>>
  BY DEF LookAtTask, vars, exitHistory
<1>2. PICK pc \in {"clear", "cancel", "wait_idle"} :
        /\ Goes(h, pc)
        /\ pc = "clear" <=> tcb[release[h].slot].status # "INFER_START"
  BY DEF LookAtTask
<1>3. /\ ~Alive(h) /\ Live(h) /\ release[h].pc \in HasTask \ {"ref"} /\ release[h].pc \notin Cleared
      /\ pc \in HasTask \ {"ref"} /\ pc \notin Cleared
  BY <1>1 DEF Alive, Live, Cleared, HasTask
<1>4. user[h].pc = "out" /\ user' = [user EXCEPT ![h].pc = "out"] BY <1>1, <1>3, CleanUpTells
<1>5. \A s \in Slots : node[s].handle = h => ~node[s].remove BY <1>1, <1>3, <1>4, Unmarked
<1> DEFINE r == [release[h] EXCEPT !.pc = pc]
<1>6. /\ r.pc = pc /\ r.slot = release[h].slot /\ release' = [release EXCEPT ![h] = r]
      /\ release'[h] = r
  BY <1>2, GoesTells
<1> HIDE DEF r
<1>7. ~Removed(h)' BY <1>1, <1>3, <1>4, <1>6 DEF Removed
<1>8. pc = "clear" => ~OnHardware(h) BY <1>2, <1>3, JobIsHis, HisSlot DEF OnHardware
<1>9. pc \in {"cancel", "wait_idle"} => tcb[r.slot].status # "READY" BY <1>2, <1>6
<1>10. QED BY <1>1, <1>3, <1>4, <1>5, <1>6, <1>7, <1>8, <1>9, EndsMoves

LEMMA WaitIdleSound ==
  ASSUME Inv, Inv', ExitTypes, Sound, NEW h \in Handles, WaitIdle(h)
  PROVE  Sound'
<1>1. /\ release[h].pc = "wait_idle" /\ Goes(h, "clear")
      /\ overran' = IF \A c \in tcb[release[h].slot].cores : jobs[c] = {} THEN overran
                    ELSE overran \cup {h}
      /\ UNCHANGED <<node, tcb, queue, submit_signal, daemon, dispatch, tcb_index, run_signal, core,
                     user, canceller, finished, jobs, irq, raced>>
  BY DEF WaitIdle, vars
<1>2. /\ ~Alive(h) /\ Live(h) /\ release[h].pc \in HasTask \ {"ref"} /\ release[h].pc \notin Cleared
      /\ "clear" \in HasTask \ {"ref"} /\ "clear" \notin Cleared
  BY <1>1 DEF Alive, Live, Cleared, HasTask
<1>3. user[h].pc = "out" /\ user' = [user EXCEPT ![h].pc = "out"] BY <1>1, <1>2, CleanUpTells
<1>4. \A s \in Slots : node[s].handle = h => ~node[s].remove BY <1>1, <1>2, <1>3, Unmarked
<1> DEFINE r == [release[h] EXCEPT !.pc = "clear"]
<1>5. /\ r.pc = "clear" /\ r.slot = release[h].slot /\ release' = [release EXCEPT ![h] = r]
      /\ release'[h] = r
  BY <1>1, GoesTells
<1> HIDE DEF r
<1>6. ~Removed(h)' BY <1>1, <1>2, <1>3, <1>5 DEF Removed
<1>7. OnHardware(h) => h \in overran'
  <2>1. ASSUME OnHardware(h), \A c \in tcb[release[h].slot].cores : jobs[c] = {} PROVE FALSE
    <3>1. PICK x \in Cores : \E j \in jobs[x] : j[1] = h BY <2>1 DEF OnHardware
    <3>2. PICK s \in Slots : node[s].handle = h /\ x \in tcb[s].cores BY <1>2, <3>1, JobIsHis
    <3>3. s = release[h].slot BY <1>2, <3>2, HisSlot
    <3>4. QED BY <2>1, <3>1, <3>2, <3>3
  <2>2. QED BY <1>1, <2>1
<1>8. overran \subseteq overran' BY <1>1
<1>9. /\ r.pc \notin Cleared \cup {"alive", "cancel", "wait_idle", "ref"}
      /\ r.pc \in HasTask \ {"ref"}
  BY <1>2, <1>5
<1>10. /\ UNCHANGED <<node, tcb, queue, submit_signal, daemon, dispatch, tcb_index, run_signal, core,
                      canceller, finished, jobs, irq, raced>>
       /\ release[h].pc \in HasTask \ {"ref"}
  BY <1>1, <1>2
<1>11. QED BY <1>2, <1>3, <1>4, <1>5, <1>6, <1>7, <1>8, <1>9, <1>10, EndsMoves

(* A step to a place where the TCB is emptied already, or with everything  *)
(* as the process left it, that changes nothing but the node of its slot.  *)
LEMMA EndsNode ==
  ASSUME Inv, Inv', ExitTypes, Sound, NEW h \in Handles, NEW pc,
         release[h].pc \in HasTask, Goes(h, pc), pc # "alive",
         pc \notin {"clear", "cancel", "wait_idle"},
         pc \in Cleared <=> release[h].pc \in Cleared,
         UNCHANGED <<tcb, queue, submit_signal, daemon, dispatch, tcb_index, run_signal, core, jobs,
                     irq, user, canceller, finished, raced, overran>>,
         HandlesFall, \A s \in Slots : node[s].handle # h => node'[s] = node[s],
         pc \in HasTask => node'[release[h].slot].handle = h,
         pc \in Cleared => \A s \in Slots : node'[s].handle = h => node'[s].remove,
         pc \notin Cleared => \A s \in Slots : NodeKept(s),
         Counted'
  PROVE  Sound'
<1> DEFINE r == [release[h] EXCEPT !.pc = pc]
<1>1. /\ r.pc = pc /\ r.slot = release[h].slot /\ release' = [release EXCEPT ![h] = r]
      /\ release'[h] = r
  BY GoesTells
<1> HIDE DEF r
<1>2. ~Alive(h) BY DEF HasTask, Alive
<1>3. user[h].pc = "out" /\ user' = [user EXCEPT ![h].pc = "out"] BY <1>2, CleanUpTells
<1>4. SameTasks BY DEF SameTasks
<1>5. r.pc \notin Cleared => Live(h) BY <1>1 DEF Live
<1>6. Ends(h) BY <1>1, <1>3, <1>4, <1>5, EndsFrame
<1>7. JobsCarried' /\ DoneIfTrusted' /\ JobsStopped'
  <2>1. pc \in {"clear"} \cup Cleared /\ OnHardware(h) => h \in raced' \cup overran'
    BY DEF Sound, JobsStopped
  <2>2. QED BY <1>1, <1>6, <2>1, EndsHardware
<1>8. ASSUME NEW s \in Slots, node'[s].handle = h
      PROVE  /\ Removed(h)' => node'[s].remove
             /\ node'[s].remove => Removed(h)' \/ release'[h].pc = "remove"
  <2>1. CASE pc \in Cleared BY <1>1, <1>3, <1>8, <2>1 DEF Removed
  <2>2. CASE pc \notin Cleared
    <3>1. node[s].handle = h /\ node'[s].remove = node[s].remove BY <1>8, <2>2 DEF NodeKept
    <3>2. ~node[s].remove BY <1>3, <2>2, <3>1, Unmarked
    <3>3. user'[h].pc = "out" /\ release'[h].pc \notin Cleared BY <1>1, <1>3, <2>2
    <3>4. QED BY <3>1, <3>2, <3>3 DEF Removed
  <2>3. QED BY <2>1, <2>2
<1>9. Live(h)' <=> Live(h) BY <1>1 DEF Live
<1>10. Live(h)' => \A s \in Slots : node'[s].handle = node[s].handle /\ tcb'[s] = tcb[s]
  BY <1>1 DEF Live, NodeKept
<1>11. ~Live(h)' => \A s \in Slots : Carried(s) /\ tcb[s].task = h => tcb'[s].status # "READY"
  BY <1>9 DEF Sound, TasksOwned
<1>12. QED BY <1>1, <1>6, <1>7, <1>8, <1>10, <1>11, EndsSound

(* Who else has the slot of a clean-up is counted as before. *)
LEMMA HoldsAfter ==
  ASSUME Inv, Inv', ExitTypes, Sound, NEW h \in Handles, NEW pc,
         release[h].pc \in HasTask, Goes(h, pc), pc # "alive",
         pc \in Cleared <=> release[h].pc \in Cleared,
         UNCHANGED <<tcb, queue, submit_signal, daemon, dispatch, tcb_index, run_signal, core, jobs,
                     irq, user, canceller, finished, raced, overran>>,
         HandlesFall, \A s \in Slots : node[s].handle # h => node'[s] = node[s]
  PROVE  \A x \in Slots :
           Held(x)' = Held(x) + One(x = release[h].slot /\ pc \in HasTask \ {"ref"})
                              - One(x = release[h].slot /\ release[h].pc # "ref")
<1> DEFINE r == [release[h] EXCEPT !.pc = pc]
<1>1. /\ r.pc = pc /\ r.slot = release[h].slot /\ release' = [release EXCEPT ![h] = r]
      /\ release'[h] = r
  BY GoesTells
<1> HIDE DEF r
<1>2. ~Alive(h) BY DEF HasTask, Alive
<1>3. user[h].pc = "out" /\ user' = [user EXCEPT ![h].pc = "out"] BY <1>2, CleanUpTells
<1>4. SameTasks BY DEF SameTasks
<1>5. r.pc \notin Cleared => Live(h) BY <1>1 DEF Live
<1>6. Ends(h) BY <1>1, <1>3, <1>4, <1>5, EndsFrame
<1>7. node[release[h].slot].handle = h BY DEF Sound, SlotsOwned
<1>8. ASSUME NEW x \in Slots
      PROVE  Held(x)' = Held(x) + One(x = release[h].slot /\ pc \in HasTask \ {"ref"})
                                - One(x = release[h].slot /\ release[h].pc # "ref")
  <2>1. HoldsOf(h, x)' <=> x = release[h].slot /\ pc \in HasTask \ {"ref"} BY <1>1 DEF HoldsOf
  <2>2. HoldsOf(h, x) <=> x = release[h].slot /\ release[h].pc # "ref" BY DEF HoldsOf
  <2>3. Held(x)' = Held(x) + One(HoldsOf(h, x)') - One(HoldsOf(h, x))
    BY <1>6, <1>7, <2>1, <2>2, EndsHolds
  <2>4. /\ One(HoldsOf(h, x)') = One(x = release[h].slot /\ pc \in HasTask \ {"ref"})
        /\ One(HoldsOf(h, x)) = One(x = release[h].slot /\ release[h].pc # "ref")
    BY <2>1, <2>2 DEF One
  <2>5. QED BY <2>3, <2>4
<1>9. QED BY <1>8

LEMMA RefTaskSound ==
  ASSUME Inv, Inv', ExitTypes, Sound, NEW h \in Handles, RefTask(h)
  PROVE  Sound'
<1>1. /\ release[h].pc = "ref" /\ Goes(h, "look") /\ TakeRef(release[h].slot)
      /\ UNCHANGED <<tcb, queue, submit_signal, daemon, dispatch, tcb_index, run_signal, core, jobs,
                     irq, user, canceller, finished, raced, overran>>
  BY DEF RefTask, hwVars, history, exitHistory
<1>2. /\ release[h].pc \in HasTask \ Cleared
      /\ "look" \notin Cleared \cup {"alive", "clear", "cancel", "wait_idle", "ref"}
      /\ "look" \in HasTask
  BY <1>1 DEF HasTask, Cleared
<1>3. PICK s \in Slots : s = release[h].slot BY <1>2 DEF ExitTypes
<1>4. node[s].handle = h BY <1>2, <1>3 DEF Sound, SlotsOwned
<1>5. Used(s) BY <1>4, DispatchAssumption DEF Used, DispatchAssumption
<1>6. TakeRef(s) /\ HandlesFall BY <1>1, <1>3, TakeRefNodes DEF Inv
<1>7. \A x \in Slots : node[x].handle # h => node'[x] = node[x]
  BY <1>4, <1>6 DEF TakeRef, Inv, TypeOK
<1>8. \A x \in Slots : Held(x)' = IF x = s THEN Held(x) + 1 ELSE Held(x)
  <2>1. \A x \in Slots : Held(x)' = Held(x) + One(x = release[h].slot /\ "look" \in HasTask \ {"ref"})
                                            - One(x = release[h].slot /\ release[h].pc # "ref")
    BY <1>1, <1>2, <1>6, <1>7, HoldsAfter
  <2>2. \A x \in Slots : Held(x) \in Nat BY HeldIs
  <2>3. QED BY <1>1, <1>2, <1>3, <2>1, <2>2 DEF One
<1>9. Counted' /\ \A x \in Slots : NodeKept(x) BY <1>5, <1>6, <1>8, CountedTaken DEF Sound
<1>10. node'[s].handle = h BY <1>4, <1>9 DEF NodeKept
<1>11. QED BY <1>1, <1>2, <1>3, <1>6, <1>7, <1>9, <1>10, EndsNode

LEMMA RemoveTaskSound ==
  ASSUME Inv, Inv', ExitTypes, Sound, NEW h \in Handles, RemoveTask(h)
  PROVE  Sound'
<1>1. /\ release[h].pc = "remove" /\ Goes(h, "unuse") /\ MarkRemoved(release[h].slot)
      /\ UNCHANGED <<tcb, queue, submit_signal, daemon, dispatch, tcb_index, run_signal, core, jobs,
                     irq, user, canceller, finished, raced, overran>>
  BY DEF RemoveTask, hwVars, history, exitHistory
<1>2. /\ release[h].pc \in HasTask \cap Cleared
      /\ "unuse" \notin {"alive", "clear", "cancel", "wait_idle", "ref"}
      /\ "unuse" \in HasTask \cap Cleared
  BY <1>1 DEF HasTask, Cleared
<1>3. PICK s \in Slots : s = release[h].slot BY <1>2 DEF ExitTypes
<1>4. node[s].handle = h BY <1>2, <1>3 DEF Sound, SlotsOwned
<1>5. Held(s) # 0
  <2>1. ReleaseHolds(s) BY <1>1, <1>2, <1>3 DEF ReleaseHolds
  <2>2. QED BY <2>1, HeldIs
<1>6. Used(s) /\ node[s].ref # 0 BY <1>5 DEF Sound, Counted
<1>7. /\ HandlesFall
      /\ \A x \in Slots : /\ node'[x].handle = node[x].handle
                          /\ node'[x].remove = (x = s \/ node[x].remove)
  BY <1>1, <1>3, <1>6, MarkRemovedNodes DEF Inv
<1>8. \A x \in Slots : node[x].handle # h => node'[x] = node[x]
  BY <1>1, <1>3, <1>4 DEF MarkRemoved, Inv, TypeOK
<1>9. \A x \in Slots : Held(x)' = Held(x)
  <2>1. \A x \in Slots : Held(x)' = Held(x) + One(x = release[h].slot /\ "unuse" \in HasTask \ {"ref"})
                                            - One(x = release[h].slot /\ release[h].pc # "ref")
    BY <1>1, <1>2, <1>7, <1>8, HoldsAfter
  <2>2. \A x \in Slots : Held(x) \in Nat BY HeldIs
  <2>3. QED BY <1>1, <1>2, <2>1, <2>2 DEF One
<1>10. Counted' BY <1>1, <1>3, <1>5, <1>9, CountedMarked DEF Sound
<1>11. ASSUME NEW x \in Slots, node'[x].handle = h PROVE node'[x].remove
  <2>1. node[x].handle = h BY <1>7, <1>11
  <2>2. x = s BY <1>2, <1>3, <2>1, HisSlot
  <2>3. QED BY <1>7, <2>2
<1>12. node'[s].handle = h BY <1>4, <1>7
<1>13. QED BY <1>1, <1>2, <1>3, <1>7, <1>8, <1>10, <1>11, <1>12, EndsNode

LEMMA UnuseTaskSound ==
  ASSUME Inv, Inv', ExitTypes, Sound, NEW h \in Handles, UnuseTask(h)
  PROVE  Sound'
<1>1. /\ release[h].pc = "unuse" /\ Goes(h, "free") /\ Unuse(release[h].slot, FALSE)
      /\ UNCHANGED <<queue, submit_signal, daemon, dispatch, tcb_index, run_signal, core, jobs,
                     irq, user, canceller, finished, raced, overran>>
  BY DEF UnuseTask, hwVars, history, exitHistory
<1>2. /\ release[h].pc \in HasTask \cap Cleared
      /\ "free" \notin HasTask \cup {"alive", "clear", "cancel", "wait_idle", "ref"}
      /\ "free" \in Cleared
  BY <1>1 DEF HasTask, Cleared
<1>3. PICK s \in Slots : s = release[h].slot BY <1>2 DEF ExitTypes
<1>4. node[s].handle = h BY <1>2, <1>3 DEF Sound, SlotsOwned
<1>5. UNCHANGED tcb BY <1>1 DEF Unuse
<1>6. Unuse(s, FALSE) /\ HandlesFall BY <1>1, <1>3, UnuseNodes DEF Inv
<1>7. \A x \in Slots : node[x].handle # h => node'[x] = node[x]
  BY <1>4, <1>6 DEF Unuse, Inv, TypeOK
<1>8. \A x \in Slots : Held(x)' = IF x = s THEN Held(x) - 1 ELSE Held(x)
  <2>1. \A x \in Slots : Held(x)' = Held(x) + One(x = release[h].slot /\ "free" \in HasTask \ {"ref"})
                                            - One(x = release[h].slot /\ release[h].pc # "ref")
    BY <1>1, <1>2, <1>5, <1>6, <1>7, HoldsAfter
  <2>2. \A x \in Slots : Held(x) \in Nat BY HeldIs
  <2>3. QED BY <1>1, <1>2, <1>3, <2>1, <2>2 DEF One
<1>9. /\ Counted'
      /\ \A x \in Slots : NodeKept(x) \/ (x = s /\ node'[x].handle = NoHandle)
  BY <1>6, <1>8, CountedDropped DEF Sound
<1>10. \A x \in Slots : node'[x].handle = h => node'[x].remove
  <2>1. Removed(h) BY <1>1 DEF Removed, Cleared
  <2>2. \A x \in Slots : node[x].handle = h => node[x].remove BY <2>1 DEF Sound, SlotsOwned
  <2>3. NoHandle # h BY DispatchAssumption DEF DispatchAssumption
  <2>4. QED BY <1>9, <2>2, <2>3 DEF NodeKept
<1>11. QED BY <1>1, <1>2, <1>5, <1>6, <1>7, <1>9, <1>10, EndsNode

LEMMA ClearTaskSound ==
  ASSUME Inv, Inv', ExitTypes, Sound, NEW h \in Handles, ClearTask(h)
  PROVE  Sound'
<1>1. /\ release[h].pc = "clear" /\ Goes(h, "remove")
      /\ tcb' = [tcb EXCEPT ![release[h].slot].status = "EMPTY", ![release[h].slot].v2 = "CANCELED"]
      /\ UNCHANGED <<node, queue, submit_signal, daemon, dispatch, tcb_index, run_signal, core, jobs,
                     irq, user, canceller, finished, raced, overran>>
  BY DEF ClearTask, hwVars, history, exitHistory
<1>2. /\ release[h].pc \in HasTask \ (Cleared \cup {"ref"})
      /\ "remove" \notin {"alive", "clear", "cancel", "wait_idle", "ref"}
      /\ "remove" \in HasTask \cap Cleared
  BY <1>1 DEF HasTask, Cleared
<1>3. PICK s \in Slots : s = release[h].slot BY <1>2 DEF ExitTypes
<1>4. node[s].handle = h /\ Live(h) BY <1>2, <1>3 DEF Sound, SlotsOwned, Live
<1>5. ~Alive(h) BY <1>1 DEF Alive
<1>6. user[h].pc = "out" /\ user' = [user EXCEPT ![h].pc = "out"] BY <1>1, <1>5, CleanUpTells
<1> DEFINE r == [release[h] EXCEPT !.pc = "remove"]
<1>7. /\ r.pc = "remove" /\ r.slot = s /\ release' = [release EXCEPT ![h] = r]
      /\ release'[h] = r
  BY <1>1, <1>3, GoesTells
<1> HIDE DEF r
<1>8. /\ tcb'[s].status = "EMPTY"
      /\ \A x \in Slots : x # s => tcb'[x] = tcb[x]
      /\ SameTasks
  BY <1>1, <1>3 DEF Inv, TypeOK, TCBs, SameTasks
<1>9. /\ HandlesFall
      /\ \A x \in Slots : node[x].handle # h => node'[x] = node[x] /\ tcb'[x] = tcb[x]
      /\ \A x \in Slots : tcb'[x].status = "READY" => tcb[x].status = "READY"
  BY <1>1, <1>4, <1>8 DEF HandlesFall
<1>10. Ends(h)
  <2>1. raced \subseteq raced' /\ overran \subseteq overran' /\ r.pc # "alive" BY <1>1, <1>7
  <2>2. r.pc \notin Cleared => Live(h) BY <1>4
  <2>3. QED BY <1>1, <1>6, <1>7, <1>8, <1>9, <2>1, <2>2, EndsFrame
<1>11. JobsCarried' /\ DoneIfTrusted' /\ JobsStopped'
  <2>1. OnHardware(h) => h \in raced' \cup overran' BY <1>1 DEF Sound, JobsStopped
  <2>2. QED BY <1>1, <1>10, <2>1, EndsHardware
<1>12. Counted'
  <2>1. ASSUME NEW x \in Slots PROVE Held(x)' = Held(x)
    <3>1. HoldsOf(h, x)' <=> HoldsOf(h, x) BY <1>2, <1>3, <1>7 DEF HoldsOf
    <3>2. HoldsOf(h, x) => node[x].handle = h BY <1>3, <1>4 DEF HoldsOf
    <3>3. Held(x)' = Held(x) + One(HoldsOf(h, x)') - One(HoldsOf(h, x))
      BY <1>10, <3>1, <3>2, EndsHolds
    <3>4. One(HoldsOf(h, x)') = One(HoldsOf(h, x)) BY <3>1 DEF One
    <3>5. Held(x) \in Nat /\ One(HoldsOf(h, x)) \in Nat BY HeldIs DEF One
    <3>6. QED BY <3>3, <3>4, <3>5
  <2>2. QED BY <1>1, <2>1, CountedKept DEF Sound
<1>13. ~Removed(h)' /\ ~Live(h)' BY <1>2, <1>6, <1>7 DEF Removed, Live
<1>14. ASSUME NEW x \in Slots, Carried(x), tcb[x].task = h PROVE tcb'[x].status # "READY"
  <2>1. node[x].handle = h BY <1>4, <1>14 DEF Sound, TasksOwned
  <2>2. x = s BY <1>2, <1>3, <2>1, HisSlot
  <2>3. QED BY <1>8, <2>2
<1>15. node'[release'[h].slot].handle = h /\ release'[h].pc = "remove" BY <1>1, <1>4, <1>7
<1>16. QED BY <1>10, <1>11, <1>12, <1>13, <1>14, <1>15, EndsSound

(* The end of a process that is not the last. *)
LEMMA MemoryGoesSound ==
  ASSUME Inv, Inv', ExitTypes, Sound, NEW h \in Handles,
         FreeMemory(h) \/ (Destroy(h) /\ running')
  PROVE  Sound'
<1>1. PICK pc \in {"destroy", "gone"} :
        /\ release[h].pc \in {"free", "destroy"} /\ Goes(h, pc)
        /\ UNCHANGED <<node, tcb, queue, submit_signal, daemon, dispatch, tcb_index, run_signal, core,
                       jobs, irq, user, canceller, finished, raced, overran>>
  BY DEF FreeMemory, Destroy, vars, table, history, exitHistory
<1>2. /\ ~Alive(h) /\ ~Live(h) /\ release[h].pc \in Cleared \ HasTask /\ Removed(h)
      /\ pc \in Cleared \ HasTask /\ pc \notin {"alive", "ref", "cancel", "wait_idle"}
  BY <1>1 DEF Alive, Live, Removed, Cleared, HasTask
<1>3. user[h].pc = "out" /\ user' = [user EXCEPT ![h].pc = "out"] BY <1>1, <1>2, CleanUpTells
<1> DEFINE r == [release[h] EXCEPT !.pc = pc]
<1>4. r.pc = pc /\ release' = [release EXCEPT ![h] = r] BY <1>1, GoesTells
<1> HIDE DEF r
<1>5. \A s \in Slots : node[s].handle = h => node[s].remove BY <1>2 DEF Sound, SlotsOwned
<1>6. Removed(h)'
  <2>1. release'[h].pc = pc BY <1>4 DEF ExitTypes
  <2>2. QED BY <1>1, <2>1 DEF Removed, Cleared
<1>7. \A s \in Slots : Carried(s) /\ tcb[s].task = h => tcb[s].status # "READY"
  BY <1>2 DEF Sound, TasksOwned
<1>8. OnHardware(h) => h \in raced \cup overran' BY <1>1, <1>2 DEF Sound, JobsStopped
<1>9. overran \subseteq overran' BY <1>1
<1>10. QED BY <1>1, <1>2, <1>3, <1>4, <1>5, <1>6, <1>7, <1>8, <1>9, EndsMoves

(* A job on the hardware is that of the core thread of its first core. *)
LEMMA FirstCoreRuns ==
  ASSUME Inv, Sound, NEW x \in Cores, NEW k \in jobs[x]
  PROVE  \E d \in Cores : /\ Running(d) /\ k = JobOf(d)
                          /\ d = FirstCore({y \in Cores : k \in jobs[y]})
<1>1. PICK d \in Cores : /\ Running(d) /\ k = JobOf(d)
                         /\ \A y \in tcb[core[d].slot].cores : k \in jobs[y]
  BY DEF Sound, JobsCarried
<1>2. PICK s \in Slots : s = core[d].slot BY <1>1 DEF Running, Inv, Pointers
<1>3. tcb[s].cores \subseteq Cores /\ d = FirstCore(tcb[s].cores)
  <2>1. CoreHas(d, s) BY <1>1, <1>2 DEF Running, CoreHas, WorksOn
  <2>2. QED BY <2>1 DEF Sound, Base, Flags, CoresMarked, Inv, TypeOK, TCBs
<1>4. \A y \in Cores : k \in jobs[y] => y \in tcb[s].cores
  <2>1. ASSUME NEW y \in Cores, k \in jobs[y] PROVE y \in tcb[s].cores
    <3>1. PICK e \in Cores : Running(e) /\ y \in tcb[core[e].slot].cores /\ k = JobOf(e)
      BY <2>1 DEF Sound, JobsCarried
    <3>2. tcb[core[d].slot].task = tcb[core[e].slot].task BY <1>1, <3>1 DEF JobOf, Job
    <3>3. d = e BY <1>1, <3>1, <3>2, RunsAlone DEF Sound
    <3>4. QED BY <1>2, <3>1, <3>3
  <2>2. QED BY <2>1
<1>5. {y \in Cores : k \in jobs[y]} = tcb[s].cores BY <1>1, <1>2, <1>3, <1>4
<1>6. QED BY <1>1, <1>3, <1>5

(* What vipdrv_hw_cancel stops is counted among the raced, but for the job *)
(* of the process itself, which has no other job; and whoever is told of   *)
(* it by an interrupt had a job that was stopped.                          *)
LEMMA CancelOnHardwareSound ==
  ASSUME Inv, Inv', ExitTypes, Sound, NEW h \in Handles, CancelOnHardware(h)
  PROVE  Sound'
<1> DEFINE need == tcb[release[h].slot].cores
           stopped == UNION {jobs[c] : c \in need}
           Fails == /\ overran' = overran \cup {h}
                    /\ UNCHANGED <<jobs, irq, raced>>
           Stops == /\ jobs' = [c \in Cores |-> jobs[c] \ stopped]
                    /\ \E told \in SUBSET stopped :
                         irq' = [c \in Cores |-> irq[c] \/ \E j \in told :
                                                   c = FirstCore({d \in Cores : j \in jobs[d]})]
                    /\ raced' = raced \cup ({j[1] : j \in stopped} \ {h})
                    /\ UNCHANGED overran
<1>1. /\ release[h].pc = "cancel" /\ Goes(h, "clear")
      /\ UNCHANGED <<node, tcb, queue, submit_signal, daemon, dispatch, tcb_index, run_signal, core,
                     user, canceller, finished>>
      /\ Fails \/ Stops
  BY DEF CancelOnHardware, table, history
<1>2. /\ ~Alive(h) /\ Live(h) /\ release[h].pc \in HasTask \ {"ref"} /\ release[h].pc \notin Cleared
      /\ "clear" \in HasTask \ {"ref"}
      /\ "clear" \notin Cleared \cup {"alive", "cancel", "wait_idle", "ref"}
  BY <1>1 DEF Alive, Live, Cleared, HasTask
<1>3. user[h].pc = "out" /\ user' = [user EXCEPT ![h].pc = "out"] BY <1>1, <1>2, CleanUpTells
<1>4. \A s \in Slots : node[s].handle = h => ~node[s].remove BY <1>1, <1>2, <1>3, Unmarked
<1> DEFINE r == [release[h] EXCEPT !.pc = "clear"]
<1>5. /\ r.pc = "clear" /\ r.slot = release[h].slot /\ release' = [release EXCEPT ![h] = r]
      /\ release'[h] = r
  BY <1>1, GoesTells
<1> HIDE DEF r
<1>6. ~Removed(h)' BY <1>1, <1>2, <1>3, <1>5 DEF Removed
<1>7. CASE Fails
  <2>1. overran \subseteq overran' /\ h \in overran' BY <1>7
  <2>2. UNCHANGED <<jobs, irq, raced>> BY <1>7
  <2>3. /\ r.pc \notin Cleared \cup {"alive", "cancel", "wait_idle", "ref"}
        /\ r.pc \in HasTask \ {"ref"}
    BY <1>2, <1>5
  <2>4. UNCHANGED <<node, tcb, queue, submit_signal, daemon, dispatch, tcb_index, run_signal, core,
                    canceller, finished>>
    BY <1>1
  <2> HIDE DEF Fails, Stops
  <2>5. QED BY <1>2, <1>3, <1>4, <1>5, <1>6, <2>1, <2>2, <2>3, <2>4, EndsMoves
<1>8. CASE Stops
  <2>1. PICK s \in Slots : s = release[h].slot BY <1>2 DEF ExitTypes
  <2>2. node[s].handle = h /\ need = tcb[s].cores BY <1>2, <2>1 DEF Sound, SlotsOwned
  <2>3. need \subseteq Cores BY <2>1, <2>2 DEF Inv, TypeOK, TCBs
  <2>4. PICK told \in SUBSET stopped :
          irq' = [c \in Cores |-> irq[c] \/ \E j \in told :
                                    c = FirstCore({d \in Cores : j \in jobs[d]})]
    BY <1>8
  <2>5. /\ \A x \in Cores : jobs'[x] = jobs[x] \ stopped
        /\ raced' = raced \cup ({j[1] : j \in stopped} \ {h})
        /\ UNCHANGED overran
    BY <1>8
  <2>6. \A j \in told : \E x \in Cores : j \in jobs[x] BY <2>3
  <2>7. \A j \in told : j \in stopped /\ j[1] \in raced' \cup {h} BY <2>5
  <2>8. \A x \in Cores : x \in need => jobs[x] \subseteq stopped OBVIOUS
  <2> HIDE DEF stopped, need, Fails, Stops
  <2>9. ASSUME NEW c \in Cores, irq'[c], ~irq[c]
        PROVE  Running(c) /\ \E k \in told : k = JobOf(c)
    <3>1. PICK k \in told : c = FirstCore({d \in Cores : k \in jobs[d]}) BY <2>4, <2>9
    <3>2. PICK d \in Cores : /\ Running(d) /\ k = JobOf(d)
                             /\ d = FirstCore({y \in Cores : k \in jobs[y]})
      BY <2>6, FirstCoreRuns
    <3>3. QED BY <3>1, <3>2
  <2>10. Ends(h)
    <3>1. SameTasks /\ HandlesFall BY <1>1 DEF SameTasks, HandlesFall
    <3>2. raced \subseteq raced' /\ overran \subseteq overran' /\ r.pc # "alive"
      BY <1>2, <1>5, <2>5
    <3>3. QED BY <1>1, <1>2, <1>3, <1>5, <3>1, <3>2, EndsFrame
  <2>11. \A c \in Cores : JobOf(c)' = JobOf(c) BY <1>1 DEF JobOf, Job
  <2>12. JobsCarried'
    <3>1. ASSUME NEW x \in Cores, NEW j \in jobs'[x]
          PROVE  \E c \in Cores : /\ Running(c)' /\ x \in tcb'[core'[c].slot].cores /\ j = JobOf(c)'
                                  /\ \A y \in tcb'[core'[c].slot].cores : j \in jobs'[y]
      <4>1. j \in jobs[x] /\ j \notin stopped BY <3>1, <2>5
      <4>2. PICK c \in Cores : /\ Running(c) /\ x \in tcb[core[c].slot].cores /\ j = JobOf(c)
                               /\ \A y \in tcb[core[c].slot].cores : j \in jobs[y]
        BY <4>1 DEF Sound, JobsCarried
      <4>3. ~irq'[c] BY <2>7, <2>9, <4>1, <4>2 DEF Running
      <4>4. Running(c)' BY <1>1, <4>2, <4>3 DEF Running
      <4>5. tcb[core[c].slot].cores \subseteq Cores
        <5>1. core[c].slot \in Slots BY <4>2 DEF Running, Inv, Pointers
        <5>2. QED BY <5>1 DEF Inv, TypeOK, TCBs
      <4>6. \A y \in tcb[core[c].slot].cores : j \in jobs'[y] BY <2>5, <4>1, <4>2, <4>5
      <4>7. QED BY <1>1, <2>11, <4>2, <4>4, <4>6
    <3>2. QED BY <3>1 DEF JobsCarried
  <2>13. DoneIfTrusted'
    <3>1. DoneIfTrusted BY DEF Sound
    <3>2. \A c \in Cores : irq'[c] => core'[c].pc = "irq"
      BY <1>1, <2>9, <3>1 DEF DoneIfTrusted, Running
    <3>3. ASSUME NEW c \in Cores, NEW t \in Handles,
                 irq'[c] \/ (core'[c].pc = "result" /\ core'[c].status = "SUCCESS"),
                 tcb'[core'[c].slot].task = t, Trusted(t)'
          PROVE  finished'[t]
      <4>1. Trusted(t) /\ t # h /\ t \notin raced' BY <3>3, <2>10, EndsTells DEF Trusted
      <4>2. ~(irq'[c] /\ ~irq[c])
        <5>1. ASSUME irq'[c], ~irq[c] PROVE FALSE
          <6>1. PICK k \in told : k = JobOf(c) BY <2>9, <5>1
          <6>2. k[1] = t BY <1>1, <3>3, <6>1 DEF JobOf, Job
          <6>3. QED BY <2>7, <4>1, <6>2
        <5>2. QED BY <5>1
      <4>3. QED BY <1>1, <3>1, <3>3, <4>1, <4>2 DEF DoneIfTrusted
    <3>4. \A g \in Handles : Trusted(g)' /\ Reports(g)' => finished'[g]
      <4>1. \A g \in Handles : Reports(g)' <=> Reports(g) BY <1>1 DEF Reports
      <4>2. QED BY <1>1, <2>10, <3>1, <4>1, EndsTells DEF DoneIfTrusted
    <3>5. \A c \in Cores, t \in Handles :
            (irq'[c] \/ (core'[c].pc = "result" /\ core'[c].status = "SUCCESS"))
              /\ tcb'[core'[c].slot].task = t /\ Trusted(t)' => finished'[t]
      BY <3>3
    <3>6. QED BY <3>2, <3>4, <3>5 DEF DoneIfTrusted
  <2>14. JobsStopped'
    <3>1. \A g : OnHardware(g)' => OnHardware(g) BY <2>5 DEF OnHardware
    <3>2. ~OnHardware(h)'
      <4>1. ASSUME OnHardware(h)' PROVE FALSE
        <5>1. PICK x \in Cores : \E j \in jobs'[x] : j[1] = h BY <4>1 DEF OnHardware
        <5>2. PICK j \in jobs'[x] : j[1] = h BY <5>1
        <5>3. j \in jobs[x] /\ j \notin stopped BY <5>2, <2>5
        <5>4. PICK t \in Slots : node[t].handle = h /\ x \in tcb[t].cores
          BY <1>2, <5>2, <5>3, JobIsHis
        <5>5. t = s BY <1>2, <2>1, <5>4, HisSlot
        <5>6. QED BY <2>2, <2>8, <5>3, <5>4, <5>5
      <4>2. QED BY <4>1
    <3>3. ASSUME NEW g \in Handles, release'[g].pc \in {"clear"} \cup Cleared, OnHardware(g)'
          PROVE  g \in raced' \cup overran'
      <4>1. g # h /\ OnHardware(g) BY <3>1, <3>2, <3>3
      <4>2. g \in raced \cup overran BY <2>10, <3>3, <4>1 DEF Ends, Sound, JobsStopped
      <4>3. QED BY <2>5, <4>2
    <3>4. QED BY <3>3 DEF JobsStopped
  <2>15. Counted'
    <3>1. ASSUME NEW x \in Slots PROVE Held(x)' = Held(x)
      <4>1. HoldsOf(h, x)' <=> HoldsOf(h, x) BY <1>2, <1>5 DEF HoldsOf
      <4>2. HoldsOf(h, x) => node[x].handle = h BY <2>1, <2>2 DEF HoldsOf
      <4>3. Held(x)' = Held(x) + One(HoldsOf(h, x)') - One(HoldsOf(h, x))
        BY <2>10, <4>1, <4>2, EndsHolds
      <4>4. One(HoldsOf(h, x)') = One(HoldsOf(h, x)) BY <4>1 DEF One
      <4>5. Held(x) \in Nat /\ One(HoldsOf(h, x)) \in Nat BY HeldIs DEF One
      <4>6. QED BY <4>3, <4>4, <4>5
    <3>2. QED BY <1>1, <3>1, CountedKept DEF Sound
  <2>16. release'[h].pc = "clear" /\ node'[release'[h].slot].handle = h /\ Live(h)'
    BY <1>1, <1>2, <1>5, <2>1, <2>2 DEF Live
  <2>17. \A x \in Slots : node'[x].handle = node[x].handle /\ tcb'[x] = tcb[x] BY <1>1
  <2>18. \A x \in Slots : node'[x].handle = h => ~node'[x].remove BY <1>1, <1>4
  <2>19. QED
    BY <1>6, <2>10, <2>12, <2>13, <2>14, <2>15, <2>16, <2>17, <2>18, EndsSound
<1>9. QED BY <1>1, <1>7, <1>8

LEMMA SoundStays ==
  ASSUME Sound, UNCHANGED <<node, tcb, queue, submit_signal, daemon, dispatch, tcb_index, run_signal,
                            irq, core, jobs, user, canceller, finished, release, raced, overran>>
  PROVE  Sound'
<1>1. \A h : /\ Alive(h)' <=> Alive(h)
             /\ Live(h)' <=> Live(h)
             /\ Removed(h)' <=> Removed(h)
             /\ Trusted(h)' <=> Trusted(h)
             /\ OnHardware(h)' <=> OnHardware(h)
             /\ Reports(h)' <=> Reports(h)
  BY DEF Alive, Live, Removed, Trusted, OnHardware, Reports
<1>2. \A s : /\ Carried(s)' <=> Carried(s)
             /\ Unstarted(s)' <=> Unstarted(s)
             /\ Going(s)' <=> Going(s)
             /\ InQueue(s)' <=> InQueue(s)
             /\ Used(s)' <=> Used(s)
             /\ Held(s)' = Held(s)
             /\ \A c \in Cores : Owns(c, s)' <=> Owns(c, s)
  BY DEF Carried, Unstarted, Going, InQueue, AtDaemon, CoreHas, HandedTo, WorksOn, Owns, Used, Held,
         UserHolds, DaemonHolds, Handed, CoreHolds, ReleaseHolds
<1>3. \A c : (Running(c)' <=> Running(c)) /\ JobOf(c)' = JobOf(c) BY DEF Running, JobOf, Job
<1>4. Base'
  BY DEF Sound, Base, Placed, OnePlace, CoreSlots, Flags, CoresMarked, FlagFree, Owners, Carried,
         InQueue, AtDaemon, CoreHas, HandedTo, WorksOn, Owns
<1>5. SlotsOwned' /\ TasksOwned' BY <1>1, <1>2 DEF Sound, SlotsOwned, TasksOwned
<1>6. StatusOf' /\ Uncancelled' BY <1>1, <1>2 DEF Sound, StatusOf, Uncancelled
<1>7. Counted' /\ MarksOwned' BY <1>2 DEF Sound, Counted, MarksOwned
<1>8. JobsCarried' /\ DoneIfTrusted' /\ JobsStopped'
  BY <1>1, <1>3 DEF Sound, JobsCarried, DoneIfTrusted, JobsStopped
<1>9. Wakes'
  <2>1. Pend' <=> Pend BY DEF Pend
  <2>2. QED BY <1>1, <1>2, <2>1 DEF Sound, Wakes
<1>10. QED BY <1>4, <1>5, <1>6, <1>7, <1>8, <1>9 DEF Sound

-----------------------------------------------------------------------------
(* The clean-up as a whole, while the threads run. *)
LEMMA EndSound ==
  ASSUME Inv, Inv', ExitTypes, Sound, running', NEW h \in Handles, Release(h) \/ CleanUp(h)
  PROVE  Sound'
<1>1. ~Stopped(h)
  <2>1. ASSUME Stopped(h) PROVE FALSE
    <3>1. release[h].pc = "stop" /\ running' = running BY <2>1 DEF Stopped
    <3>2. QED BY <3>1 DEF ExitTypes
  <2>2. QED BY <2>1
<1>2. CASE Destroy(h) \/ FreeMemory(h) BY <1>2, MemoryGoesSound
<1>3. QED
  BY <1>1, <1>2, ReleaseSound, FindTaskSound, RefTaskSound, LookAtTaskSound, CancelOnHardwareSound,
     WaitIdleSound, ClearTaskSound, RemoveTaskSound, UnuseTaskSound
     DEF CleanUp

(* vipdrv_task_pre_uninit: the last process tells the threads to stop when *)
(* all others are gone, and all tasks and jobs with them.                  *)
LEMMA LastEnds ==
  ASSUME Inv, ExitTypes, Sound, NEW h \in Handles, Destroy(h), process_id' = {}
  PROVE  Halted'
<1>1. /\ release[h].pc = "destroy" /\ Goes(h, "stop") /\ process_id' = process_id \ {h}
      /\ UNCHANGED <<tcb, jobs, raced, overran>>
  BY DEF Destroy, table, exitHistory
<1>2. release'[h].pc = "stop" /\ \A g \in Handles : g # h => release'[g] = release[g]
  BY <1>1 DEF Goes, ExitTypes
<1>3. \A g \in Handles : g # h => release[g].pc \in {"stop", "gone"} BY <1>1 DEF ExitTypes
<1>4. \A g \in Handles : release[g].pc \in Cleared BY <1>1, <1>3 DEF Cleared
<1>5. \A s \in Slots : tcb[s].status # "READY"
  <2>1. ASSUME NEW s \in Slots, tcb[s].status = "READY" PROVE FALSE
    <3>1. Carried(s) BY <2>1 DEF Sound, StatusOf
    <3>2. PICK t \in Handles : tcb[s].task = t BY <3>1 DEF Sound, Base, Owners
    <3>3. ~Live(t) BY <1>4 DEF Live
    <3>4. QED BY <2>1, <3>1, <3>2, <3>3 DEF Sound, TasksOwned
  <2>2. QED BY <2>1
<1>6. \A g \in Handles : OnHardware(g)' => g \in raced' \cup overran'
  BY <1>1, <1>4 DEF Sound, JobsStopped, OnHardware
<1>7. QED BY <1>1, <1>2, <1>3, <1>5, <1>6 DEF Halted

-----------------------------------------------------------------------------
(* The threads that have not noticed yet find no task to start. *)
LEMMA NothingReady ==
  ASSUME Inv, Halted, Daemon \/ (\E c \in Cores : CoreThread(c)) \/ (\E h \in Handles : HardwareDone(h))
  PROVE  /\ \A s \in Slots : tcb'[s].status # "READY"
         /\ \A h : OnHardware(h)' => OnHardware(h)
<1>1. tcb \in [Slots -> TCBs] BY DEF Inv, TypeOK
<1>2. \A s \in Slots : tcb[s].status # "READY" BY DEF Halted
<1>3. CASE UNCHANGED <<tcb, jobs>> BY <1>2, <1>3 DEF OnHardware
<1>4. CASE Daemon
  <2>1. CASE DaemonUnuse
    <3>1. UNCHANGED jobs BY <2>1 DEF DaemonUnuse, hwVars
    <3>2. tcb' = tcb \/ tcb' = [tcb EXCEPT ![daemon.slot].wake = TRUE]
      BY <2>1 DEF DaemonUnuse, Unuse
    <3>3. QED BY <1>1, <1>2, <3>1, <3>2 DEF OnHardware, TCBs
  <2>2. QED
    BY <1>3, <1>4, <2>1 DEF Daemon, DaemonAwake, DaemonQuery, DaemonRead, DaemonGet, DaemonCheck,
                            DaemonRemove, DaemonDispatch, table, hwVars
<1>5. CASE \E c \in Cores : CoreThread(c)
  <2>1. PICK c \in Cores : CoreThread(c) BY <1>5
  <2>2. ~CoreSubmit(c)
    <3>1. core[c].pc = "submit" => core[c].slot \in Slots BY DEF Inv, Pointers
    <3>2. QED BY <1>2, <3>1 DEF CoreSubmit
  <2>3. CASE CoreResult(c) \/ CoreEnd(c) \/ CoreInherit(c) \/ CoreUnuse(c)
    <3>1. UNCHANGED jobs BY <2>3 DEF CoreResult, CoreEnd, CoreInherit, CoreUnuse
    <3>2. \/ tcb' = tcb
          \/ tcb' = [tcb EXCEPT ![core[c].slot].wake = TRUE]
          \/ tcb' = [tcb EXCEPT ![core[c].slot].v2 = core[c].status]
          \/ tcb' = [tcb EXCEPT ![core[c].slot].status = "INFER_END"]
      BY <2>3 DEF CoreResult, CoreEnd, CoreInherit, CoreUnuse, Unuse
    <3>3. \A s \in Slots : tcb'[s].status # "READY" BY <1>1, <1>2, <3>2 DEF TCBs
    <3>4. QED BY <3>1, <3>3 DEF OnHardware
  <2>4. CASE CoreGet(c)
    <3>1. UNCHANGED <<tcb, jobs>> BY <2>4, CoreGetTakes DEF CoreGet
    <3>2. QED BY <1>3, <3>1
  <2>5. QED
    BY <1>3, <2>1, <2>2, <2>3, <2>4 DEF CoreThread, CoreAwake, CoreSkip, CoreRemove, CoreIrq,
                                        CoreTimeOut, CoreFree, CoreSignal, table
<1>6. CASE \E h \in Handles : HardwareDone(h)
  <2>1. UNCHANGED tcb /\ \A x \in Cores : jobs'[x] \subseteq jobs[x]
    BY <1>6 DEF HardwareDone, table
  <2>2. QED BY <1>2, <2>1 DEF OnHardware
<1>7. QED BY <1>4, <1>5, <1>6

LEMMA HaltedStays ==
  ASSUME Inv, ExitTypes, Halted, [ExitNext]_exitVars
  PROVE  Halted'
<1>1. \A h \in Handles : release[h].pc \in {"stop", "gone"} /\ ~Alive(h) BY DEF Halted, Alive
<1>2. CASE UNCHANGED <<release, tcb, jobs, raced, overran>> BY <1>2 DEF Halted, OnHardware
<1>3. CASE Meanwhile(Next)
  <2>1. /\ Next /\ UNCHANGED <<release, overran>>
        /\ raced \subseteq raced'
    BY <1>3 DEF Meanwhile, lifecycle
  <2>2. \A h \in Handles : /\ user'[h] = user[h] /\ canceller'[h] = canceller[h]
                           /\ user[h].pc = "out" /\ canceller[h].pc = "out"
    BY <1>1, <1>3 DEF Meanwhile, ProcessesAlive, ExitTypes
  <2>3. ASSUME NEW h \in Handles, SubmitInsert(h) \/ Submit(h) \/ Wait(h) PROVE FALSE
    <3>1. ~Submit(h) /\ ~Wait(h)
      BY <2>2 DEF Submit, SubmitGet, SubmitEnqueue, SubmitUnuse, SubmitSignal, Wait, WaitFind,
                  WaitRef, WaitCheck, WaitWoken, WaitRemove, WaitLeave
    <3>2. SubmitInsert(h) => user'[h].left = user[h].left - 1 /\ user[h].left \in Nat
      BY DEF SubmitInsert, Inv, TypeOK, Users
    <3>3. QED BY <2>2, <2>3, <3>1, <3>2
  <2>4. ASSUME NEW h \in Handles, CancelFind(h) \/ Cancel(h) PROVE FALSE
    <3>1. ~Cancel(h)
      BY <2>2 DEF Cancel, CancelRef, CancelReady, CancelClean, CancelRunning, CancelWaited,
                  CancelHardware, CancelAwait, CancelWoken, CancelOther, CancelRemove, CancelUnuse
    <3>2. CancelFind(h) => canceller'[h].pc = "ref" BY DEF CancelFind, Inv, TypeOK
    <3>3. QED BY <2>2, <2>4, <3>1, <3>2
  <2>5. /\ \A s \in Slots : tcb'[s].status # "READY"
        /\ \A h : OnHardware(h)' => OnHardware(h)
    BY <2>1, <2>3, <2>4, NothingReady DEF Next
  <2>6. QED BY <2>1, <2>5 DEF Halted
<1>4. CASE \E h \in Exiting : Release(h) \/ CleanUp(h)
  <2>1. PICK h \in Handles : Release(h) \/ CleanUp(h) BY <1>4, ExitAssumption
  <2>2. Stopped(h)
    BY <1>1, <2>1 DEF Release, CleanUp, FindTask, RefTask, LookAtTask, CancelOnHardware, WaitIdle,
                      ClearTask, RemoveTask, UnuseTask, FreeMemory, Destroy
  <2>3. UNCHANGED <<tcb, jobs, raced, overran>> BY <2>2 DEF Stopped, vars, exitHistory
  <2>4. \A g \in Handles : release'[g].pc \in {"stop", "gone"}
    BY <1>1, <2>2 DEF Stopped, Goes, ExitTypes
  <2>5. QED BY <2>3, <2>4 DEF Halted, OnHardware
<1>5. QED BY <1>2, <1>3, <1>4 DEF ExitNext, DaemonExit, CoreExit, exitVars, vars, exitHistory, lifecycle

-----------------------------------------------------------------------------
(* What a clean-up assumes to be so has been so all along. *)
LEMMA OrderlyBefore ==
  ASSUME [ExitNext]_exitVars, Orderly'
  PROVE  Orderly
<1>1. CASE UNCHANGED <<cancel_found, struck>> BY <1>1 DEF Orderly
<1>2. CASE Meanwhile(Next)
  <2>1. cancel_found \subseteq cancel_found' BY <1>2, CancelFoundGrows DEF Meanwhile
  <2>2. struck \subseteq struck' BY <1>2 DEF Meanwhile
  <2>3. QED BY <2>1, <2>2 DEF Orderly
<1>3. CASE \E h \in Exiting : Release(h) \/ CleanUp(h)
  BY <1>1, <1>3 DEF Release, CleanUp, FindTask, RefTask, LookAtTask, CancelOnHardware, WaitIdle,
                    ClearTask, RemoveTask, UnuseTask, FreeMemory, Destroy, Stopped, vars, history,
                    exitHistory
<1>4. QED
  BY <1>1, <1>2, <1>3 DEF ExitNext, DaemonExit, CoreExit, exitVars, vars, exitHistory

LEMMA ExitStep == ExitInv /\ [ExitNext]_exitVars => ExitInv'
<1> SUFFICES ASSUME ExitInv, [ExitNext]_exitVars PROVE ExitInv' OBVIOUS
<1>1. Inv /\ Inv' /\ ExitTypes /\ ExitTypes' BY ExitNextInv, ExitNextTypes DEF ExitInv
<1>2. ASSUME Orderly' PROVE (running' => Sound') /\ (~running' => Halted')
  <2>1. (running => Sound) /\ (~running => Halted) BY <1>2, OrderlyBefore DEF ExitInv
  <2>2. running \in BOOLEAN BY <1>1 DEF ExitTypes
  <2>3. CASE ~running
    <3>1. Halted' BY <1>1, <2>1, <2>3, HaltedStays
    <3>2. ~running'
      <4>1. CASE UNCHANGED running BY <2>3, <4>1
      <4>2. CASE \E h \in Exiting : Destroy(h) BY <4>2, <2>3 DEF Destroy
      <4>3. QED
        BY <4>1, <4>2 DEF ExitNext, Meanwhile, Release, CleanUp, FindTask, RefTask, LookAtTask,
                          CancelOnHardware, WaitIdle, ClearTask, RemoveTask, UnuseTask, FreeMemory,
                          Stopped, DaemonExit, CoreExit, exitVars, lifecycle
    <3>3. QED BY <3>1, <3>2
  <2>4. CASE running
    <3>1. Sound BY <2>1, <2>4
    <3>2. CASE UNCHANGED exitVars
      <4>1. UNCHANGED <<node, tcb, queue, submit_signal, daemon, dispatch, tcb_index, run_signal,
                        irq, core, jobs, user, canceller, finished, release, raced, overran, running>>
        BY <3>2 DEF exitVars, vars, lifecycle, exitHistory
      <4>2. Sound' BY <3>1, <4>1, SoundStays
      <4>3. QED BY <2>4, <4>1, <4>2
    <3>3. CASE Meanwhile(Next)
      <4>1. Sound' BY <1>1, <1>2, <3>1, <3>3, MeanwhileSound
      <4>2. running' BY <2>4, <3>3 DEF Meanwhile, lifecycle
      <4>3. QED BY <4>1, <4>2
    <3>4. CASE \E h \in Exiting : Release(h) \/ CleanUp(h)
      <4>1. PICK h \in Handles : Release(h) \/ CleanUp(h) BY <3>4, ExitAssumption
      <4>2. CASE running' BY <1>1, <3>1, <4>1, <4>2, EndSound
      <4>3. CASE ~running'
        <5>1. Destroy(h) /\ process_id' = {}
          BY <2>4, <4>1, <4>3 DEF Release, CleanUp, FindTask, RefTask, LookAtTask, CancelOnHardware,
                                  WaitIdle, ClearTask, RemoveTask, UnuseTask, FreeMemory, Destroy,
                                  Stopped
        <5>2. QED BY <1>1, <3>1, <4>3, <5>1, LastEnds
      <4>4. QED BY <4>2, <4>3
    <3>5. QED BY <2>4, <3>2, <3>3, <3>4 DEF ExitNext, DaemonExit, CoreExit
  <2>5. QED BY <2>2, <2>3, <2>4
<1>3. QED BY <1>1, <1>2 DEF ExitInv

LEMMA ExitInitInv == ExitInit => ExitInv
<1> SUFFICES ASSUME ExitInit PROVE ExitInv OBVIOUS
<1>1. Inv /\ ExitTypes BY ExitInitTypes
<1>2. Base /\ NoHandle \notin Handles
  BY InitSteady, DispatchAssumption DEF ExitInit, Steady, DispatchAssumption
<1>3. /\ \A h \in Handles : /\ release[h].pc = "alive" /\ Live(h) /\ ~Removed(h)
                            /\ user[h].pc = "out" /\ user[h].result = "SUCCESS" /\ finished[h]
                            /\ canceller[h].pc = "out"
      /\ \A s \in Slots : /\ node[s].handle = NoHandle /\ ~node[s].remove /\ node[s].ref = 0
                          /\ tcb[s].status = "EMPTY"
                          /\ queue[s] = 0
      /\ daemon.pc = "sleep"
      /\ \A c \in Cores : /\ core[c].pc = "sleep" /\ core[c].status = "SUCCESS" /\ ~dispatch[c]
                          /\ ~run_signal[c] /\ ~irq[c] /\ jobs[c] = {}
      /\ running
  BY DEF ExitInit, Init, Live, Removed, Cleared
<1>4. \A s \in Slots : ~Carried(s) /\ ~Going(s) /\ ~InQueue(s)
  BY <1>3 DEF Carried, Going, InQueue, AtDaemon, CoreHas, HandedTo, WorksOn
<1>5. \A s \in Slots : Held(s) = 0
  BY <1>3 DEF Held, UserHolds, DaemonHolds, Handed, HandedTo, CoreHolds, ReleaseHolds, HasTask,
              Holding, One
<1>6. SlotsOwned BY <1>2, <1>3 DEF SlotsOwned, HasTask
<1>7. TasksOwned /\ StatusOf /\ Uncancelled
  BY <1>3, <1>4 DEF TasksOwned, StatusOf, Uncancelled, Waiting
<1>8. Counted BY <1>2, <1>3, <1>5 DEF Counted, Used
<1>9. MarksOwned /\ JobsCarried /\ JobsStopped
  BY <1>3 DEF MarksOwned, JobsCarried, JobsStopped, OnHardware
<1>10. DoneIfTrusted BY <1>3 DEF DoneIfTrusted
<1>11. Wakes BY <1>3, <1>4 DEF Wakes, Waiting
<1>12. QED
  BY <1>1, <1>2, <1>3, <1>6, <1>7, <1>8, <1>9, <1>10, <1>11 DEF Sound, ExitInv

(* In every reachable state in which no cancel has found a task and no     *)
(* submission has met a leftover entry: the threads are where the places   *)
(* of their tasks say, though slots are taken from under them; the tasks   *)
(* of live processes are theirs, counted and READY until started; those of *)
(* the others are never READY; and from vipdrv_task_pre_uninit on nothing  *)
(* is started.                                                             *)
THEOREM ExitInvariant == ExitSpec => []ExitInv
<1>1. QED BY ExitInitInv, ExitStep, PTL DEF ExitSpec

(* The hardware executes the commands of a process only while their memory *)
(* exists, except for a task started after the clean-up's look at its      *)
(* status and for a job it could neither stop nor wait for                 *)
(* (vip_drv_interface.c:1003-1006).                                        *)
THEOREM MemoryOutlivesJobs == ExitSpec => []JobHasMemory
<1>1. ExitInv => JobHasMemory
  <2> SUFFICES ASSUME ExitInv, Orderly, NEW h \in Handles, OnHardware(h)
               PROVE  h \in memory \cup raced \cup overran
    BY DEF JobHasMemory
  <2>1. CASE running
    <3>1. release[h].pc \in Cleared => h \in raced \cup overran
      BY <2>1 DEF ExitInv, Sound, JobsStopped
    <3>2. release[h].pc \notin Cleared => h \in memory BY DEF ExitInv, ExitTypes, Cleared
    <3>3. QED BY <3>1, <3>2
  <2>2. CASE ~running BY <2>2 DEF ExitInv, Halted
  <2>3. QED BY <2>1, <2>2
<1>2. QED BY <1>1, ExitInvariant, PTL

(* The end of a process does not disturb the task of another: when a call  *)
(* of a process that goes on has returned, its task was not cancelled, is  *)
(* not on the hardware, and was finished if it is said to be, unless its   *)
(* job was stopped in the place of one that had ended                      *)
(* (vip_drv_task_descriptor.c:488).                                        *)
THEOREM StrangersGoOn == ExitSpec => []StrangersUntouched
<1>1. ExitInv => StrangersUntouched
  <2> SUFFICES ASSUME ExitInv, Orderly, NEW h \in Handles, Alive(h), user[h].pc = "out"
               PROVE  /\ user[h].result # "CANCELED" /\ ~OnHardware(h)
                      /\ user[h].result = "SUCCESS" /\ h \notin raced => finished[h]
    BY DEF StrangersUntouched
  <2>1. running /\ Sound BY DEF ExitInv, Halted, Alive
  <2>2. Live(h) BY DEF Live, Alive, Cleared
  <2>3. user[h].result # "CANCELED" BY <2>1 DEF Sound, Uncancelled
  <2>4. ~OnHardware(h)
    <3>1. \A s \in Slots : node[s].handle # h BY <2>1 DEF Sound, SlotsOwned
    <3>2. QED BY <2>1, <2>2, <3>1, JobIsHis DEF OnHardware, ExitInv
  <2>5. user[h].result = "SUCCESS" /\ h \notin raced => finished[h]
    BY <2>1 DEF Sound, DoneIfTrusted, Trusted, Reports
  <2>6. QED BY <2>3, <2>4, <2>5
<1>2. QED BY <1>1, ExitInvariant, PTL

(* Threads that rest, and that nobody is about to wake, have left nothing. *)
LEMMA RestingLeavesNothing ==
  ASSUME Inv, ExitTypes, Sound, Resting
  PROVE  /\ \A s \in Slots : queue[s] = 0
         /\ \A c \in Cores : ~dispatch[c]
         /\ \A h \in Handles : user[h].pc = "block" => tcb[user[h].slot].wake
         /\ \A s \in Slots : Used(s) => /\ Alive(node[s].handle)
                                        /\ user[node[s].handle].pc # "out"
<1>1. ~Pend BY DEF Pend, Resting
<1>2. \A s \in Slots : queue[s] = 0
  <2>1. \A s \in Slots : ~InQueue(s) BY <1>1 DEF Sound, Wakes, Resting
  <2>2. QED BY <2>1 DEF InQueue, Inv, TypeOK
<1>3. \A s \in Slots, c \in Cores : ~HandedTo(c, s) /\ ~WorksOn(c, s)
  BY DEF HandedTo, WorksOn, Resting
<1>4. \A s \in Slots : ~Carried(s)
  BY <1>2, <1>3 DEF Carried, InQueue, AtDaemon, CoreHas, Resting
<1>5. \A c \in Cores : ~dispatch[c] BY <1>3 DEF Sound, MarksOwned, Owns
<1>6. \A h \in Handles : user[h].pc = "block" => tcb[user[h].slot].wake
  <2>1. \A h \in Handles : user[h].pc = "block" => user[h].slot \in Slots BY DEF Inv, Pointers
  <2>2. QED BY <1>4, <2>1 DEF Sound, Wakes, Waiting
<1>7. ASSUME NEW s \in Slots, Used(s)
      PROVE  Alive(node[s].handle) /\ user[node[s].handle].pc # "out"
  <2>1. PICK h \in Handles : node[s].handle = h BY <1>7 DEF Used, Inv, TypeOK, Nodes
  <2>2. Alive(h)
    <3>1. ASSUME release[h].pc = "gone" PROVE FALSE
      <4>1. node[s].remove BY <2>1, <3>1 DEF Sound, SlotsOwned, Removed, Cleared
      <4>2. Held(s) # 0 BY <1>7, <4>1 DEF Sound, Counted
      <4>3. ~DaemonHolds(s) /\ ~Handed(s) /\ ~CoreHolds(s)
        BY <1>3 DEF DaemonHolds, Handed, CoreHolds, Resting
      <4>4. ~ReleaseHolds(s) BY DEF ReleaseHolds, Resting, HasTask
      <4>5. ~UserHolds(s)
        <5>1. ASSUME NEW g \in Handles, user[g].slot = s, user[g].pc \in Holding PROVE FALSE
          <6>1. user[g].pc # "out" BY <5>1 DEF Holding
          <6>2. g = h BY <2>1, <5>1, <6>1 DEF Sound, SlotsOwned
          <6>3. QED BY <3>1, <6>1, <6>2 DEF ExitTypes, Alive
        <5>2. QED BY <5>1 DEF UserHolds
      <4>6. QED BY <4>2, <4>3, <4>4, <4>5 DEF Held, One
    <3>2. QED BY <3>1 DEF Resting, Alive
  <2>3. user[h].pc # "out" BY <2>1, <2>2 DEF Sound, SlotsOwned
  <2>4. QED BY <2>1, <2>2, <2>3
<1>8. QED BY <1>2, <1>5, <1>6, <1>7

(* No end of a process leaves anything behind that only the threads could  *)
(* clear away, nor anybody waiting for threads that rest, and the threads  *)
(* are not stopped while a process is left (vip_drv_interface.c:284).      *)
THEOREM NothingStaysBehind == ExitSpec => []NobodyLeftWaiting
<1>1. ExitInv => NobodyLeftWaiting
  <2> SUFFICES ASSUME ExitInv PROVE NobodyLeftWaiting OBVIOUS
  <2>1. ~running => \A h \in Handles : ~Alive(h) BY DEF ExitInv, ExitTypes, Alive
  <2>2. Orderly /\ Resting => Inv /\ ExitTypes /\ Sound BY DEF ExitInv, Resting
  <2>3. QED BY <2>1, <2>2, RestingLeavesNothing DEF NobodyLeftWaiting
<1>2. QED BY <1>1, ExitInvariant, PTL
=============================================================================
