-------------------------- MODULE PowerManagement --------------------------
(***************************************************************************)
(* The power management of vip2: one state machine per core, driven by     *)
(* events that several threads send under the recursive power mutex of the *)
(* core, and one power domain that all cores share.                        *)
(*                                                                         *)
(* The threads: the thread of a core that submits a task and waits for it  *)
(* (holding the power mutex of the core and the cancel_mutex of the task   *)
(* during the submission), the power thread of a core that a timer wakes,  *)
(* a user who turns cores off and on, a reader of the driver's debugfs     *)
(* files who needs the clock, a cancel, and the system that suspends and   *)
(* resumes.  vipdrv_pm_send_evnt handles an event in rounds, each of which *)
(* may take one transition; a round is an action here.                     *)
(*                                                                         *)
(* Abstracted: the frequency, tasks on several cores, which the dispatch   *)
(* (TaskDispatch.tla) covers, and VIPDRV_PWR_EVNT_ENABLE_TIMER and         *)
(* _DISABLE_TIMER: their branch follows "if IDLE" and "else if CLOCK"      *)
(* inside ON, so that no state reaches it and enable_timer stays true.     *)
(* The hardware can cancel a job (VIP_HW_FEATURE_JOB_CANCEL), as this      *)
(* board's can.  vpmdENABLE_RECOVERY is 0: a wait that times out ends      *)
(* without an event, and its job goes on.                                  *)
(***************************************************************************)
EXTENDS Integers, FiniteSets

CONSTANTS Cores,        \* the cores of the device
          CountMod,     \* disable_clock_suspend counts modulo CountMod; the code's is 2^32
          UserEvents,   \* what the user sends: USR_ON, USR_OFF, USR_START, USR_STOP
          SuspendBy,    \* who may suspend: "system", "debugfs"
          TimeOuts,     \* the cores on which the wait for a running task may time out
          MaxTasks,     \* bound: tasks queued per core
          MaxUser,      \* bound: power ioctls of the user
          MaxClock,     \* bound: debugfs reads
          MaxSuspends,  \* bound: suspensions
          MaxCancels,   \* bound: cancels of a task
          MaxFailures   \* bound: failures to power a core on

ASSUME PowerAssumption ==
  /\ Cores \subseteq Nat /\ Cores # {} /\ IsFiniteSet(Cores)
  /\ CountMod \in Nat /\ CountMod > 2
  /\ UserEvents \subseteq {"USR_ON", "USR_OFF", "USR_START", "USR_STOP"}
  /\ SuspendBy \subseteq {"system", "debugfs"}
  /\ TimeOuts \subseteq Cores
  /\ MaxTasks \in [Cores -> Nat]
  /\ {MaxUser, MaxClock, MaxSuspends, MaxCancels, MaxFailures} \subseteq Nat

VARIABLES
  pm,             \* a core: power state, last_state, disable_clock_suspend (count),
                  \*   clock_suspended, idle, user_power_off, user_power_stop, timer armed
  lock,           \* the kind of thread that holds the power mutex of a core
  event,          \* the event that thread is handling on the core
  status,         \* whether every transition for the event succeeded
  domain,         \* power_hardware_cnt, and whether the shared domain has power
  signal,         \* pm->signal, which wakes the power thread
  resume_signal,  \* pm->resume_signal
  pm_thread,      \* the power thread of a core
  core,           \* the thread of a core: pc, and whether it slept in check_power
  queue,          \* the number of queued tasks that need the core
  task,           \* the task dispatched to the thread of the core
  jobs,           \* the number of jobs the hardware of the core has not finished
  irq,            \* *hw->irq_value & IRQ_VALUE_FLAG
  clock_user,     \* the debugfs reader: pc, core
  sys,            \* the suspension: pc, who suspends, the cores left to visit
  left,           \* bounds: what each kind of thread may still do
  held,           \* history: whose CLK_ON the count of a core includes
  past            \* history: what has upset a core, see Upsets

threads == <<pm_thread, core, clock_user, sys>>
work    == <<queue, task, jobs, irq>>
history == <<held, past>>
vars == <<pm, lock, event, status, domain, signal, resume_signal, pm_thread, core,
          queue, task, jobs, irq, clock_user, sys, left, held, past>>

(* VIPDRV_POWER_CLOCK, _ON and _SYS_LIFE are unions of states. *)
Clock  == {"READY", "RUN"}
On     == Clock \union {"IDLE"}
Life   == On \union {"OFF"}
States == Life \union {"SUSPEND"}
Events == {"ON", "OFF", "CLK_ON", "CLK_OFF", "RUN", "END",
           "USR_ON", "USR_OFF", "USR_START", "USR_STOP"}
Owners == {"none", "core", "pm", "user", "clock", "sys"}

(* failure: power-on failed; split: of a pair CLK_ON, CLK_OFF only one was *)
(* counted; timeout: a wait timed out; busy: END found the hardware busy;  *)
(* suspend: the system suspended the core; bypass: the timer went off      *)
(* while a task was queued.                                                *)
Upsets == {"failure", "split", "timeout", "busy", "suspend", "bypass"}

-----------------------------------------------------------------------------
(* vipdrv_pm_send_evnt: the effect of an event on a core in its state.     *)

(* Mutant: the count does not wrap. *)
IncUnbounded(n) == n + 1

(* The count is unsigned: it wraps at both ends. *)
Inc(n) == (n + 1) % CountMod
Dec(n) == (n + CountMod - 1) % CountMod
Poison == CountMod \div 2   \* 0xDEADBEEF

(* Mutant: CLK_ON is counted in READY only. *)
CountedReady(p, e) ==
  IF p.state \notin Clock THEN p.count
  ELSE IF e = "CLK_ON" /\ p.state = "READY" THEN Inc(p.count)
  ELSE IF e = "CLK_OFF" THEN Dec(p.count) ELSE p.count

Counted(p, e) ==
  IF p.state \notin Clock THEN p.count
  ELSE IF e = "CLK_ON" THEN Inc(p.count)
  ELSE IF e = "CLK_OFF" THEN Dec(p.count) ELSE p.count

Flagged(p, flag, set, clear) ==
  IF p.state = "SUSPEND" THEN flag ELSE set \/ (flag /\ ~clear)

(* 1. handle event *)
Handled(p, e) ==
  [p EXCEPT !.count     = Counted(p, e),
            !.user_off  = Flagged(p, @, e = "USR_OFF", e = "USR_ON"),
            !.user_stop = Flagged(p, @, e = "USR_STOP", e = "USR_START")]

(* Mutant: CLK_OFF leaves the clock states whatever the count. *)
TargetEager(p, e, quiet) ==
  CASE p.state \in Life /\ e = "SUSPEND"                              -> "SUSPEND"
    [] p.state = "SUSPEND" /\ e = "RESUME"                            -> p.last_state
    [] p.state = "OFF" /\ e \in {"USR_ON", "ON"} /\ ~p.user_off       -> "IDLE"
    [] p.state = "IDLE" /\ e \in {"USR_OFF", "OFF"}                   -> "OFF"
    [] p.state = "IDLE" /\ e = "CLK_ON"                               -> "READY"
    [] p.state \in {"IDLE", "READY"} /\ e = "RUN"                     -> "RUN"
    [] p.state \in Clock /\ e = "CLK_OFF"                             -> "IDLE"
    [] p.state \in Clock /\ e = "END" /\ p.count = 0                  -> "IDLE"
    [] p.state = "RUN" /\ e = "END" /\ p.count # 0 /\ quiet           -> "READY"
    [] OTHER                                                          -> "NONE"

(* 2. state trans: the state e asks for, "NONE" when it asks for none.     *)
(* p has handled e; quiet says whether the hardware gets idle in time.     *)
Target(p, e, quiet) ==
  CASE p.state \in Life /\ e = "SUSPEND"                              -> "SUSPEND"
    [] p.state = "SUSPEND" /\ e = "RESUME"                            -> p.last_state
    [] p.state = "OFF" /\ e \in {"USR_ON", "ON"} /\ ~p.user_off       -> "IDLE"
    [] p.state = "IDLE" /\ e \in {"USR_OFF", "OFF"}                   -> "OFF"
    [] p.state = "IDLE" /\ e = "CLK_ON"                               -> "READY"
    [] p.state \in {"IDLE", "READY"} /\ e = "RUN"                     -> "RUN"
    [] p.state \in Clock /\ e \in {"CLK_OFF", "END"} /\ p.count = 0   -> "IDLE"
    [] p.state = "RUN" /\ e = "END" /\ p.count # 0 /\ quiet           -> "READY"
    [] OTHER                                                          -> "NONE"

TurnsOff(from, to) == from \in On /\ to \notin On
TurnsOn(from, to)  == from \notin On /\ to \in On

(* Mutant: leaving RUN does not give the count back. *)
LeaveKeepsCount(p, to) ==
  [p EXCEPT !.timer = @ /\ p.state # "IDLE",
            !.idle  = @ \/ TurnsOff(p.state, to),
            !.clock_suspended =
               \/ @
               \/ p.state \in Clock /\ to \notin Clock /\ p.count = 0
               \/ TurnsOff(p.state, to)]

(* pm_status_trans, "out status": what leaving p.state for to does. The    *)
(* clock is not stopped while the count is not 0; without power it is.     *)
Leave(p, to) ==
  LET n == IF p.state = "RUN" THEN Dec(p.count) ELSE p.count
  IN  [p EXCEPT !.count = n,
                !.timer = @ /\ p.state # "IDLE",
                !.idle  = @ \/ TurnsOff(p.state, to),
                !.clock_suspended =
                   \/ @
                   \/ p.state \in Clock /\ to \notin Clock /\ n = 0
                   \/ TurnsOff(p.state, to)]

(* Mutant: the timer is not started. *)
EnterNoTimer(p, to, ok) ==
  LET fails == TurnsOn(p.state, to) /\ ~ok
      n     == IF fails THEN Poison ELSE p.count
  IN  [p EXCEPT !.state = to,
                !.last_state = IF to = "SUSPEND" THEN p.state ELSE @,
                !.count = IF to = "RUN" THEN Inc(n) ELSE n,
                !.clock_suspended =
                   /\ @
                   /\ ~(TurnsOn(p.state, to) /\ ok)
                   /\ ~(p.state \notin Clock /\ to \in Clock)]

(* "into status", after Leave; ok says whether power_on_action succeeds.   *)
Enter(p, to, ok) ==
  LET fails == TurnsOn(p.state, to) /\ ~ok
      n     == IF fails THEN Poison ELSE p.count
  IN  [p EXCEPT !.state = to,
                !.last_state = IF to = "SUSPEND" THEN p.state ELSE @,
                !.count = IF to = "RUN" THEN Inc(n) ELSE n,
                !.timer = @ \/ to = "IDLE",
                !.clock_suspended =
                   /\ @
                   /\ ~(TurnsOn(p.state, to) /\ ok)
                   /\ ~(p.state \notin Clock /\ to \in Clock)]

(* Mutant: every core that turns off powers the domain off. *)
DomainEach(from, to, ok) ==
  IF TurnsOff(from, to) THEN [cnt |-> domain.cnt - 1, powered |-> FALSE]
  ELSE IF TurnsOn(from, to) THEN [cnt |-> domain.cnt + 1, powered |-> ok]
  ELSE domain

(* power_on_action and power_off_action on the shared domain: the first    *)
(* core powers it on and the last one off; a core that fails powers it     *)
(* off for all.                                                            *)
Domain(from, to, ok) ==
  IF TurnsOff(from, to)
  THEN [cnt |-> domain.cnt - 1, powered |-> domain.powered /\ domain.cnt # 1]
  ELSE IF TurnsOn(from, to)
  THEN [cnt |-> domain.cnt + 1, powered |-> ok]
  ELSE domain

(* A core cannot be initialised in a domain some other core powered off.   *)
PowerOnMay(from, to) ==
  IF ~TurnsOn(from, to) THEN {TRUE}
  ELSE (IF domain.cnt # 0 /\ ~domain.powered THEN {} ELSE {TRUE})
         \union (IF left.failures > 0 \/ (domain.cnt # 0 /\ ~domain.powered) THEN {FALSE} ELSE {})

(* One transition of core c, which has handled the event as p, to state to. *)
Transit(c, p, to, ok) ==
  /\ pm' = [pm EXCEPT ![c] = Enter(Leave(p, to), to, ok)]
  /\ domain' = Domain(p.state, to, ok)
  /\ left' = IF ok \/ left.failures = 0 THEN left ELSE [left EXCEPT !.failures = @ - 1]

(* vipdrv_hw_reset of a core that is powered on ends its jobs. *)
Reset(c, from, to, ok) == IF TurnsOn(from, to) /\ ok THEN [jobs EXCEPT ![c] = 0] ELSE jobs
Failed(ok) == [d \in Cores |-> past[d] \union (IF ok THEN {} ELSE {"failure"})]

-----------------------------------------------------------------------------
(* The thread of a core holds the power mutex across events between the    *)
(* lock of the submission and its unlock, and cancel_mutex even while it   *)
(* sleeps in check_power.                                                  *)
Submission == {"check", "powered", "submitted", "trigger"}
Sleep      == {"reset_resume", "wait_resume", "relock"}
CancelHeld(c) == core[c].pc \in Submission \union Sleep
CoreGoes(c, pc) == core' = [core EXCEPT ![c].pc = pc]

(* A call of vipdrv_pm_send_evnt: take the power mutex, unless the caller  *)
(* holds it, and start to handle the event.                                *)
Send(c, owner, e) ==
  /\ event[c] = "none"
  /\ lock[c] = "none" \/ (lock[c] = owner /\ owner = "core")
  /\ lock' = [lock EXCEPT ![c] = owner]
  /\ event' = [event EXCEPT ![c] = e]
  /\ status' = [status EXCEPT ![c] = TRUE]

(* Whether a call of owner on core c is over: its next step waits for it.  *)
Returned(c, owner) == ~(lock[c] = owner /\ event[c] # "none")

(* Mutant: the mutex is not recursive, the end of a call frees it. *)
ReturnUnlocks(c) ==
  /\ event' = [event EXCEPT ![c] = "none"]
  /\ lock' = [lock EXCEPT ![c] = "none"]

(* Mutant: the call for a debugfs reader keeps the mutex. *)
ReturnKeepsClock(c) ==
  /\ event' = [event EXCEPT ![c] = "none"]
  /\ lock' = [lock EXCEPT ![c] =
                IF @ = "clock" \/ (@ = "core" /\ core[c].pc \in Submission) THEN @ ELSE "none"]

Return(c) ==
  /\ event' = [event EXCEPT ![c] = "none"]
  /\ lock' = [lock EXCEPT ![c] = IF @ = "core" /\ core[c].pc \in Submission THEN @ ELSE "none"]

(* USR_OFF and USR_STOP clean: the queued tasks of the core are dropped    *)
(* and, by vipdrv_pm_clean_task, the task that was dispatched but not yet  *)
(* started; that takes cancel_mutex, under the power mutex.                *)
Cleans(c) == event[c] \in {"USR_OFF", "USR_STOP"} /\ pm[c].state \in Life
MayClean(c) == Cleans(c) => ~CancelHeld(c)

Clean(c) ==
  /\ queue' = IF Cleans(c) THEN [queue EXCEPT ![c] = 0] ELSE queue
  /\ task' = IF Cleans(c) /\ task[c] = "ready" THEN [task EXCEPT ![c] = "cancelled"] ELSE task

(* History: a CLK_ON that was counted and its CLK_OFF belong together.     *)
ClockOwner(c) == IF event[c] \in {"CLK_ON", "CLK_OFF"} THEN {lock[c]} ELSE {}
Hold(c) ==
  held' = [held EXCEPT ![c] =
             IF event[c] = "CLK_ON" /\ pm[c].state \in Clock THEN @ \union ClockOwner(c)
             ELSE IF event[c] = "CLK_OFF" THEN @ \ ClockOwner(c) ELSE @]
Splits(c) == event[c] = "CLK_OFF" /\ ((lock[c] \in held[c]) # (pm[c].state \in Clock))

Busy(c, to) == event[c] = "END" /\ pm[c].state = "RUN" /\ to = "NONE"
Upset(c, to) == {u \in {"split", "busy"} : IF u = "split" THEN Splits(c) ELSE Busy(c, to)}

(* A round of vipdrv_pm_send_evnt: after a transition the same event is    *)
(* handled again in the new state; without one, or when the transition     *)
(* failed, the call returns.                                               *)
Round(c) ==
  LET p  == Handled(pm[c], event[c])
      to == Target(p, event[c], jobs[c] = 0)
  IN  /\ event[c] # "none"
      /\ MayClean(c)
      /\ Clean(c) /\ Hold(c)
      /\ \/ /\ to = "NONE"
            /\ pm' = [pm EXCEPT ![c] = p]
            /\ Return(c)
            /\ past' = [past EXCEPT ![c] = @ \union Upset(c, to)]
            /\ UNCHANGED <<domain, status, jobs, left>>
         \/ /\ to # "NONE"
            /\ \E ok \in PowerOnMay(p.state, to) :
                 /\ Transit(c, p, to, ok)
                 /\ jobs' = Reset(c, p.state, to, ok)
                 /\ status' = [status EXCEPT ![c] = ok]
                 /\ IF ok THEN UNCHANGED <<lock, event>> ELSE Return(c)
                 /\ past' = [Failed(ok) EXCEPT ![c] = @ \union Upset(c, to)]
      /\ UNCHANGED <<signal, resume_signal, threads, irq>>

-----------------------------------------------------------------------------
(* The timer and the power thread.                                         *)

(* power_off_timer_handle: with a task in the queue for the core the timer *)
(* is not started again.                                                   *)
TimerFires(c) ==
  /\ pm[c].timer
  /\ pm' = [pm EXCEPT ![c].timer = FALSE]
  /\ \/ /\ queue[c] = 0
        /\ signal' = [signal EXCEPT ![c] = TRUE]
        /\ past' = past
     \/ /\ queue[c] # 0
        /\ past' = [past EXCEPT ![c] = @ \union {"bypass"}]
        /\ signal' = signal
  /\ UNCHANGED <<lock, event, status, domain, resume_signal, threads, work, left, held>>

(* power_manage_thread *)
PmWake(c) ==
  /\ pm_thread[c] = "sleep"
  /\ signal[c]
  /\ signal' = [signal EXCEPT ![c] = FALSE]
  /\ pm_thread' = [pm_thread EXCEPT ![c] = "send"]
  /\ UNCHANGED <<pm, lock, event, status, domain, resume_signal, core, work, clock_user,
                 sys, left, history>>

PmSend(c) ==
  /\ pm_thread[c] = "send"
  /\ Send(c, "pm", "OFF")
  /\ pm_thread' = [pm_thread EXCEPT ![c] = "sleep"]
  /\ UNCHANGED <<pm, domain, signal, resume_signal, core, work, clock_user, sys, left, history>>

PmNext(c) == PmWake(c) \/ PmSend(c)

-----------------------------------------------------------------------------
(* The thread of a core: vipdrv_task_core_thread_handle.                   *)

CoreKeeps == <<pm, domain, signal, pm_thread, queue, clock_user, sys, held>>

(* The daemon thread dispatches a queued task to the idle thread. *)
Dispatch(c) ==
  /\ queue[c] > 0 /\ task[c] = "none"
  /\ queue' = [queue EXCEPT ![c] = @ - 1]
  /\ task' = [task EXCEPT ![c] = "ready"]
  /\ UNCHANGED <<pm, lock, event, status, domain, signal, resume_signal, threads, jobs, irq,
                 left, history>>

(* Mutant: a stop by the user is not looked at. *)
PermittedUnlessOff(c) == ~pm[c].user_off

(* VIPDRV_CHECK_USER_PM_STATUS *)
Permitted(c) == ~pm[c].user_off /\ ~pm[c].user_stop

(* The locks and the user's flags in vipdrv_task_submit. *)
CoreTake(c) ==
  /\ core[c].pc = "sleep" /\ task[c] \in {"ready", "cancelled"}
  /\ lock[c] = "none"
  /\ \/ /\ task[c] = "ready" /\ Permitted(c)
        /\ lock' = [lock EXCEPT ![c] = "core"]
        /\ core' = [core EXCEPT ![c] = [pc |-> "check", slept |-> FALSE]]
        /\ task' = task
     \/ /\ task[c] = "cancelled" \/ ~Permitted(c)
        /\ core' = [core EXCEPT ![c] = [pc |-> "end", slept |-> FALSE]]
        /\ lock' = lock
        /\ task' = IF task[c] = "ready" THEN [task EXCEPT ![c] = "started"] ELSE task
  /\ UNCHANGED <<CoreKeeps, event, status, resume_signal, jobs, irq, left, past>>

(* vipdrv_pm_check_power: a suspended core releases the power mutex, and   *)
(* only then resets the signal it will wait for.                           *)
CoreCheck(c) ==
  /\ core[c].pc = "check"
  /\ \/ /\ pm[c].state = "SUSPEND"
        /\ lock' = [lock EXCEPT ![c] = "none"]
        /\ core' = [core EXCEPT ![c] = [pc |-> "reset_resume", slept |-> TRUE]]
        /\ UNCHANGED <<event, status>>
     \/ /\ pm[c].state # "SUSPEND"
        /\ Send(c, "core", "ON")
        /\ CoreGoes(c, "powered")
  /\ UNCHANGED <<CoreKeeps, resume_signal, task, jobs, irq, left, past>>

CoreReset(c) ==
  /\ core[c].pc = "reset_resume"
  /\ resume_signal' = [resume_signal EXCEPT ![c] = FALSE]
  /\ CoreGoes(c, "wait_resume")
  /\ UNCHANGED <<CoreKeeps, lock, event, status, task, jobs, irq, left, past>>

CoreResumed(c) ==
  /\ core[c].pc = "wait_resume"
  /\ resume_signal[c]
  /\ CoreGoes(c, "relock")
  /\ UNCHANGED <<CoreKeeps, lock, event, status, resume_signal, task, jobs, irq, left, past>>

CoreRelock(c) ==
  /\ core[c].pc = "relock"
  /\ Send(c, "core", "ON")
  /\ CoreGoes(c, "powered")
  /\ UNCHANGED <<CoreKeeps, resume_signal, task, jobs, irq, left, past>>

(* The submission fails; the task is marked INFER_START all the same. *)
CoreFails(c) ==
  /\ task' = [task EXCEPT ![c] = "started"]
  /\ lock' = [lock EXCEPT ![c] = "none"]
  /\ CoreGoes(c, "end")
  /\ UNCHANGED <<event, status>>

(* vipdrv_pm_hw_submit, to the return of RUN *)
CoreSubmit(c) ==
  /\ core[c].pc = "powered"
  /\ event[c] = "none"
  /\ \/ ~status[c] /\ CoreFails(c)
     \/ /\ status[c]
        /\ Send(c, "core", "RUN")
        /\ CoreGoes(c, "submitted")
        /\ task' = task
  /\ UNCHANGED <<CoreKeeps, resume_signal, jobs, irq, left, past>>

CoreSubmitted(c) ==
  /\ core[c].pc = "submitted"
  /\ event[c] = "none"
  /\ \/ /\ pm[c].state # "RUN"
        /\ CoreFails(c)
        /\ pm' = pm
     \/ /\ pm[c].state = "RUN"
        /\ pm' = [pm EXCEPT ![c].idle = FALSE]
        /\ CoreGoes(c, "trigger")
        /\ UNCHANGED <<lock, event, status, task>>
  /\ UNCHANGED <<domain, signal, resume_signal, pm_thread, queue, jobs, irq, clock_user, sys,
                 left, history>>

(* vipdrv_hw_trigger, INFER_START and both unlocks *)
CoreTrigger(c) ==
  /\ core[c].pc = "trigger"
  /\ jobs' = [jobs EXCEPT ![c] = @ + 1]
  /\ task' = [task EXCEPT ![c] = "started"]
  /\ lock' = [lock EXCEPT ![c] = "none"]
  /\ CoreGoes(c, "wait")
  /\ UNCHANGED <<CoreKeeps, event, status, resume_signal, irq, left, past>>

(* vipdrv_task_wait: a core that is idle is not waited for. *)
CoreWait(c) ==
  /\ core[c].pc = "wait"
  /\ CoreGoes(c, IF pm[c].idle THEN "end" ELSE "irq")
  /\ UNCHANGED <<CoreKeeps, lock, event, status, resume_signal, task, jobs, irq, left, past>>

(* vipdrv_task_check_irq_value returns success, also after a cancel. *)
CoreIrq(c) ==
  /\ core[c].pc = "irq"
  /\ irq[c]
  /\ irq' = [irq EXCEPT ![c] = FALSE]
  /\ CoreGoes(c, "idle")
  /\ UNCHANGED <<CoreKeeps, lock, event, status, resume_signal, task, jobs, left, past>>

(* The hardware of c can finish its job. *)
Clocked(c) == ~pm[c].clock_suspended /\ domain.powered

(* The wait times out: nothing stops the job, the hardware is not marked   *)
(* idle and END is not sent, so that the core stays in RUN.                *)
CoreTimeOut(c) ==
  /\ core[c].pc = "irq"
  /\ ~irq[c]
  /\ c \in TimeOuts \/ jobs[c] = 0 \/ ~Clocked(c)
  /\ past' = [past EXCEPT ![c] = @ \union {"timeout"}]
  /\ CoreGoes(c, "end")
  /\ UNCHANGED <<CoreKeeps, lock, event, status, resume_signal, task, jobs, irq, left>>

(* Mutant: END is not sent. *)
CoreIdleSilent(c) ==
  /\ core[c].pc = "idle"
  /\ CoreGoes(c, "end")
  /\ pm' = [pm EXCEPT ![c].idle = TRUE]
  /\ UNCHANGED <<lock, event, status, domain, signal, resume_signal, pm_thread, work,
                 clock_user, sys, left, history>>

(* vipdrv_hw_idle and vipdrv_pm_hw_idle *)
CoreIdle(c) ==
  /\ core[c].pc = "idle"
  /\ CoreGoes(c, IF pm[c].idle THEN "end" ELSE "hw_idle")
  /\ pm' = [pm EXCEPT ![c].idle = TRUE]
  /\ UNCHANGED <<lock, event, status, domain, signal, resume_signal, pm_thread, work,
                 clock_user, sys, left, history>>

(* vipdrv_pm_hw_idle, without the power mutex *)
CoreSend(c) ==
  /\ core[c].pc = "hw_idle"
  /\ Send(c, "core", "END")
  /\ CoreGoes(c, "user_off")
  /\ UNCHANGED <<CoreKeeps, resume_signal, task, jobs, irq, left, past>>

(* The end of vipdrv_pm_hw_idle: a user turned the core off meanwhile. *)
CoreUserOff(c) ==
  /\ core[c].pc = "user_off"
  /\ Returned(c, "core")
  /\ \/ pm[c].user_off /\ Send(c, "core", "USR_OFF")
     \/ ~pm[c].user_off /\ UNCHANGED <<lock, event, status>>
  /\ CoreGoes(c, "end")
  /\ UNCHANGED <<CoreKeeps, resume_signal, task, jobs, irq, left, past>>

(* INFER_END, the flag of the interrupt is cleared, the user is woken. *)
CoreEnd(c) ==
  /\ core[c].pc = "end"
  /\ Returned(c, "core")
  /\ task' = [task EXCEPT ![c] = "none"]
  /\ irq' = IF task[c] = "cancelled" THEN irq ELSE [irq EXCEPT ![c] = FALSE]
  /\ CoreGoes(c, "sleep")
  /\ UNCHANGED <<CoreKeeps, lock, event, status, resume_signal, jobs, left, past>>

CoreNext(c) ==
  \/ CoreTake(c) \/ CoreCheck(c) \/ CoreReset(c) \/ CoreResumed(c) \/ CoreRelock(c)
  \/ CoreSubmit(c) \/ CoreSubmitted(c) \/ CoreTrigger(c) \/ CoreWait(c) \/ CoreIrq(c)
  \/ CoreTimeOut(c) \/ CoreIdle(c) \/ CoreSend(c) \/ CoreUserOff(c) \/ CoreEnd(c)

HardwareDone(c) ==
  /\ jobs[c] > 0 /\ Clocked(c)
  /\ jobs' = [jobs EXCEPT ![c] = @ - 1]
  /\ irq' = [irq EXCEPT ![c] = TRUE]
  /\ UNCHANGED <<pm, lock, event, status, domain, signal, resume_signal, threads, queue,
                 task, left, history>>

-----------------------------------------------------------------------------
(* Tasks and users.                                                        *)

(* The system freezes the user's threads before it suspends the driver. *)
Thawed == sys.pc = "awake" \/ sys.who = "debugfs"

Submit(c) ==
  /\ Thawed /\ left.tasks[c] > 0
  /\ left' = [left EXCEPT !.tasks[c] = @ - 1]
  /\ queue' = [queue EXCEPT ![c] = @ + 1]
  /\ UNCHANGED <<pm, lock, event, status, domain, signal, resume_signal, threads, task, jobs,
                 irq, history>>

(* vipdrv_task_tcb_cancel of the dispatched task; the thread of the core   *)
(* holds cancel_mutex during the submission.                               *)
Cancel(c) ==
  /\ Thawed /\ left.cancels > 0
  /\ ~CancelHeld(c)
  /\ left' = [left EXCEPT !.cancels = @ - 1]
  /\ \/ /\ task[c] = "ready"
        /\ task' = [task EXCEPT ![c] = "cancelled"]
        /\ UNCHANGED irq
     \/ /\ task[c] = "started"
        /\ irq' = [irq EXCEPT ![c] = TRUE]
        /\ task' = task
  /\ UNCHANGED <<pm, lock, event, status, domain, signal, resume_signal, threads, queue, jobs,
                 history>>

(* do_power_management, for one core *)
UserSend(c, e) ==
  /\ Thawed /\ left.user > 0
  /\ \A d \in Cores : lock[d] # "user"
  /\ Send(c, "user", e)
  /\ left' = [left EXCEPT !.user = @ - 1]
  /\ UNCHANGED <<pm, domain, signal, resume_signal, threads, work, history>>

(* A debugfs file: CLK_ON, registers are read in a state of CLOCK, CLK_OFF *)
ClockKeeps == <<pm, domain, signal, resume_signal, pm_thread, core, work, sys, history>>
ClockGoes(pc) == clock_user' = [clock_user EXCEPT !.pc = pc]

ClockOn(c) ==
  /\ Thawed /\ left.clock > 0 /\ clock_user.pc = "out"
  /\ Send(c, "clock", "CLK_ON")
  /\ clock_user' = [pc |-> "query", core |-> c]
  /\ left' = [left EXCEPT !.clock = @ - 1]
  /\ UNCHANGED ClockKeeps

ClockQuery ==
  /\ Thawed /\ clock_user.pc = "query"
  /\ Returned(clock_user.core, "clock")
  /\ ClockGoes(IF pm[clock_user.core].state \in Clock THEN "read" ELSE "off")
  /\ UNCHANGED <<ClockKeeps, lock, event, status, left>>

ClockRead ==
  /\ Thawed /\ clock_user.pc = "read"
  /\ ClockGoes("off")
  /\ UNCHANGED <<ClockKeeps, lock, event, status, left>>

ClockOff ==
  /\ Thawed /\ clock_user.pc = "off"
  /\ Send(clock_user.core, "clock", "CLK_OFF")
  /\ ClockGoes("out")
  /\ UNCHANGED <<ClockKeeps, left>>

ClockNext == ClockQuery \/ ClockRead \/ ClockOff

-----------------------------------------------------------------------------
(* Suspend and resume.  The system does not wait for the power mutexes: it *)
(* writes its own thread id into them.  debugfs first takes them all, of   *)
(* cores that are not in a state of CLOCK.                                 *)
SysKeeps == <<signal, pm_thread, core, queue, task, clock_user, event, status, held>>
IsNext(c) == c \in sys.todo /\ \A d \in sys.todo : c <= d

SysLocks(who) ==
  IF who = "system" THEN lock' = lock
  ELSE /\ \A c \in Cores : lock[c] = "none"
       /\ lock' = [c \in Cores |-> "sys"]
SysUnlocks(todo) ==
  lock' = IF sys.who = "debugfs" /\ todo = {} THEN [c \in Cores |-> "none"] ELSE lock

(* The user's threads are frozen: none is inside the driver. *)
Frozen == clock_user.pc = "out" /\ \A c \in Cores : lock[c] \notin {"user", "clock"}

(* vipdrv_hw_cancel for all cores of the device *)
SuspendBegin(who) ==
  /\ sys.pc = "awake" /\ left.suspends > 0
  /\ who = "system" => Frozen
  /\ who = "debugfs" => \A c \in Cores : pm[c].state \notin Clock
  /\ SysLocks(who)
  /\ sys' = [pc |-> "suspend", who |-> who, todo |-> Cores]
  /\ left' = [left EXCEPT !.suspends = @ - 1]
  /\ jobs' = [c \in Cores |-> 0]
  /\ past' = [c \in Cores |-> past[c] \union {"suspend"}]
  /\ UNCHANGED <<SysKeeps, pm, domain, resume_signal, irq>>

SuspendCore(c) ==
  /\ sys.pc = "suspend" /\ IsNext(c)
  /\ LET todo == sys.todo \ {c}
     IN  /\ Transit(c, pm[c], "SUSPEND", TRUE)
         /\ SysUnlocks(todo)
         /\ sys' = [sys EXCEPT !.todo = todo, !.pc = IF todo = {} THEN "asleep" ELSE @]
  /\ UNCHANGED <<SysKeeps, resume_signal, jobs, irq, past>>

ResumeBegin ==
  /\ sys.pc = "asleep"
  /\ SysLocks(sys.who)
  /\ sys' = [sys EXCEPT !.pc = "resume", !.todo = Cores]
  /\ UNCHANGED <<SysKeeps, pm, domain, resume_signal, jobs, irq, left, past>>

(* A core that ran a task gets an interrupt, and the threads that sleep in *)
(* check_power are woken.                                                  *)
ResumeCore(c) ==
  /\ sys.pc = "resume" /\ IsNext(c)
  /\ LET p == pm[c]
         todo == sys.todo \ {c}
     IN  /\ \E ok \in PowerOnMay(p.state, p.last_state) :
              /\ Transit(c, p, p.last_state, ok)
              /\ jobs' = Reset(c, p.state, p.last_state, ok)
              /\ past' = Failed(ok)
         /\ irq' = IF p.last_state = "RUN" THEN [irq EXCEPT ![c] = TRUE] ELSE irq
         /\ resume_signal' = [resume_signal EXCEPT ![c] = TRUE]
         /\ SysUnlocks(todo)
         /\ sys' = [sys EXCEPT !.todo = todo, !.pc = IF todo = {} THEN "awake" ELSE @]
  /\ UNCHANGED SysKeeps

SysNext == ResumeBegin \/ \E c \in Cores : SuspendCore(c) \/ ResumeCore(c)

-----------------------------------------------------------------------------
(* After vipdrv_device_hw_init every core is idle, with the clock off.  *)
Init ==
  /\ pm = [c \in Cores |->
             [state |-> "IDLE", last_state |-> "OFF", count |-> 0, clock_suspended |-> TRUE,
              idle |-> TRUE, user_off |-> FALSE, user_stop |-> FALSE, timer |-> TRUE]]
  /\ lock = [c \in Cores |-> "none"]
  /\ event = [c \in Cores |-> "none"]
  /\ status = [c \in Cores |-> TRUE]
  /\ domain = [cnt |-> Cardinality(Cores), powered |-> TRUE]
  /\ signal = [c \in Cores |-> FALSE]
  /\ resume_signal = [c \in Cores |-> FALSE]
  /\ pm_thread = [c \in Cores |-> "sleep"]
  /\ core = [c \in Cores |-> [pc |-> "sleep", slept |-> FALSE]]
  /\ queue = [c \in Cores |-> 0]
  /\ task = [c \in Cores |-> "none"]
  /\ jobs = [c \in Cores |-> 0]
  /\ irq = [c \in Cores |-> FALSE]
  /\ clock_user = [pc |-> "out", core |-> CHOOSE c \in Cores : TRUE]
  /\ sys = [pc |-> "awake", who |-> "system", todo |-> {}]
  /\ left = [tasks |-> MaxTasks, user |-> MaxUser, clock |-> MaxClock,
             suspends |-> MaxSuspends, cancels |-> MaxCancels, failures |-> MaxFailures]
  /\ held = [c \in Cores |-> {}]
  /\ past = [c \in Cores |-> {}]

Next ==
  \/ \E c \in Cores :
       \/ Round(c) \/ TimerFires(c) \/ PmNext(c) \/ CoreNext(c) \/ HardwareDone(c)
       \/ Dispatch(c) \/ Submit(c) \/ Cancel(c) \/ ClockOn(c)
       \/ \E e \in UserEvents : UserSend(c, e)
  \/ ClockNext
  \/ \E who \in SuspendBy : SuspendBegin(who)
  \/ SysNext

Spec == Init /\ [][Next]_vars

(* Every thread is scheduled, the timer and the hardware finish, a sleeping *)
(* system wakes up; nobody has to submit, cancel, suspend or send.          *)
Fairness ==
  /\ \A c \in Cores :
       /\ WF_vars(Round(c)) /\ WF_vars(TimerFires(c)) /\ WF_vars(PmNext(c))
       /\ WF_vars(CoreNext(c)) /\ WF_vars(HardwareDone(c)) /\ WF_vars(Dispatch(c))
  /\ WF_vars(ClockNext) /\ WF_vars(SysNext)

FairSpec == Spec /\ Fairness
-----------------------------------------------------------------------------
CorePcs == Submission \union Sleep
             \union {"sleep", "wait", "irq", "idle", "hw_idle", "user_off", "end"}

Powers  == [state : States, last_state : Life, count : 0 .. CountMod - 1,
            clock_suspended : BOOLEAN, idle : BOOLEAN, user_off : BOOLEAN,
            user_stop : BOOLEAN, timer : BOOLEAN]
Domains == [cnt : Int, powered : BOOLEAN]
CoreThreads == [pc : CorePcs, slept : BOOLEAN]
ClockUsers  == [pc : {"out", "query", "read", "off"}, core : Cores]
Suspensions == [pc : {"awake", "suspend", "asleep", "resume"}, who : {"system", "debugfs"},
                todo : SUBSET Cores]
Budgets == [tasks : [Cores -> Nat], user : Nat, clock : Nat, suspends : Nat,
            cancels : Nat, failures : Nat]

(* The types of the variables. *)
TypeOK ==
  /\ pm \in [Cores -> Powers]
  /\ lock \in [Cores -> Owners]
  /\ event \in [Cores -> Events \union {"none"}]
  /\ status \in [Cores -> BOOLEAN]
  /\ domain \in Domains
  /\ signal \in [Cores -> BOOLEAN] /\ resume_signal \in [Cores -> BOOLEAN]
  /\ pm_thread \in [Cores -> {"sleep", "send"}]
  /\ core \in [Cores -> CoreThreads]
  /\ queue \in [Cores -> Nat]
  /\ task \in [Cores -> {"none", "ready", "cancelled", "started"}]
  /\ jobs \in [Cores -> Nat] /\ irq \in [Cores -> BOOLEAN]
  /\ clock_user \in ClockUsers
  /\ sys \in Suspensions
  /\ left \in Budgets
  /\ held \in [Cores -> SUBSET Owners]
  /\ past \in [Cores -> SUBSET Upsets]

Never(c, upsets) == past[c] \intersect upsets = {}

(* power_hardware_cnt is the number of cores that are in a state of ON,    *)
(* whatever order cores suspend, resume, go idle and fail in; unless a     *)
(* power-on failed, the domain has power exactly while there is one.       *)
DomainCounted ==
  /\ domain.cnt = Cardinality({c \in Cores : pm[c].state \in On})
  /\ (\A c \in Cores : Never(c, {"failure"})) => (domain.powered <=> domain.cnt > 0)

(* disable_clock_suspend counts the core's task and the threads that asked *)
(* for the clock and have not given it back: no order of CLK_ON, CLK_OFF,  *)
(* RUN, END, suspend and user power-off loses a count, unless one half of  *)
(* a CLK_ON, CLK_OFF pair came in a state that ignores it.                 *)
ClockCounted ==
  \A c \in Cores : Never(c, {"split", "failure"}) =>
    pm[c].count = Cardinality(held[c]) + (IF pm[c].state = "RUN" THEN 1 ELSE 0)

(* The hardware executes a job only on a core in RUN, with its clock on,   *)
(* in a domain with power: no timer, user, reader or other core takes them *)
(* away meanwhile, also not from a job that outlives its wait, which timed *)
(* out or was cancelled, and runs on through the tasks that follow.        *)
JobPowered ==
  \A c \in Cores : jobs[c] > 0 /\ Never(c, {"split", "failure", "suspend"}) =>
    pm[c].state = "RUN" /\ Clocked(c)

(* A thread about to start the hardware saw the flags of the user, and     *)
(* they still say so, as it held the power mutex since then; unless it     *)
(* slept in check_power, which releases the mutex.                         *)
StoppedNotStarted ==
  \A c \in Cores : core[c].pc = "trigger" /\ ~core[c].slept =>
    ~pm[c].user_off /\ ~pm[c].user_stop

(* A reader that found the clock on reads registers with the clock on: the *)
(* timer, END, a user and also a suspension, which skips the power mutexes *)
(* that others hold, leave the clock to who has asked for it.              *)
ReadClocked ==
  clock_user.pc = "read" /\ "clock" \in held[clock_user.core]
    /\ Never(clock_user.core, {"split", "failure"}) => Clocked(clock_user.core)

(* "up freq and task running" (vip_drv_pm.h): a core is in RUN only while  *)
(* its thread works on a task, or after a wait that timed out, until a     *)
(* later wait ends; unless an END found the hardware busy with a job that  *)
(* outlived its wait, or RESUME restored RUN for a task that is lost.  No  *)
(* wrong count of the clock and no failing power-on keeps it there.        *)
Running(c)   == core[c].pc \in CorePcs \ {"sleep", "end"}
Abandoned(c) == "timeout" \in past[c] /\ ~pm[c].idle
RunHasTask ==
  \A c \in Cores : pm[c].state = "RUN" /\ event[c] = "none" =>
    \/ Running(c) \/ Abandoned(c)
    \/ ~Never(c, {"busy", "suspend"})

(* The thread of a core takes its power mutex before cancel_mutex, as the  *)
(* user's clean does, and events under the power mutex never wait for it:  *)
(* only a submission that slept in check_power, and takes the power mutex  *)
(* again while it holds cancel_mutex, can meet a clean in a deadlock.      *)
Stuck(c) == event[c] # "none" /\ ~MayClean(c)
StuckOnSleeper == \A c \in Cores : Stuck(c) => core[c].slept

(* The thread of a core that takes a task ends it, unless it sleeps in     *)
(* check_power: no lock, event or signal holds it up for good.             *)
TaskEnds ==
  \A c \in Cores : core[c].pc # "sleep" ~> core[c].pc = "sleep" \/ core[c].slept

(* A core the user turned off gets off.  Not so after an upset: "bypass"   *)
(* is a core that gets idle with a queued task when the timer goes off;    *)
(* the task is refused, and nothing starts the timer again.                *)
UserOffTurnsOff ==
  \A c \in Cores : pm[c].user_off ~>
    pm[c].state = "OFF" \/ ~pm[c].user_off \/ past[c] # {}
=============================================================================
