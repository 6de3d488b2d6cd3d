----------------------------- MODULE Overtaking -----------------------------
(***************************************************************************)
(* TaskPool with a history: for every waiting task, the tasks that were    *)
(* submitted after it, do not outrank it, need one of its cores, and were  *)
(* read before it.  The history answers the question the two tuning        *)
(* constants of vip_drv_util.c raise: how far, and how often, may a task   *)
(* that waits for several cores be overtaken by tasks that need fewer?     *)
(***************************************************************************)
EXTENDS TaskPool

VARIABLE overtakers

vars == <<pool, sum_count, overtakers>>

Compete(e, f) == Mask(e.kind) \cap Mask(f.kind) # {}

(* Reading f overtakes the waiting entry e. *)
Overtakes(f, e) == Better(e, f) /\ e.index < f.index /\ Compete(e, f)

OvertakersAfter(f) ==
  [t \in Tasks |->
     IF \E e \in pool \ {f} : e.task = t /\ Overtakes(f, e)
     THEN overtakers[t] \cup {f}
     ELSE overtakers[t]]

Init == PoolInit /\ overtakers = [t \in Tasks |-> {}]

Submit(t, k, p) ==
  /\ Write(t, k, p)
  /\ overtakers' = [overtakers EXCEPT ![t] = {}]

Dispatch(e, free) ==
  /\ Read(e, free)
  /\ overtakers' = OvertakersAfter(e)

Clean ==
  /\ \/ CleanAll
     \/ \E c \in Cores : CleanTasksOn({c})
     \/ \E t \in Tasks : CleanOne(t)
  /\ UNCHANGED overtakers

Next ==
  \/ \E t \in Tasks, k \in Kinds, p \in 0 .. MaxPriority : Submit(t, k, p)
  \/ \E e \in pool, free \in SUBSET Cores : Dispatch(e, free)
  \/ Clean

Spec == Init /\ [][Next]_vars

-----------------------------------------------------------------------------
(* The queue's state and the history have the shape the code gives them:   *)
(* in particular sum_count stays within the index's range and restarts     *)
(* only when nothing waits.                                                *)
TypeOK ==
  /\ PoolTypeOK
  /\ overtakers \in [Tasks -> SUBSET Entries]

(* At most MAX_PREEMPT_COUNT later tasks are taken from the queue ahead of *)
(* a waiting task of the highest priority whose cores they need: however   *)
(* long the cores it needs are never free at the same time, such a task is *)
(* not starved by a stream of tasks that need fewer cores.  This is what   *)
(* the min_index test of queue_read is for.                                *)
UrgentOvertakenBounded ==
  \A e \in pool : e.priority = MaxPriority =>
    Cardinality(overtakers[e.task]) <= MAX_PREEMPT_COUNT

(* Every task a waiting task was overtaken by is within MAX_PRIORITY_GAP   *)
(* levels of it, whether or not the waiting task was the head of its heap  *)
(* when that happened: the max_priority test of queue_read sees only the   *)
(* heads, and must still protect the tasks queued behind them.             *)
GapRespected ==
  \A e \in pool : \A f \in overtakers[e.task] :
    e.priority - f.priority <= MAX_PRIORITY_GAP

-----------------------------------------------------------------------------
(* Whatever cores are free, the daemon thread is sent away from a queue    *)
(* with tasks in it only when the best task waiting does not fit: the      *)
(* rules that make a task wait for better ones never make all of them wait *)
(* for each other.  They could leave cores idle for good, since the daemon *)
(* is woken only by a submission and by a completion.                      *)
RefusalMeansBlocked ==
  \A free \in SUBSET Cores :
    pool # {} /\ (\A e \in pool : ~Selected(e, free)) =>
      \E e \in pool : (\A f \in pool : ~Better(f, e)) /\ ~Fits(e, free)
=============================================================================
