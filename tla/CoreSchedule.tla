---------------------------- MODULE CoreSchedule ----------------------------
(***************************************************************************)
(* The choice of cores for a task (task/vip_drv_task_schedule.c): the      *)
(* loads of the cores, from the estimates of the queue's heaps and of the  *)
(* tasks on the hardware, and the run of cores whose busiest core is least *)
(* loaded, found with a sliding window.  The code reads the estimates heap *)
(* by heap and changes nothing of the queue; the task it places is written *)
(* later, so two submissions may choose the same cores.                    *)
(***************************************************************************)
EXTENDS TaskQueue

CONSTANT Remaining   \* what the tasks on the hardware may still take, per core

ASSUME ScheduleAssumption == Remaining \subseteq Nat

(* The kinds in the order in which task_add_load_in_queue counts index up: *)
(* by the number of cores, then by the first core.                         *)
KindsUpTo(k) ==
  {j \in Kinds : j[1] < k[1] \/ (j[1] = k[1] /\ j[2] < k[2])}

(* Mutant: the estimate goes to the first core of the task alone. *)
QueueLoadFirst(c) ==
  MapThenSumSet(LAMBDA k : estimated[Cardinality(KindsUpTo(k))], {k \in Kinds : c = k[2]})

(* task_add_load_in_queue: the estimate of a heap goes to every core its   *)
(* tasks need.                                                             *)
QueueLoad(c) ==
  MapThenSumSet(LAMBDA k : estimated[Cardinality(KindsUpTo(k))], {k \in Kinds : c \in Mask(k)})

(* task_add_loads_on_hardware: a task that is about to start adds its      *)
(* average time to each of its cores, a running one what is left of it.    *)
Load(onHardware) == [c \in Cores |-> QueueLoad(c) + onHardware[c]]

(* task_schedule.  The window holds cores whose loads decrease, so its     *)
(* first is the busiest of the last cnt cores; n is hardware_count.        *)
Push(window, load, i) ==
  LET kept == SelectLastInSeq(window, LAMBDA j : load[j] > load[i])
  IN  Append(SubSeq(window, 1, kept), i)

Slide(window, cnt, i) ==
  IF window # <<>> /\ i - Head(window) >= cnt THEN Tail(window) ELSE window

(* A round of the loop, for core i. *)
ScanCore(s, load, cnt, i) ==
  LET window  == Push(Slide(s.window, cnt, i), load, i)
      busiest == load[Head(window)]
  IN  IF i >= cnt - 1 /\ (s.core = -1 \/ s.min > busiest)
      THEN [window |-> window, min |-> busiest, core |-> i + 1 - cnt]
      ELSE [s EXCEPT !.window = window]

Schedule(load, n, cnt) ==
  LET scan[i \in 0 .. n] ==
        IF i = 0 THEN [window |-> <<>>, min |-> 0, core |-> -1]
        ELSE ScanCore(scan[i - 1], load, cnt, i - 1)
  IN  scan[n].core

-----------------------------------------------------------------------------
(* The definition the window stands for: the first of the runs of cnt      *)
(* cores whose busiest core has the least to do.                           *)
Busiest(load, start, cnt) == Max({load[c] : c \in start .. start + cnt - 1})

LeastLoaded(load, n, cnt) ==
  LET least == Min({Busiest(load, start, cnt) : start \in 0 .. n - cnt})
  IN  Min({start \in 0 .. n - cnt : Busiest(load, start, cnt) = least})

(* The time in front of a core: of all the waiting tasks that need it. *)
TrueLoad(c) == MapThenSumSet(LAMBDA q : q.time, {q \in Queued : c \in Mask(q.kind)})

Window(n) == \A load \in [0 .. n - 1 -> 0 .. 3], cnt \in 1 .. n :
               Schedule(load, n, cnt) = LeastLoaded(load, n, cnt)

(* Whatever is queued, in whatever order tasks came, ran and were dropped, *)
(* and whatever runs, a task is placed on the first run of cores whose     *)
(* busiest core has the least to do: the heaps are counted for the cores   *)
(* their tasks need, the estimates have not drifted, and the window finds  *)
(* the minimum of the maxima; on four cores, as many as the comment of the *)
(* code shows, for every load.                                             *)
PlacedOnLeastLoaded ==
  /\ \A onHardware \in [Cores -> Remaining], cnt \in 1 .. NCores :
       Schedule(Load(onHardware), NCores, cnt)
         = LeastLoaded([c \in Cores |-> TrueLoad(c) + onHardware[c]], NCores, cnt)
  /\ cur_count = 0 => Window(4)
=============================================================================
