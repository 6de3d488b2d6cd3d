------------------------ MODULE TaskDispatch_proofs -------------------------
(***************************************************************************)
(* Proofs about TaskDispatch.tla for every number of cores, slots, tasks,  *)
(* submissions and cancels: the variables keep their types, a TCB that a   *)
(* cancel marked is never started, the reference counts are exact, nothing *)
(* is left behind, and the dispatch is safe while the hardware cannot      *)
(* cancel a job.                                                           *)
(*                                                                         *)
(* The first two are not inductive alone.  Pointers adds that a thread     *)
(* has a slot wherever it uses one, without which TypeOK says nothing of   *)
(* the TCB it reads; Pending adds that the TCB of a queued task is neither *)
(* marked nor started, which is what the status READY stands for.          *)
(***************************************************************************)
EXTENDS TaskDispatch, TLAPS, FiniteSetTheorems, WellFoundedInduction

Pointers ==
  /\ \A s \in Slots : tcb[s].status = "READY" => tcb[s].task \in Handles
  /\ \A h \in Handles : user[h].pc # "out" => user[h].slot \in Slots
  /\ \A h \in Handles : canceller[h].pc # "out" => canceller[h].slot \in Slots
  /\ daemon.pc \notin {"sleep", "query", "read"} => daemon.slot \in Slots
  /\ \A c \in Cores : core[c].pc \notin {"sleep", "get", "signal"} => core[c].slot \in Slots

Pending ==
  \A s \in Slots : /\ tcb[s].status = "READY" => ~marked[s] /\ ~started[s]
                   /\ ~(marked[s] /\ started[s])

Inv == TypeOK /\ Pointers /\ Pending

USE DEF Statuses, Results, UserPcs, DaemonPcs, CorePcs, CancelPcs

-----------------------------------------------------------------------------
(* The operations of the table keep the types of nodes and TCBs, and touch *)
(* nothing of a TCB but its wait_signal.                                   *)
LEMMA TakeRefTypes ==
  ASSUME TypeOK, NEW s \in Slots, TakeRef(s)
  PROVE  node' \in [Slots -> Nodes]
<1>1. node \in [Slots -> Nodes] BY DEF TypeOK
<1>2. [node[s] EXCEPT !.ref = @ + 1] \in Nodes BY <1>1 DEF Nodes
<1>3. QED BY <1>1, <1>2, Zenon DEF TakeRef

LEMMA FreeNodeType ==
  ASSUME NEW n \in Nodes
  PROVE  FreeNode(n) \in Nodes
BY DEF FreeNode, Nodes

LEMMA MarkRemovedTypes ==
  ASSUME TypeOK, NEW s, MarkRemoved(s)
  PROVE  node' \in [Slots -> Nodes]
<1>1. node \in [Slots -> Nodes] BY DEF TypeOK
<1>2. CASE ~Used(s) BY <1>1, <1>2 DEF MarkRemoved
<1>3. CASE Used(s)
  <2>1. s \in Slots /\ node[s] \in Nodes BY <1>1, <1>3 DEF Used
  <2>2. FreeNode(node[s]) \in Nodes BY <2>1, FreeNodeType
  <2>3. [node[s] EXCEPT !.remove = TRUE] \in Nodes BY <2>1 DEF Nodes
  <2>4. QED BY <1>1, <1>3, <2>2, <2>3, Zenon DEF MarkRemoved
<1>4. QED BY <1>2, <1>3

LEMMA UnuseTypes ==
  ASSUME TypeOK, NEW s, NEW wake \in BOOLEAN, Unuse(s, wake)
  PROVE  /\ node' \in [Slots -> Nodes]
         /\ tcb' \in [Slots -> TCBs]
         /\ \A x \in Slots : tcb'[x].status = tcb[x].status /\ tcb'[x].task = tcb[x].task
<1>1. node \in [Slots -> Nodes] /\ tcb \in [Slots -> TCBs] BY DEF TypeOK
<1>2. node' \in [Slots -> Nodes]
  <2>1. CASE ~Used(s) BY <1>1, <2>1 DEF Unuse
  <2>2. CASE Used(s)
    <3>1. s \in Slots /\ node[s] \in Nodes BY <1>1, <2>2 DEF Used
    <3>2. /\ [node[s] EXCEPT !.ref = 0] \in Nodes
          /\ [node[s] EXCEPT !.ref = @ - 1] \in Nodes
      BY <3>1 DEF Nodes
    <3>3. Dropped(node[s]) \in Nodes BY <3>2, FreeNodeType DEF Dropped
    <3>4. QED BY <1>1, <2>2, <3>3, Zenon DEF Unuse
  <2>3. QED BY <2>1, <2>2
<1>3. tcb' = tcb \/ (s \in Slots /\ tcb' = [tcb EXCEPT ![s].wake = TRUE])
  BY DEF Unuse, Used
<1>4. tcb' \in [Slots -> TCBs] BY <1>1, <1>3, ZenonT(60) DEF TCBs
<1>5. \A x \in Slots : tcb'[x].status = tcb[x].status /\ tcb'[x].task = tcb[x].task
  BY <1>1, <1>3 DEF TCBs
<1>6. QED BY <1>2, <1>4, <1>5

LEMMA InitInv == Init => Inv
<1> SUFFICES ASSUME Init PROVE Inv OBVIOUS
<1> USE DispatchAssumption DEF DispatchAssumption, Init
<1>1. node \in [Slots -> Nodes] /\ tcb \in [Slots -> TCBs] BY DEF Nodes, TCBs
<1>2. /\ queue \in [Slots -> Nat]
      /\ submit_signal \in BOOLEAN
      /\ recover_signal \in [value : BOOLEAN, cond : BOOLEAN]
      /\ daemon \in Daemons
  BY DEF Daemons
<1>3. /\ dispatch \in [Cores -> BOOLEAN]
      /\ tcb_index \in [Cores -> Slots \cup {0}]
      /\ run_signal \in [Cores -> BOOLEAN]
      /\ irq \in [Cores -> BOOLEAN]
      /\ core \in [Cores -> CoreThreads]
      /\ jobs \in [Cores -> SUBSET (Handles \X Nat)]
  BY DEF CoreThreads
<1>4. user \in [Handles -> Users] /\ canceller \in [Handles -> Cancellers]
  BY DEF Users, Cancellers
<1>5. hw_cancel \in BOOLEAN OBVIOUS
<1>6. /\ started \in [Slots -> BOOLEAN]
      /\ finished \in [Handles -> BOOLEAN]
      /\ cancel_found \in SUBSET Handles
      /\ marked \in [Slots -> BOOLEAN]
  OBVIOUS
<1>7. Pointers /\ Pending BY DEF Pointers, Pending
<1>8. QED BY <1>1, <1>2, <1>3, <1>4, <1>5, <1>6, <1>7 DEF Inv, TypeOK

(* A thread that goes to another place keeps its type. *)
LEMMA GoesTypes ==
  ASSUME TypeOK
  PROVE  /\ \A h \in Handles, pc \in UserPcs : [user[h] EXCEPT !.pc = pc] \in Users
         /\ \A h \in Handles, r \in Results :
              [user[h] EXCEPT !.pc = "out", !.result = r] \in Users
         /\ \A h \in Handles, pc \in CancelPcs : [canceller[h] EXCEPT !.pc = pc] \in Cancellers
         /\ \A c \in Cores, pc \in CorePcs : [core[c] EXCEPT !.pc = pc] \in CoreThreads
         /\ \A pc \in DaemonPcs : [daemon EXCEPT !.pc = pc] \in Daemons
<1>0. user \in [Handles -> Users] BY DEF TypeOK
<1>1. \A h \in Handles, pc \in UserPcs : [user[h] EXCEPT !.pc = pc] \in Users
  BY <1>0 DEF Users
<1>2. \A h \in Handles, r \in Results : [user[h] EXCEPT !.pc = "out", !.result = r] \in Users
  BY <1>0 DEF Users
<1>3. \A h \in Handles, pc \in CancelPcs : [canceller[h] EXCEPT !.pc = pc] \in Cancellers
  <2>1. canceller \in [Handles -> Cancellers] BY DEF TypeOK
  <2>2. QED BY <2>1 DEF Cancellers
<1>4. \A c \in Cores, pc \in CorePcs : [core[c] EXCEPT !.pc = pc] \in CoreThreads
  <2>1. core \in [Cores -> CoreThreads] BY DEF TypeOK
  <2>2. QED BY <2>1 DEF CoreThreads
<1>5. \A pc \in DaemonPcs : [daemon EXCEPT !.pc = pc] \in Daemons
  <2>1. daemon \in Daemons BY DEF TypeOK
  <2>2. QED BY <2>1 DEF Daemons
<1>6. QED BY <1>1, <1>2, <1>3, <1>4, <1>5

LEMMA UserGoesTypes ==
  ASSUME TypeOK, NEW h \in Handles, NEW pc \in UserPcs, UserGoes(h, pc)
  PROVE  user' \in [Handles -> Users]
<1>1. user \in [Handles -> Users] /\ [user[h] EXCEPT !.pc = pc] \in Users
  BY GoesTypes DEF TypeOK
<1>2. QED BY <1>1 DEF UserGoes

LEMMA UserReturnsTypes ==
  ASSUME TypeOK, NEW h \in Handles, NEW r \in Results, UserReturns(h, r)
  PROVE  user' \in [Handles -> Users]
<1>1. user \in [Handles -> Users] BY DEF TypeOK
<1>2. QED BY <1>1, ZenonT(60) DEF UserReturns, Users

LEMMA CancelGoesTypes ==
  ASSUME TypeOK, NEW h \in Handles, NEW pc \in CancelPcs, CancelGoes(h, pc)
  PROVE  canceller' \in [Handles -> Cancellers]
<1>1. canceller \in [Handles -> Cancellers] /\ [canceller[h] EXCEPT !.pc = pc] \in Cancellers
  BY GoesTypes DEF TypeOK
<1>2. QED BY <1>1 DEF CancelGoes

LEMMA CoreGoesTypes ==
  ASSUME TypeOK, NEW c \in Cores, NEW pc \in CorePcs, CoreGoes(c, pc)
  PROVE  core' \in [Cores -> CoreThreads]
<1>1. core \in [Cores -> CoreThreads] /\ [core[c] EXCEPT !.pc = pc] \in CoreThreads
  BY GoesTypes DEF TypeOK
<1>2. QED BY <1>1 DEF CoreGoes

-----------------------------------------------------------------------------
(* vipdrv_task_tcb_submit and vipdrv_task_tcb_wait preserve the invariant. *)
LEMMA SubmitInsertInv ==
  ASSUME Inv, NEW h \in Handles, SubmitInsert(h)
  PROVE  Inv'
<1>1. user \in [Handles -> Users] /\ node \in [Slots -> Nodes] BY DEF Inv, TypeOK
<1>2. user[h].left \in Nat /\ user[h].left > 0 BY <1>1 DEF SubmitInsert, Users
<1>3. PICK s \in Slots :
        \/ /\ user' = [user EXCEPT ![h].left = @ - 1, ![h].result = "FAILURE"]
           /\ node' = node
        \/ /\ node' = [node EXCEPT ![s].handle = h, ![s].remove = FALSE]
           /\ user' = [user EXCEPT ![h].left = @ - 1, ![h].pc = "get", ![h].slot = s]
  BY DEF SubmitInsert, SlotsOf, Idle
<1>4. node' \in [Slots -> Nodes] BY <1>1, <1>3 DEF Nodes
<1>5. user' \in [Handles -> Users] BY <1>1, <1>2, <1>3 DEF Users
<1>6. \A x \in Handles : user'[x].pc # "out" => user'[x].slot \in Slots
  BY <1>1, <1>3 DEF Inv, Pointers, Users
<1>7. TypeOK' BY <1>4, <1>5 DEF Inv, TypeOK, SubmitInsert, hwVars, history
<1>8. Pointers' BY <1>6 DEF Inv, Pointers, SubmitInsert, hwVars
<1>9. Pending' BY DEF Inv, Pending, SubmitInsert, history
<1>10. QED BY <1>7, <1>8, <1>9 DEF Inv

LEMMA SubmitGetInv ==
  ASSUME Inv, NEW h \in Handles, SubmitGet(h)
  PROVE  Inv'
<1>1. node' \in [Slots -> Nodes]
  BY TakeRefTypes DEF Inv, TypeOK, SubmitGet, Used
<1>2. user' \in [Handles -> Users]
  BY UserGoesTypes, UserReturnsTypes DEF Inv, TypeOK, SubmitGet
<1>3. \A x \in Handles : user'[x].pc # "out" => user'[x].slot \in Slots
  <2>1. user \in [Handles -> Users] BY DEF Inv, TypeOK
  <2>2. QED BY <2>1 DEF Inv, Pointers, SubmitGet, UserGoes, UserReturns, Users
<1>4. TypeOK' BY <1>1, <1>2 DEF Inv, TypeOK, SubmitGet, hwVars, history
<1>5. Pointers' BY <1>3 DEF Inv, Pointers, SubmitGet, hwVars
<1>6. Pending' BY DEF Inv, Pending, SubmitGet, history
<1>7. QED BY <1>4, <1>5, <1>6 DEF Inv

LEMMA SubmitEnqueueInv ==
  ASSUME Inv, NEW h \in Handles, SubmitEnqueue(h)
  PROVE  Inv'
<1> DEFINE s == user[h].slot
<1>1. s \in Slots BY DEF Inv, TypeOK, SubmitEnqueue, Pointers
<1>2. user' \in [Handles -> Users]
  BY UserGoesTypes DEF Inv, TypeOK, SubmitEnqueue
<1>3. \A x \in Handles : user'[x].pc # "out" => user'[x].slot \in Slots
  <2>1. user \in [Handles -> Users] BY DEF Inv, TypeOK
  <2>2. QED BY <2>1 DEF Inv, Pointers, SubmitEnqueue, UserGoes, Users
<1>4. CASE node[s].remove
  <2>1. UNCHANGED <<tcb, queue, history>> BY <1>4 DEF SubmitEnqueue
  <2>2. TypeOK' BY <1>2, <2>1 DEF Inv, TypeOK, SubmitEnqueue, hwVars, history
  <2>3. Pointers' BY <1>3, <2>1 DEF Inv, Pointers, SubmitEnqueue, hwVars
  <2>4. Pending' BY <2>1 DEF Inv, Pending, history
  <2>5. QED BY <2>2, <2>3, <2>4 DEF Inv
<1>5. CASE ~node[s].remove
  <2>1. tcb \in [Slots -> TCBs] BY DEF Inv, TypeOK
  <2>2. PICK need \in CoresOf[h] :
          tcb' = [tcb EXCEPT ![s] = [status |-> "READY", v2 |-> "FAILURE",
                                     task |-> h, cores |-> need, wake |-> FALSE]]
    BY <1>5 DEF SubmitEnqueue
  <2>3. need \in SUBSET Cores BY DispatchAssumption DEF DispatchAssumption
  <2>4. tcb' \in [Slots -> TCBs] BY <1>1, <2>1, <2>2, <2>3 DEF TCBs
  <2>5. /\ queue' = [queue EXCEPT ![s] = @ + 1]
        /\ started' = [started EXCEPT ![s] = FALSE]
        /\ finished' = [finished EXCEPT ![h] = FALSE]
        /\ marked' = [marked EXCEPT ![s] = FALSE]
        /\ cancel_found' = cancel_found
    BY <1>5 DEF SubmitEnqueue
  <2>6. /\ queue' \in [Slots -> Nat]
        /\ started' \in [Slots -> BOOLEAN]
        /\ finished' \in [Handles -> BOOLEAN]
        /\ marked' \in [Slots -> BOOLEAN]
    BY <1>1, <2>5 DEF Inv, TypeOK
  <2>7. TypeOK'
    BY <1>2, <2>4, <2>5, <2>6 DEF Inv, TypeOK, SubmitEnqueue, hwVars
  <2>8. \A x \in Slots : tcb'[x].status = "READY" => tcb'[x].task \in Handles
    BY <2>1, <2>2 DEF Inv, Pointers
  <2>9. Pointers' BY <1>3, <2>8 DEF Inv, Pointers, SubmitEnqueue, hwVars
  <2>10. Pending' BY <1>1, <2>1, <2>2, <2>5 DEF Inv, TypeOK, Pending
  <2>11. QED BY <2>7, <2>9, <2>10 DEF Inv
<1>6. QED BY <1>4, <1>5

LEMMA SubmitUnuseInv ==
  ASSUME Inv, NEW h \in Handles, SubmitUnuse(h)
  PROVE  Inv'
<1>1. /\ node' \in [Slots -> Nodes]
      /\ tcb' \in [Slots -> TCBs]
      /\ \A x \in Slots : tcb'[x].status = tcb[x].status /\ tcb'[x].task = tcb[x].task
  BY UnuseTypes DEF Inv, TypeOK, SubmitUnuse
<1>2. user' \in [Handles -> Users]
  BY UserGoesTypes, UserReturnsTypes DEF Inv, TypeOK, SubmitUnuse
<1>3. \A x \in Handles : user'[x].pc # "out" => user'[x].slot \in Slots
  <2>1. user \in [Handles -> Users] BY DEF Inv, TypeOK
  <2>2. QED BY <2>1 DEF Inv, Pointers, SubmitUnuse, UserGoes, UserReturns, Users
<1>4. TypeOK' BY <1>1, <1>2 DEF Inv, TypeOK, SubmitUnuse, hwVars, history
<1>5. Pointers' BY <1>1, <1>3 DEF Inv, Pointers, SubmitUnuse, hwVars
<1>6. Pending' BY <1>1 DEF Inv, Pending, SubmitUnuse, history
<1>7. QED BY <1>4, <1>5, <1>6 DEF Inv

LEMMA SubmitSignalInv ==
  ASSUME Inv, NEW h \in Handles, SubmitSignal(h)
  PROVE  Inv'
<1>1. user' \in [Handles -> Users]
  BY UserGoesTypes DEF Inv, TypeOK, SubmitSignal
<1>2. TypeOK' BY <1>1 DEF Inv, TypeOK, SubmitSignal, table, hwVars, history
<1>3. Pointers'
  BY DEF Inv, TypeOK, Pointers, SubmitSignal, UserGoes, UserReturns, table, hwVars
<1>4. Pending' BY DEF Inv, Pending, SubmitSignal, table, history
<1>5. QED BY <1>2, <1>3, <1>4 DEF Inv

LEMMA WaitFindInv ==
  ASSUME Inv, NEW h \in Handles, WaitFind(h)
  PROVE  Inv'
<1>1. user \in [Handles -> Users] BY DEF Inv, TypeOK
<1>2. \/ UserReturns(h, "CANCELED")
      \/ \E s \in Slots : user' = [user EXCEPT ![h].pc = "ref", ![h].slot = s]
  BY DEF WaitFind, SlotsOf
<1>3. user' \in [Handles -> Users] BY <1>1, <1>2 DEF UserReturns, Users
<1>4. \A x \in Handles : user'[x].pc # "out" => user'[x].slot \in Slots
  BY <1>1, <1>2 DEF Inv, Pointers, UserReturns, Users
<1>5. TypeOK' BY <1>3 DEF Inv, TypeOK, WaitFind, table, hwVars, history
<1>6. Pointers' BY <1>4 DEF Inv, Pointers, WaitFind, table, hwVars
<1>7. Pending' BY DEF Inv, Pending, WaitFind, table, history
<1>8. QED BY <1>5, <1>6, <1>7 DEF Inv

LEMMA WaitRefInv ==
  ASSUME Inv, NEW h \in Handles, WaitRef(h)
  PROVE  Inv'
<1>1. user[h].slot \in Slots BY DEF Inv, TypeOK, WaitRef, Pointers
<1>2. node' \in [Slots -> Nodes]
  BY <1>1, TakeRefTypes DEF Inv, TypeOK, WaitRef
<1>3. user' \in [Handles -> Users] BY UserGoesTypes DEF Inv, TypeOK, WaitRef
<1>4. TypeOK' BY <1>1, <1>2, <1>3 DEF Inv, TypeOK, WaitRef, hwVars, history
<1>5. Pointers' BY DEF Inv, TypeOK, Pointers, WaitRef, UserGoes, hwVars
<1>6. Pending' BY DEF Inv, Pending, WaitRef, history
<1>7. QED BY <1>4, <1>5, <1>6 DEF Inv

LEMMA WaitCheckInv ==
  ASSUME Inv, NEW h \in Handles, WaitCheck(h)
  PROVE  Inv'
<1>1. user' \in [Handles -> Users]
  <2>1. user \in [Handles -> Users] BY DEF Inv, TypeOK
  <2>2. QED BY <2>1, ZenonT(60) DEF WaitCheck, Users
<1>2. TypeOK' BY <1>1 DEF Inv, TypeOK, WaitCheck, table, hwVars, history
<1>3. Pointers' BY DEF Inv, TypeOK, Pointers, WaitCheck, UserGoes, table, hwVars
<1>4. Pending' BY DEF Inv, Pending, WaitCheck, table, history
<1>5. QED BY <1>2, <1>3, <1>4 DEF Inv

LEMMA WaitWokenInv ==
  ASSUME Inv, NEW h \in Handles, WaitWoken(h)
  PROVE  Inv'
<1>1. user[h].slot \in Slots BY DEF Inv, TypeOK, WaitWoken, Pointers
<1>2. tcb' \in [Slots -> TCBs]
  <2>1. tcb \in [Slots -> TCBs] BY DEF Inv, TypeOK
  <2>2. [tcb EXCEPT ![user[h].slot].wake = FALSE] \in [Slots -> TCBs]
    BY <1>1, <2>1, ZenonT(60) DEF TCBs
  <2>3. tcb' = [[tcb EXCEPT ![user[h].slot].wake = FALSE]
                  EXCEPT ![user[h].slot].status = "EMPTY"]
    BY DEF WaitWoken
  <2>4. QED BY <1>1, <2>2, <2>3 DEF TCBs
<1>3. user' \in [Handles -> Users]
  <2>1. user \in [Handles -> Users] /\ tcb \in [Slots -> TCBs] BY DEF Inv, TypeOK
  <2>2. tcb[user[h].slot].v2 \in Results BY <1>1, <2>1 DEF TCBs
  <2>3. user' = [user EXCEPT ![h].pc = "remove", ![h].result = tcb[user[h].slot].v2]
    BY DEF WaitWoken
  <2>4. QED BY <2>1, <2>2, <2>3, ZenonT(60) DEF Users
<1>4. TypeOK' BY <1>1, <1>2, <1>3 DEF Inv, TypeOK, WaitWoken, hwVars, history
<1>5. Pointers' BY DEF Inv, TypeOK, Pointers, WaitWoken, UserGoes, hwVars, TCBs
<1>6. Pending' BY DEF Inv, TypeOK, Pending, WaitWoken, history
<1>7. QED BY <1>4, <1>5, <1>6 DEF Inv

LEMMA WaitRemoveInv ==
  ASSUME Inv, NEW h \in Handles, WaitRemove(h)
  PROVE  Inv'
<1>1. node' \in [Slots -> Nodes]
  BY MarkRemovedTypes DEF Inv, TypeOK, WaitRemove
<1>2. user' \in [Handles -> Users]
  BY UserGoesTypes DEF Inv, TypeOK, WaitRemove
<1>3. TypeOK' BY <1>1, <1>2 DEF Inv, TypeOK, WaitRemove, hwVars, history
<1>4. Pointers' BY DEF Inv, TypeOK, Pointers, WaitRemove, UserGoes, hwVars
<1>5. Pending' BY DEF Inv, Pending, WaitRemove, history
<1>6. QED BY <1>3, <1>4, <1>5 DEF Inv

LEMMA WaitLeaveInv ==
  ASSUME Inv, NEW h \in Handles, WaitLeave(h)
  PROVE  Inv'
<1>1. /\ node' \in [Slots -> Nodes]
      /\ tcb' \in [Slots -> TCBs]
      /\ \A x \in Slots : tcb'[x].status = tcb[x].status /\ tcb'[x].task = tcb[x].task
  BY UnuseTypes DEF Inv, TypeOK, WaitLeave
<1>2. user' \in [Handles -> Users] BY UserGoesTypes DEF Inv, TypeOK, WaitLeave
<1>3. TypeOK' BY <1>1, <1>2 DEF Inv, TypeOK, WaitLeave, hwVars, history
<1>4. Pointers' BY <1>1 DEF Inv, TypeOK, Pointers, WaitLeave, UserGoes, hwVars, TCBs
<1>5. Pending' BY <1>1 DEF Inv, TypeOK, Pending, WaitLeave, history
<1>6. QED BY <1>3, <1>4, <1>5 DEF Inv

-----------------------------------------------------------------------------
(* So does the daemon thread: it has a slot wherever it uses one. *)
LEMMA DaemonAwakeInv ==
  ASSUME Inv, DaemonAwake
  PROVE  Inv'
<1>1. daemon' \in Daemons BY DEF Inv, TypeOK, DaemonAwake, DaemonGoes, Daemons
<1>2. TypeOK' BY <1>1 DEF Inv, TypeOK, DaemonAwake, table, hwVars, history
<1>3. Pointers' BY DEF Inv, TypeOK, Pointers, DaemonAwake, DaemonGoes, table, hwVars
<1>4. Pending' BY DEF Inv, Pending, DaemonAwake, table, history
<1>5. QED BY <1>2, <1>3, <1>4 DEF Inv

LEMMA DaemonQueryInv ==
  ASSUME Inv, DaemonQuery
  PROVE  Inv'
<1>1. daemon' \in Daemons BY DEF Inv, TypeOK, DaemonQuery, DaemonGoes, Daemons
<1>2. TypeOK' BY <1>1 DEF Inv, TypeOK, DaemonQuery, table, hwVars, history
<1>3. Pointers' BY DEF Inv, TypeOK, Pointers, DaemonQuery, DaemonGoes, table, hwVars
<1>4. Pending' BY DEF Inv, Pending, DaemonQuery, table, history
<1>5. QED BY <1>2, <1>3, <1>4 DEF Inv

LEMMA DaemonReadInv ==
  ASSUME Inv, DaemonRead
  PROVE  Inv'
<1>1. daemon' \in Daemons
  BY DEF Inv, TypeOK, DaemonRead, DaemonGoes, Daemons, Queued
<1>2. queue' \in [Slots -> Nat]
  <2>1. queue \in [Slots -> Nat] BY DEF Inv, TypeOK
  <2>2. CASE queue' = queue BY <2>1, <2>2
  <2>3. CASE queue' # queue
    <3>1. PICK s \in Slots : queue[s] > 0 /\ queue' = [queue EXCEPT ![s] = @ - 1]
      BY <2>3 DEF DaemonRead, Queued
    <3>2. queue[s] - 1 \in Nat BY <2>1, <3>1
    <3>3. QED BY <2>1, <3>1, <3>2
  <2>4. QED BY <2>2, <2>3
<1>3. TypeOK' BY <1>1, <1>2 DEF Inv, TypeOK, DaemonRead, table, hwVars, history
<1>4. Pointers'
  BY DEF Inv, TypeOK, Pointers, DaemonRead, DaemonGoes, table, hwVars, Daemons, Queued
<1>5. Pending' BY DEF Inv, Pending, DaemonRead, table, history
<1>6. QED BY <1>3, <1>4, <1>5 DEF Inv

LEMMA DaemonGetInv ==
  ASSUME Inv, DaemonGet
  PROVE  Inv'
<1>1. node' \in [Slots -> Nodes]
  BY TakeRefTypes DEF Inv, TypeOK, DaemonGet, Used
<1>2. daemon' \in Daemons BY DEF Inv, TypeOK, DaemonGet, DaemonGoes, Daemons
<1>3. TypeOK' BY <1>1, <1>2 DEF Inv, TypeOK, DaemonGet, hwVars, history
<1>4. Pointers'
  BY DEF Inv, TypeOK, Pointers, DaemonGet, DaemonGoes, hwVars, Daemons, SlotsOf, Idle
<1>5. Pending' BY DEF Inv, Pending, DaemonGet, history
<1>6. QED BY <1>3, <1>4, <1>5 DEF Inv

LEMMA DaemonCheckInv ==
  ASSUME Inv, DaemonCheck
  PROVE  Inv'
<1>1. daemon' \in Daemons BY DEF Inv, TypeOK, DaemonCheck, DaemonGoes, Daemons
<1>2. TypeOK' BY <1>1 DEF Inv, TypeOK, DaemonCheck, table, hwVars, history
<1>3. Pointers' BY DEF Inv, TypeOK, Pointers, DaemonCheck, DaemonGoes, table, hwVars
<1>4. Pending' BY DEF Inv, Pending, DaemonCheck, table, history
<1>5. QED BY <1>2, <1>3, <1>4 DEF Inv

LEMMA DaemonRemoveInv ==
  ASSUME Inv, DaemonRemove
  PROVE  Inv'
<1>1. node' \in [Slots -> Nodes]
  BY MarkRemovedTypes DEF Inv, TypeOK, DaemonRemove
<1>2. daemon' \in Daemons
  BY DEF Inv, TypeOK, DaemonRemove, DaemonGoes, Daemons
<1>3. TypeOK' BY <1>1, <1>2 DEF Inv, TypeOK, DaemonRemove, hwVars, history
<1>4. Pointers' BY DEF Inv, TypeOK, Pointers, DaemonRemove, DaemonGoes, hwVars
<1>5. Pending' BY DEF Inv, Pending, DaemonRemove, history
<1>6. QED BY <1>3, <1>4, <1>5 DEF Inv

LEMMA DaemonUnuseInv ==
  ASSUME Inv, DaemonUnuse
  PROVE  Inv'
<1>1. /\ node' \in [Slots -> Nodes]
      /\ tcb' \in [Slots -> TCBs]
      /\ \A x \in Slots : tcb'[x].status = tcb[x].status /\ tcb'[x].task = tcb[x].task
  BY UnuseTypes DEF Inv, TypeOK, DaemonUnuse
<1>2. daemon' \in Daemons BY DEF Inv, TypeOK, DaemonUnuse, DaemonGoes, Daemons
<1>3. TypeOK' BY <1>1, <1>2 DEF Inv, TypeOK, DaemonUnuse, hwVars, history
<1>4. Pointers'
  BY <1>1 DEF Inv, TypeOK, Pointers, DaemonUnuse, DaemonGoes, hwVars, TCBs
<1>5. Pending' BY <1>1 DEF Inv, TypeOK, Pending, DaemonUnuse, history
<1>6. QED BY <1>3, <1>4, <1>5 DEF Inv

LEMMA DaemonDispatchInv ==
  ASSUME Inv, DaemonDispatch
  PROVE  Inv'
<1>1. daemon.slot \in Slots BY DEF Inv, TypeOK, DaemonDispatch, Pointers
<1>2. /\ dispatch' \in [Cores -> BOOLEAN]
      /\ tcb_index' \in [Cores -> Slots \cup {0}]
      /\ run_signal' \in [Cores -> BOOLEAN]
  BY <1>1 DEF Inv, TypeOK, DaemonDispatch
<1>3. daemon' \in Daemons
  BY DEF Inv, TypeOK, DaemonDispatch, DaemonGoes, Daemons
<1>4. TypeOK' BY <1>1, <1>2, <1>3 DEF Inv, TypeOK, DaemonDispatch, table, history
<1>5. Pointers' BY DEF Inv, TypeOK, Pointers, DaemonDispatch, DaemonGoes, table
<1>6. Pending' BY DEF Inv, Pending, DaemonDispatch, table, history
<1>7. QED BY <1>4, <1>5, <1>6 DEF Inv

-----------------------------------------------------------------------------
(* So do the core threads and the hardware.  CoreSubmit starts a TCB only  *)
(* while it is READY, which by Pending means that nobody marked it.        *)
LEMMA CoreAwakeInv ==
  ASSUME Inv, NEW c \in Cores, CoreAwake(c)
  PROVE  Inv'
<1>1. core' \in [Cores -> CoreThreads]
  BY CoreGoesTypes DEF Inv, TypeOK, CoreAwake
<1>2. run_signal' \in [Cores -> BOOLEAN] BY DEF Inv, TypeOK, CoreAwake
<1>3. TypeOK' BY <1>1, <1>2 DEF Inv, TypeOK, CoreAwake, table, history
<1>4. Pointers' BY DEF Inv, TypeOK, Pointers, CoreAwake, CoreGoes, table
<1>5. Pending' BY DEF Inv, Pending, CoreAwake, table, history
<1>6. QED BY <1>3, <1>4, <1>5 DEF Inv

(* A core thread that looks its slot up takes a reference, or finds the    *)
(* slot not in use and changes no slot.                                    *)
LEMMA CoreGetTakes ==
  ASSUME NEW c \in Cores, CoreGet(c)
  PROVE  /\ tcb' = tcb
         /\ \/ /\ Used(tcb_index[c]) /\ TakeRef(tcb_index[c])
               /\ core' = [core EXCEPT ![c].pc = "inherit", ![c].slot = tcb_index[c]]
            \/ /\ ~Used(tcb_index[c]) /\ node' = node
               /\ core' = [core EXCEPT ![c].pc = "sleep"]
  BY DEF CoreGet, Unuse, CoreGoes

LEMMA CoreGetInv ==
  ASSUME Inv, NEW c \in Cores, CoreGet(c)
  PROVE  Inv'
<1>1. node' \in [Slots -> Nodes]
  BY CoreGetTakes, TakeRefTypes DEF Inv, TypeOK, Used
<1>2. core' \in [Cores -> CoreThreads]
  <2>1. core \in [Cores -> CoreThreads] BY DEF Inv, TypeOK
  <2>2. CASE Used(tcb_index[c])
    <3>1. tcb_index[c] \in Slots /\ core' = [core EXCEPT ![c].pc = "inherit", ![c].slot = tcb_index[c]]
      BY <2>2, CoreGetTakes DEF Used
    <3>2. QED BY <2>1, <3>1 DEF CoreThreads
  <2>3. CASE ~Used(tcb_index[c])
    <3>1. core' = [core EXCEPT ![c].pc = "sleep"] BY <2>3, CoreGetTakes
    <3>2. QED BY <2>1, <3>1 DEF CoreThreads
  <2>4. QED BY <2>2, <2>3
<1>3. TypeOK' BY <1>1, <1>2, CoreGetTakes DEF Inv, TypeOK, CoreGet, history
<1>4. Pointers'
  <2>1. core \in [Cores -> CoreThreads] BY DEF Inv, TypeOK
  <2>2. \A d \in Cores : core'[d].pc \notin {"sleep", "get", "signal"} => core'[d].slot \in Slots
    <3>1. CASE Used(tcb_index[c])
      <4>1. /\ tcb_index[c] \in Slots
            /\ core' = [core EXCEPT ![c].pc = "inherit", ![c].slot = tcb_index[c]]
        BY <3>1, CoreGetTakes DEF Used
      <4>2. QED BY <2>1, <4>1 DEF Inv, Pointers, CoreThreads
    <3>2. CASE ~Used(tcb_index[c]) BY <2>1, <3>2, CoreGetTakes DEF Inv, Pointers, CoreThreads
    <3>3. QED BY <3>1, <3>2
  <2>3. QED BY <2>2, CoreGetTakes DEF Inv, Pointers, CoreGet
<1>5. Pending' BY CoreGetTakes DEF Inv, Pending, CoreGet, history
<1>6. QED BY <1>3, <1>4, <1>5 DEF Inv

LEMMA CoreInheritInv ==
  ASSUME Inv, NEW c \in Cores, CoreInherit(c)
  PROVE  Inv'
<1>1. /\ node' \in [Slots -> Nodes]
      /\ tcb' \in [Slots -> TCBs]
      /\ \A x \in Slots : tcb'[x].status = tcb[x].status /\ tcb'[x].task = tcb[x].task
  BY UnuseTypes DEF Inv, TypeOK, CoreInherit
<1>2. core' \in [Cores -> CoreThreads]
  BY CoreGoesTypes DEF Inv, TypeOK, CoreInherit
<1>3. TypeOK' BY <1>1, <1>2 DEF Inv, TypeOK, CoreInherit, history
<1>4. Pointers' BY <1>1 DEF Inv, TypeOK, Pointers, CoreInherit, CoreGoes, TCBs
<1>5. Pending' BY <1>1 DEF Inv, TypeOK, Pending, CoreInherit, history
<1>6. QED BY <1>3, <1>4, <1>5 DEF Inv

LEMMA CoreSubmitInv ==
  ASSUME Inv, NEW c \in Cores, CoreSubmit(c)
  PROVE  Inv'
<1>1. core[c].slot \in Slots BY DEF Inv, TypeOK, CoreSubmit, Pointers
<1>2. tcb[core[c].slot].task \in Handles
  BY <1>1 DEF Inv, TypeOK, CoreSubmit, Pointers
<1>3. tcb' \in [Slots -> TCBs]
  <2>1. tcb \in [Slots -> TCBs] BY DEF Inv, TypeOK
  <2>2. QED BY <2>1, <1>1 DEF CoreSubmit, TCBs
<1>4. Job(tcb[core[c].slot].task) \in Handles \X Nat
  BY <1>2 DEF Inv, TypeOK, CoreSubmit, Job, Users
<1>5. jobs' \in [Cores -> SUBSET (Handles \X Nat)]
  BY <1>4 DEF Inv, TypeOK, CoreSubmit
<1>6. started' \in [Slots -> BOOLEAN] BY <1>1 DEF Inv, TypeOK, CoreSubmit
<1>7. core' \in [Cores -> CoreThreads]
  <2>1. core \in [Cores -> CoreThreads] BY DEF Inv, TypeOK
  <2>2. QED BY <2>1 DEF CoreSubmit, CoreGoes, CoreThreads
<1>8. TypeOK'
  BY <1>1, <1>2, <1>3, <1>4, <1>5, <1>6, <1>7 DEF Inv, TypeOK, CoreSubmit
<1>9. Pointers'
  <2>1. core \in [Cores -> CoreThreads] /\ tcb \in [Slots -> TCBs] BY DEF Inv, TypeOK
  <2>2. \A d \in Cores : core'[d].pc \notin {"sleep", "get", "signal"} => core'[d].slot \in Slots
    BY <1>1, <2>1 DEF Inv, Pointers, CoreSubmit, CoreGoes, CoreThreads
  <2>3. \A x \in Slots : tcb'[x].status = "READY" => tcb'[x].task \in Handles
    BY <1>1, <2>1 DEF Inv, Pointers, CoreSubmit
  <2>4. QED BY <2>2, <2>3 DEF Inv, Pointers, CoreSubmit
<1>10. Pending' BY DEF Inv, TypeOK, Pending, CoreSubmit
<1>11. QED BY <1>8, <1>9, <1>10 DEF Inv

LEMMA CoreSkipInv ==
  ASSUME Inv, NEW c \in Cores, CoreSkip(c)
  PROVE  Inv'
<1>1. core' \in [Cores -> CoreThreads]
  <2>1. core \in [Cores -> CoreThreads] BY DEF Inv, TypeOK
  <2>2. PICK wake \in BOOLEAN : core' = [core EXCEPT ![c].pc = "remove", ![c].wake = wake]
    BY DEF CoreSkip
  <2>3. QED BY <2>1, <2>2, ZenonT(60) DEF CoreThreads
<1>2. tcb_index' \in [Cores -> Slots \cup {0}] BY DEF Inv, TypeOK, CoreSkip
<1>3. TypeOK' BY <1>1, <1>2 DEF Inv, TypeOK, CoreSkip, table, history
<1>4. Pointers' BY DEF Inv, TypeOK, Pointers, CoreSkip, CoreGoes, table
<1>5. Pending' BY DEF Inv, Pending, CoreSkip, table, history
<1>6. QED BY <1>3, <1>4, <1>5 DEF Inv

LEMMA CoreRemoveInv ==
  ASSUME Inv, NEW c \in Cores, CoreRemove(c)
  PROVE  Inv'
<1>1. node' \in [Slots -> Nodes]
  BY MarkRemovedTypes DEF Inv, TypeOK, CoreRemove
<1>2. core' \in [Cores -> CoreThreads]
  BY CoreGoesTypes DEF Inv, TypeOK, CoreRemove
<1>3. TypeOK' BY <1>1, <1>2 DEF Inv, TypeOK, CoreRemove, history
<1>4. Pointers' BY DEF Inv, TypeOK, Pointers, CoreRemove, CoreGoes
<1>5. Pending' BY DEF Inv, Pending, CoreRemove, history
<1>6. QED BY <1>3, <1>4, <1>5 DEF Inv

LEMMA CoreIrqInv ==
  ASSUME Inv, NEW c \in Cores, CoreIrq(c)
  PROVE  Inv'
<1>1. core' \in [Cores -> CoreThreads]
  <2>1. core \in [Cores -> CoreThreads] BY DEF Inv, TypeOK
  <2>2. QED BY <2>1, ZenonT(60) DEF CoreIrq, CoreThreads
<1>2. irq' \in [Cores -> BOOLEAN] BY DEF Inv, TypeOK, CoreIrq
<1>3. TypeOK' BY <1>1, <1>2 DEF Inv, TypeOK, CoreIrq, table, history
<1>4. Pointers' BY DEF Inv, TypeOK, Pointers, CoreIrq, CoreGoes, table
<1>5. Pending' BY DEF Inv, Pending, CoreIrq, table, history
<1>6. QED BY <1>3, <1>4, <1>5 DEF Inv

LEMMA CoreTimeOutInv ==
  ASSUME Inv, NEW c \in Cores, CoreTimeOut(c)
  PROVE  Inv'
<1>1. core' \in [Cores -> CoreThreads]
  <2>1. core \in [Cores -> CoreThreads] BY DEF Inv, TypeOK
  <2>2. QED BY <2>1, ZenonT(60) DEF CoreTimeOut, CoreThreads
<1>2. TypeOK' BY <1>1 DEF Inv, TypeOK, CoreTimeOut, table, history
<1>3. Pointers' BY DEF Inv, TypeOK, Pointers, CoreTimeOut, CoreGoes, table
<1>4. Pending' BY DEF Inv, Pending, CoreTimeOut, table, history
<1>5. QED BY <1>2, <1>3, <1>4 DEF Inv

LEMMA CoreResultInv ==
  ASSUME Inv, NEW c \in Cores, CoreResult(c)
  PROVE  Inv'
<1>1. tcb' \in [Slots -> TCBs]
  <2>1. core \in [Cores -> CoreThreads] /\ tcb \in [Slots -> TCBs] BY DEF Inv, TypeOK
  <2>2. core[c].slot \in Slots BY DEF Inv, Pointers, CoreResult
  <2>3. core[c].status \in Results BY <2>1 DEF CoreThreads
  <2>4. tcb' = [tcb EXCEPT ![core[c].slot].v2 = core[c].status] BY DEF CoreResult
  <2>5. QED BY <2>1, <2>2, <2>3, <2>4 DEF TCBs
<1>2. core' \in [Cores -> CoreThreads]
  BY CoreGoesTypes DEF Inv, TypeOK, CoreResult
<1>3. tcb_index' \in [Cores -> Slots \cup {0}] BY DEF Inv, TypeOK, CoreResult
<1>4. TypeOK' BY <1>1, <1>2, <1>3 DEF Inv, TypeOK, CoreResult, history
<1>5. Pointers' BY DEF Inv, TypeOK, Pointers, CoreResult, CoreGoes, TCBs
<1>6. Pending' BY DEF Inv, TypeOK, Pending, CoreResult, history
<1>7. QED BY <1>4, <1>5, <1>6 DEF Inv

LEMMA CoreEndInv ==
  ASSUME Inv, NEW c \in Cores, CoreEnd(c)
  PROVE  Inv'
<1>1. tcb' \in [Slots -> TCBs]
  <2>1. tcb \in [Slots -> TCBs] BY DEF Inv, TypeOK
  <2>2. QED BY <2>1, ZenonT(60) DEF CoreEnd, TCBs
<1>2. core' \in [Cores -> CoreThreads]
  <2>1. core \in [Cores -> CoreThreads] BY DEF Inv, TypeOK
  <2>2. QED BY <2>1, ZenonT(60) DEF CoreEnd, CoreThreads
<1>3. irq' \in [Cores -> BOOLEAN] BY DEF Inv, TypeOK, CoreEnd
<1>4. recover_signal' \in [value : BOOLEAN, cond : BOOLEAN]
  BY DEF Inv, TypeOK, CoreEnd
<1>5. TypeOK' BY <1>1, <1>2, <1>3, <1>4 DEF Inv, TypeOK, CoreEnd, history
<1>6. Pointers' BY DEF Inv, TypeOK, Pointers, CoreEnd, CoreGoes, TCBs
<1>7. Pending' BY DEF Inv, TypeOK, Pending, CoreEnd, history
<1>8. QED BY <1>5, <1>6, <1>7 DEF Inv

LEMMA CoreFreeInv ==
  ASSUME Inv, NEW c \in Cores, CoreFree(c)
  PROVE  Inv'
<1>1. core' \in [Cores -> CoreThreads]
  BY CoreGoesTypes DEF Inv, TypeOK, CoreFree
<1>2. dispatch' \in [Cores -> BOOLEAN] BY DEF Inv, TypeOK, CoreFree
<1>3. TypeOK' BY <1>1, <1>2 DEF Inv, TypeOK, CoreFree, table, history
<1>4. Pointers' BY DEF Inv, TypeOK, Pointers, CoreFree, CoreGoes, table
<1>5. Pending' BY DEF Inv, Pending, CoreFree, table, history
<1>6. QED BY <1>3, <1>4, <1>5 DEF Inv

LEMMA CoreUnuseInv ==
  ASSUME Inv, NEW c \in Cores, CoreUnuse(c)
  PROVE  Inv'
<1>1. core[c].wake \in BOOLEAN BY DEF Inv, TypeOK, CoreUnuse, CoreThreads
<1>2. /\ node' \in [Slots -> Nodes]
      /\ tcb' \in [Slots -> TCBs]
      /\ \A x \in Slots : tcb'[x].status = tcb[x].status /\ tcb'[x].task = tcb[x].task
  BY <1>1, UnuseTypes DEF Inv, TypeOK, CoreUnuse
<1>3. core' \in [Cores -> CoreThreads]
  BY CoreGoesTypes DEF Inv, TypeOK, CoreUnuse
<1>4. TypeOK' BY <1>1, <1>2, <1>3 DEF Inv, TypeOK, CoreUnuse, history
<1>5. Pointers' BY <1>2 DEF Inv, TypeOK, Pointers, CoreUnuse, CoreGoes, TCBs
<1>6. Pending' BY <1>2 DEF Inv, TypeOK, Pending, CoreUnuse, history
<1>7. QED BY <1>4, <1>5, <1>6 DEF Inv

LEMMA CoreSignalInv ==
  ASSUME Inv, NEW c \in Cores, CoreSignal(c)
  PROVE  Inv'
<1>1. core' \in [Cores -> CoreThreads]
  BY CoreGoesTypes DEF Inv, TypeOK, CoreSignal
<1>2. TypeOK' BY <1>1 DEF Inv, TypeOK, CoreSignal, table, history
<1>3. Pointers' BY DEF Inv, TypeOK, Pointers, CoreSignal, CoreGoes, table
<1>4. Pending' BY DEF Inv, Pending, CoreSignal, table, history
<1>5. QED BY <1>2, <1>3, <1>4 DEF Inv

LEMMA HardwareDoneInv ==
  ASSUME Inv, NEW h \in Handles, HardwareDone(h)
  PROVE  Inv'
<1>1. jobs' \in [Cores -> SUBSET (Handles \X Nat)]
  BY DEF Inv, TypeOK, HardwareDone
<1>2. irq' \in [Cores -> BOOLEAN] BY DEF Inv, TypeOK, HardwareDone
<1>3. finished' \in [Handles -> BOOLEAN] BY DEF Inv, TypeOK, HardwareDone
<1>4. TypeOK' BY <1>1, <1>2, <1>3 DEF Inv, TypeOK, HardwareDone, table
<1>5. Pointers' BY DEF Inv, TypeOK, Pointers, HardwareDone, table
<1>6. Pending' BY DEF Inv, Pending, HardwareDone, table
<1>7. QED BY <1>4, <1>5, <1>6 DEF Inv

-----------------------------------------------------------------------------
(* So does vipdrv_task_tcb_cancel: CancelReady marks a TCB only while it   *)
(* is READY, which by Pending means that it was not started.               *)
LEMMA CancelFindInv ==
  ASSUME Inv, NEW h \in Handles, CancelFind(h)
  PROVE  Inv'
<1>1. canceller' \in [Handles -> Cancellers]
  BY DEF Inv, TypeOK, CancelFind, SlotsOf, Cancellers
<1>2. TypeOK' BY <1>1 DEF Inv, TypeOK, CancelFind, table, hwVars
<1>3. Pointers'
  BY DEF Inv, TypeOK, Pointers, CancelFind, CancelGoes, table, hwVars, Cancellers, SlotsOf, Idle
<1>4. Pending' BY DEF Inv, Pending, CancelFind, table
<1>5. QED BY <1>2, <1>3, <1>4 DEF Inv

LEMMA CancelRefInv ==
  ASSUME Inv, NEW h \in Handles, CancelRef(h)
  PROVE  Inv'
<1>1. canceller[h].slot \in Slots BY DEF Inv, TypeOK, CancelRef, Pointers
<1>2. node' \in [Slots -> Nodes]
  BY <1>1, TakeRefTypes DEF Inv, TypeOK, CancelRef
<1>3. canceller' \in [Handles -> Cancellers]
  BY CancelGoesTypes DEF Inv, TypeOK, CancelRef
<1>4. TypeOK' BY <1>1, <1>2, <1>3 DEF Inv, TypeOK, CancelRef, hwVars, history
<1>5. Pointers' BY DEF Inv, TypeOK, Pointers, CancelRef, CancelGoes, hwVars
<1>6. Pending' BY DEF Inv, Pending, CancelRef, history
<1>7. QED BY <1>4, <1>5, <1>6 DEF Inv

LEMMA CancelReadyInv ==
  ASSUME Inv, NEW h \in Handles, CancelReady(h)
  PROVE  Inv'
<1>1. canceller[h].slot \in Slots BY DEF Inv, TypeOK, CancelReady, Pointers
<1>2. tcb' \in [Slots -> TCBs] BY <1>1 DEF Inv, TypeOK, CancelReady, TCBs
<1>3. marked' \in [Slots -> BOOLEAN] BY <1>1 DEF Inv, TypeOK, CancelReady
<1>4. canceller' \in [Handles -> Cancellers]
  BY CancelGoesTypes DEF Inv, TypeOK, CancelReady
<1>5. TypeOK' BY <1>1, <1>2, <1>3, <1>4 DEF Inv, TypeOK, CancelReady, hwVars
<1>6. Pointers' BY DEF Inv, TypeOK, Pointers, CancelReady, CancelGoes, hwVars, TCBs
<1>7. Pending' BY DEF Inv, TypeOK, Pending, CancelReady
<1>8. QED BY <1>5, <1>6, <1>7 DEF Inv

LEMMA CancelCleanInv ==
  ASSUME Inv, NEW h \in Handles, CancelClean(h)
  PROVE  Inv'
<1>1. queue' \in [Slots -> Nat]
  <2>1. queue \in [Slots -> Nat] BY DEF Inv, TypeOK
  <2>2. (IF queue[canceller[h].slot] > 0 THEN queue[canceller[h].slot] - 1 ELSE 0) \in Nat
    <3>1. canceller[h].slot \in Slots BY DEF Inv, Pointers, CancelClean
    <3>2. QED BY <2>1, <3>1
  <2>3. QED BY <2>1, <2>2 DEF CancelClean
<1>2. canceller' \in [Handles -> Cancellers]
  BY CancelGoesTypes DEF Inv, TypeOK, CancelClean
<1>3. TypeOK' BY <1>1, <1>2 DEF Inv, TypeOK, CancelClean, table, hwVars, history
<1>4. Pointers' BY DEF Inv, TypeOK, Pointers, CancelClean, CancelGoes, table, hwVars
<1>5. Pending' BY DEF Inv, Pending, CancelClean, table, history
<1>6. QED BY <1>3, <1>4, <1>5 DEF Inv

LEMMA CancelRunningInv ==
  ASSUME Inv, NEW h \in Handles, CancelRunning(h)
  PROVE  Inv'
<1>1. canceller' \in [Handles -> Cancellers]
  BY CancelGoesTypes DEF Inv, TypeOK, CancelRunning
<1>2. TypeOK' BY <1>1 DEF Inv, TypeOK, CancelRunning, table, hwVars, history
<1>3. Pointers'
  BY DEF Inv, TypeOK, Pointers, CancelRunning, CancelGoes, table, hwVars
<1>4. Pending' BY DEF Inv, Pending, CancelRunning, table, history
<1>5. QED BY <1>2, <1>3, <1>4 DEF Inv

LEMMA CancelWaitedInv ==
  ASSUME Inv, NEW h \in Handles, CancelWaited(h)
  PROVE  Inv'
<1>1. canceller' \in [Handles -> Cancellers]
  BY CancelGoesTypes DEF Inv, TypeOK, CancelWaited
<1>2. TypeOK' BY <1>1 DEF Inv, TypeOK, CancelWaited, table, hwVars, history
<1>3. Pointers'
  BY DEF Inv, TypeOK, Pointers, CancelWaited, CancelGoes, table, hwVars
<1>4. Pending' BY DEF Inv, Pending, CancelWaited, table, history
<1>5. QED BY <1>2, <1>3, <1>4 DEF Inv

LEMMA CancelWokenInv ==
  ASSUME Inv, NEW h \in Handles, CancelWoken(h)
  PROVE  Inv'
<1>1. canceller' \in [Handles -> Cancellers]
  BY CancelGoesTypes DEF Inv, TypeOK, CancelWoken
<1>2. TypeOK' BY <1>1 DEF Inv, TypeOK, CancelWoken, table, hwVars, history
<1>3. Pointers' BY DEF Inv, TypeOK, Pointers, CancelWoken, CancelGoes, table, hwVars
<1>4. Pending' BY DEF Inv, Pending, CancelWoken, table, history
<1>5. QED BY <1>2, <1>3, <1>4 DEF Inv

LEMMA CancelOtherInv ==
  ASSUME Inv, NEW h \in Handles, CancelOther(h)
  PROVE  Inv'
<1>1. canceller' \in [Handles -> Cancellers]
  BY CancelGoesTypes DEF Inv, TypeOK, CancelOther
<1>2. TypeOK' BY <1>1 DEF Inv, TypeOK, CancelOther, table, hwVars, history
<1>3. Pointers' BY DEF Inv, TypeOK, Pointers, CancelOther, CancelGoes, table, hwVars
<1>4. Pending' BY DEF Inv, Pending, CancelOther, table, history
<1>5. QED BY <1>2, <1>3, <1>4 DEF Inv

LEMMA CancelHardwareInv ==
  ASSUME Inv, NEW h \in Handles, CancelHardware(h)
  PROVE  Inv'
<1>1. canceller' \in [Handles -> Cancellers]
  BY CancelGoesTypes DEF Inv, TypeOK, CancelHardware
<1>2. recover_signal' \in [value : BOOLEAN, cond : BOOLEAN]
  BY DEF Inv, TypeOK, CancelHardware
<1>3. irq' \in [Cores -> BOOLEAN] BY DEF Inv, TypeOK, CancelHardware
<1>4. TypeOK' BY <1>1, <1>2, <1>3 DEF Inv, TypeOK, CancelHardware, table, history
<1>5. Pointers' BY DEF Inv, TypeOK, Pointers, CancelHardware, CancelGoes, table
<1>6. Pending' BY DEF Inv, Pending, CancelHardware, table, history
<1>7. QED BY <1>4, <1>5, <1>6 DEF Inv

LEMMA CancelAwaitInv ==
  ASSUME Inv, NEW h \in Handles, CancelAwait(h)
  PROVE  Inv'
<1>1. canceller' \in [Handles -> Cancellers]
  BY CancelGoesTypes DEF Inv, TypeOK, CancelAwait
<1>2. recover_signal' \in [value : BOOLEAN, cond : BOOLEAN]
  BY DEF Inv, TypeOK, CancelAwait
<1>3. TypeOK' BY <1>1, <1>2 DEF Inv, TypeOK, CancelAwait, table, hwVars, history
<1>4. Pointers'
  <2>1. canceller \in [Handles -> Cancellers] BY DEF Inv, TypeOK
  <2>2. \A x \in Handles : canceller'[x].pc # "out" => canceller'[x].slot \in Slots
    BY <2>1 DEF Inv, Pointers, CancelAwait, CancelGoes, Cancellers
  <2>3. QED BY <2>2 DEF Inv, Pointers, CancelAwait, table, hwVars
<1>5. Pending' BY DEF Inv, Pending, CancelAwait, table, history
<1>6. QED BY <1>3, <1>4, <1>5 DEF Inv

LEMMA CancelRemoveInv ==
  ASSUME Inv, NEW h \in Handles, CancelRemove(h)
  PROVE  Inv'
<1>1. node' \in [Slots -> Nodes]
  BY MarkRemovedTypes DEF Inv, TypeOK, CancelRemove
<1>2. canceller' \in [Handles -> Cancellers]
  BY CancelGoesTypes DEF Inv, TypeOK, CancelRemove
<1>3. TypeOK' BY <1>1, <1>2 DEF Inv, TypeOK, CancelRemove, hwVars, history
<1>4. Pointers' BY DEF Inv, TypeOK, Pointers, CancelRemove, CancelGoes, hwVars
<1>5. Pending' BY DEF Inv, Pending, CancelRemove, history
<1>6. QED BY <1>3, <1>4, <1>5 DEF Inv

LEMMA CancelUnuseInv ==
  ASSUME Inv, NEW h \in Handles, CancelUnuse(h)
  PROVE  Inv'
<1>1. /\ node' \in [Slots -> Nodes]
      /\ tcb' \in [Slots -> TCBs]
      /\ \A x \in Slots : tcb'[x].status = tcb[x].status /\ tcb'[x].task = tcb[x].task
  BY UnuseTypes DEF Inv, TypeOK, CancelUnuse
<1>2. canceller' \in [Handles -> Cancellers]
  BY CancelGoesTypes DEF Inv, TypeOK, CancelUnuse
<1>3. TypeOK' BY <1>1, <1>2 DEF Inv, TypeOK, CancelUnuse, hwVars, history
<1>4. Pointers'
  BY <1>1 DEF Inv, TypeOK, Pointers, CancelUnuse, CancelGoes, hwVars, TCBs
<1>5. Pending' BY <1>1 DEF Inv, TypeOK, Pending, CancelUnuse, history
<1>6. QED BY <1>3, <1>4, <1>5 DEF Inv

LEMMA StutterInv == ASSUME Inv, UNCHANGED vars PROVE Inv'
<1>1. TypeOK' BY DEF Inv, TypeOK, vars
<1>2. Pointers' BY DEF Inv, Pointers, vars
<1>3. Pending' BY DEF Inv, Pending, vars
<1>4. QED BY <1>1, <1>2, <1>3 DEF Inv

LEMMA NextInv == Inv /\ [Next]_vars => Inv'
<1> SUFFICES ASSUME Inv, [Next]_vars PROVE Inv' OBVIOUS
<1>1. CASE UNCHANGED vars BY <1>1, StutterInv
<1>2. CASE \E h \in Handles : SubmitInsert(h) \/ Submit(h)
  BY <1>2, SubmitInsertInv, SubmitGetInv, SubmitEnqueueInv, SubmitUnuseInv, SubmitSignalInv
     DEF Submit
<1>3. CASE \E h \in Handles : Wait(h)
  BY <1>3, WaitFindInv, WaitRefInv, WaitCheckInv, WaitWokenInv, WaitRemoveInv, WaitLeaveInv
     DEF Wait
<1>4. CASE Daemon
  BY <1>4, DaemonAwakeInv, DaemonQueryInv, DaemonReadInv, DaemonGetInv, DaemonCheckInv,
     DaemonRemoveInv, DaemonUnuseInv, DaemonDispatchInv
     DEF Daemon
<1>5. CASE \E c \in Cores : CoreThread(c)
  BY <1>5, CoreAwakeInv, CoreGetInv, CoreInheritInv, CoreSubmitInv, CoreSkipInv, CoreRemoveInv,
     CoreIrqInv, CoreTimeOutInv, CoreResultInv, CoreEndInv, CoreFreeInv, CoreUnuseInv,
     CoreSignalInv
     DEF CoreThread
<1>6. CASE \E h \in Handles : HardwareDone(h) BY <1>6, HardwareDoneInv
<1>7. CASE \E h \in Handles : CancelFind(h) \/ Cancel(h)
  BY <1>7, CancelFindInv, CancelRefInv, CancelReadyInv, CancelCleanInv, CancelRunningInv,
     CancelWaitedInv, CancelHardwareInv, CancelAwaitInv, CancelWokenInv, CancelOtherInv,
     CancelRemoveInv, CancelUnuseInv
     DEF Cancel
<1>8. QED BY <1>1, <1>2, <1>3, <1>4, <1>5, <1>6, <1>7 DEF Next

-----------------------------------------------------------------------------
(* The invariant holds in every reachable state, for every number of       *)
(* tasks, slots and cores of the device.                                   *)
THEOREM Invariance == Spec => []Inv
<1>1. QED BY InitInv, NextInv, PTL DEF Spec

(* Every variable keeps its type however the threads interleave; vipdrv_   *)
(* queue_clean never takes a task out that vipdrv_queue_read took before.  *)
THEOREM TypeCorrect == Spec => []TypeOK
<1>1. Inv => TypeOK BY DEF Inv
<1>2. QED BY <1>1, Invariance, PTL

(* No task that vipdrv_task_tcb_cancel marked while it was READY is handed *)
(* to the hardware, wherever the daemon and the core thread were then.     *)
THEOREM NeverStartedOnceCancelled == Spec => []CancelledNeverStarted
<1>1. Inv => CancelledNeverStarted BY DEF Inv, Pending, CancelledNeverStarted
<1>2. QED BY <1>1, Invariance, PTL

-----------------------------------------------------------------------------
(* The counts and the safety of the dispatch.  None of it is inductive:    *)
(* it rests on where a submitted task is, in the queue, at the daemon      *)
(* thread, handed to a core thread or worked on by one, and in one of      *)
(* these places only (Placed).  From that follow whose the cores marked    *)
(* dispatched are (Flags) and whose the slots are (Owners); while no       *)
(* cancel has found a task, also what is in a slot and how often it is     *)
(* referenced (Exact); and, while no job is cancelled or timed out, which  *)
(* jobs the hardware has (Jobs).                                           *)
HIDE DEF Statuses, Results, UserPcs, DaemonPcs, CorePcs, CancelPcs

(* The places the task of slot s can be in, and the cores it holds there. *)
InQueue(s)  == queue[s] > 0
AtDaemon(s) == daemon.slot = s /\ daemon.pc \in {"get", "check", "remove", "unuse", "dispatch"}
HandedTo(c, s) == tcb_index[c] = s /\ (run_signal[c] \/ core[c].pc \in {"get", "inherit"})
WorksOn(c, s)  ==
  core[c].slot = s /\ core[c].pc \in {"submit", "irq", "result", "end", "remove", "free", "unuse"}
CoreHas(c, s) == HandedTo(c, s) \/ WorksOn(c, s)
Carried(s) == InQueue(s) \/ AtDaemon(s) \/ \E c \in Cores : CoreHas(c, s)
Owns(c, s) == HandedTo(c, s) \/ (WorksOn(c, s) /\ core[c].pc # "unuse")

(* The task of a slot is in one place, and a core thread that is woken is  *)
(* one that has nothing to do.                                             *)
OnePlace(s) ==
  /\ queue[s] <= 1
  /\ InQueue(s) => ~AtDaemon(s) /\ \A c \in Cores : ~CoreHas(c, s)
  /\ AtDaemon(s) => \A c \in Cores : ~CoreHas(c, s)
  /\ \A c \in Cores : ~(HandedTo(c, s) /\ WorksOn(c, s))
  /\ \A c, d \in Cores : CoreHas(c, s) /\ CoreHas(d, s) => c = d

CoreSlots(c) ==
  /\ run_signal[c] => core[c].pc \in {"sleep", "unuse", "signal"}
  /\ run_signal[c] \/ core[c].pc \in {"get", "inherit"} => tcb_index[c] \in Slots
  /\ core[c].pc = "inherit" => core[c].slot = tcb_index[c]

Placed == (\A s \in Slots : OnePlace(s)) /\ (\A c \in Cores : CoreSlots(c))

(* The cores of a task that a core thread has are marked dispatched, no    *)
(* two such tasks share a core, and the daemon thread finds a task only    *)
(* cores that nobody has marked since it looked.                           *)
CoresMarked ==
  /\ \A s \in Slots : Carried(s) => tcb[s].cores # {}
  /\ \A s \in Slots, c \in Cores : CoreHas(c, s) => c = FirstCore(tcb[s].cores)
  /\ \A s \in Slots, c \in Cores : Owns(c, s) => \A x \in tcb[s].cores : dispatch[x]
  /\ \A s, t \in Slots, c, d \in Cores :
       Owns(c, s) /\ Owns(d, t) /\ s # t => tcb[s].cores \cap tcb[t].cores = {}

FlagFree ==
  /\ daemon.pc \notin {"sleep", "query"} => \A x \in daemon.flag : ~dispatch[x]
  /\ \A s \in Slots : AtDaemon(s) => tcb[s].cores \subseteq daemon.flag

Flags == CoresMarked /\ FlagFree

(* Two users in a call have two slots, each the only one with its handle;  *)
(* the TCB in it is the user's from the time it is queued, and no slot     *)
(* holds the task of a user before that.                                   *)
Waiting == {"unuse", "signal", "find", "ref", "check", "block"}

Owners ==
  /\ \A g, h \in Handles :
       user[g].pc # "out" /\ user[h].pc # "out" /\ g # h => user[g].slot # user[h].slot
  /\ \A h \in Handles : user[h].pc # "out" =>
       \A s \in Slots : node[s].handle = h => s = user[h].slot
  /\ \A h \in Handles : user[h].pc \in {"get", "enqueue"} =>
       \A s \in Slots : Carried(s) => s # user[h].slot /\ tcb[s].task # h
  /\ \A h \in Handles :
       user[h].pc \in Waiting \cup {"remove", "leave"} => tcb[user[h].slot].task = h
  /\ \A s \in Slots : Carried(s) => tcb[s].task \in Handles
  /\ \A s, t \in Slots : Carried(s) /\ Carried(t) /\ s # t => tcb[s].task # tcb[t].task

(* While no cancel has found a task: a slot is in use exactly during the   *)
(* call of its user, a task is in a place only while its user waits for    *)
(* it, and it is READY until a core thread starts it.                      *)
SlotsInUse ==
  /\ \A h \in Handles : canceller[h].pc = "out"
  /\ \A h \in Handles : user[h].pc = "out" => \A s \in Slots : node[s].handle # h
  /\ \A h \in Handles : user[h].pc # "out" =>
       /\ user[h].pc # "abandon"
       /\ node[user[h].slot].handle = h
       /\ node[user[h].slot].remove <=> user[h].pc = "leave"

TasksAwaited ==
  \A s \in Slots : Carried(s) =>
    ~tcb[s].wake /\ user[tcb[s].task].slot = s /\ user[tcb[s].task].pc \in Waiting

NoneCancelled ==
  /\ \A s \in Slots : tcb[s].v2 # "CANCELED"
  /\ \A s \in Slots : InQueue(s) \/ AtDaemon(s) => tcb[s].status = "READY"
  /\ \A c \in Cores, s \in Slots : HandedTo(c, s) => tcb[s].status = "READY"
  /\ \A c \in Cores : core[c].pc = "submit" => tcb[core[c].slot].status = "READY"
  /\ daemon.pc \notin {"remove", "unuse"}
  /\ \A c \in Cores : core[c].pc # "remove" /\ core[c].status # "CANCELED"

(* The references, counted by kind of thread, and the marks on the cores. *)
Holding == {"enqueue", "abandon", "unuse", "check", "block", "remove", "leave"}
UserHolds(s) == \E h \in Handles : user[h].slot = s /\ user[h].pc \in Holding
DaemonHolds(s) == daemon.slot = s /\ daemon.pc \in {"check", "remove", "unuse", "dispatch"}
Handed(s) == \E c \in Cores : HandedTo(c, s)
CoreHolds(s) ==
  \E c \in Cores : core[c].slot = s /\ core[c].pc \notin {"sleep", "get", "signal"}
One(b) == IF b THEN 1 ELSE 0

RefsCounted ==
  \A s \in Slots :
    node[s].ref = One(UserHolds(s)) + One(DaemonHolds(s)) + One(Handed(s)) + One(CoreHolds(s))

MarksOwned ==
  \A x \in Cores : dispatch[x] => \E c \in Cores, s \in Slots : Owns(c, s) /\ x \in tcb[s].cores

Exact == SlotsInUse /\ TasksAwaited /\ NoneCancelled /\ RefsCounted /\ MarksOwned

(* No submission can begin once a cancel has found a task. *)
Tame == cancel_found = {} \/ ~LateSubmit

Base   == Placed /\ Flags /\ Owners
Steady == Base /\ (cancel_found = {} => Exact)

(* What a step does that is not part of a cancel and begins no submission. *)
Kept == Base' /\ (Exact => Exact')

Safe == Inv /\ (Tame => Steady)

USE DEF Statuses, Results, UserPcs, DaemonPcs, CorePcs, CancelPcs

-----------------------------------------------------------------------------
(* The first core of a task is one of its cores. *)
LEMMA NatMin ==
  ASSUME NEW S \in SUBSET Nat, S # {}
  PROVE  \E c \in S : \A d \in S : c <= d
<1> DEFINE R == OpToRel(<, Nat)
<1>1. IsWellFoundedOn(R, Nat) BY NatLessThanWellFounded
<1>2. \A x, y \in Nat : y < x => <<y, x>> \in R BY DEF OpToRel
<1> HIDE DEF R
<1>3. PICK x \in S : \A y \in S : ~(<<y, x>> \in R) BY <1>1, WFMin
<1>4. ASSUME NEW y \in S PROVE x <= y
  <2>1. x \in Nat /\ y \in Nat OBVIOUS
  <2>2. ~(y < x) BY <2>1, <1>2, <1>3, Zenon
  <2>3. QED BY <2>1, <2>2
<1>5. QED BY <1>4

LEMMA FirstCoreIn ==
  ASSUME NEW S \in SUBSET Cores, S # {}
  PROVE  FirstCore(S) \in S
<1>1. S \in SUBSET Nat BY DispatchAssumption DEF DispatchAssumption
<1>2. QED BY <1>1, NatMin DEF FirstCore

-----------------------------------------------------------------------------
(* What a step must not do for a part of the invariant to survive it.  A   *)
(* step that puts no task in a new place and keeps the tasks and cores of  *)
(* the TCBs preserves Placed, but for CoreSlots, and CoresMarked.          *)
NoNewPlace ==
  \A s \in Slots :
    /\ queue'[s] <= queue[s]
    /\ AtDaemon(s)' => AtDaemon(s)
    /\ \A c \in Cores : /\ HandedTo(c, s)' => HandedTo(c, s)
                        /\ WorksOn(c, s)' => WorksOn(c, s)
                        /\ Owns(c, s)' => Owns(c, s)

SameTasks == \A s \in Slots : tcb'[s].task = tcb[s].task /\ tcb'[s].cores = tcb[s].cores

LEMMA FewerPlaces ==
  ASSUME TypeOK, TypeOK', NoNewPlace
  PROVE  /\ \A s \in Slots : InQueue(s)' => InQueue(s)
         /\ \A s \in Slots, c \in Cores : CoreHas(c, s)' => CoreHas(c, s)
         /\ \A s \in Slots : Carried(s)' => Carried(s)
<1>1. ASSUME NEW s \in Slots PROVE InQueue(s)' => InQueue(s)
  <2>1. queue[s] \in Nat /\ queue'[s] \in Nat BY DEF TypeOK
  <2>2. queue'[s] <= queue[s] BY DEF NoNewPlace
  <2>3. QED BY <2>1, <2>2 DEF InQueue
<1>2. ASSUME NEW s \in Slots, NEW c \in Cores PROVE CoreHas(c, s)' => CoreHas(c, s)
  BY DEF NoNewPlace, CoreHas
<1>3. QED BY <1>1, <1>2 DEF NoNewPlace, Carried

LEMMA OnePlaceKept ==
  ASSUME TypeOK, TypeOK', NoNewPlace, \A s \in Slots : OnePlace(s)
  PROVE  \A s \in Slots : OnePlace(s)'
<1> SUFFICES ASSUME NEW s \in Slots PROVE OnePlace(s)' OBVIOUS
<1>1. OnePlace(s) OBVIOUS
<1>2. queue'[s] <= 1
  <2>1. queue[s] \in Nat /\ queue'[s] \in Nat BY DEF TypeOK
  <2>2. queue'[s] <= queue[s] /\ queue[s] <= 1 BY <1>1 DEF NoNewPlace, OnePlace
  <2>3. QED BY <2>1, <2>2
<1>3. /\ InQueue(s)' => InQueue(s)
      /\ AtDaemon(s)' => AtDaemon(s)
      /\ \A c \in Cores : /\ HandedTo(c, s)' => HandedTo(c, s)
                          /\ WorksOn(c, s)' => WorksOn(c, s)
                          /\ CoreHas(c, s)' => CoreHas(c, s)
  BY FewerPlaces DEF NoNewPlace
<1>4. QED BY <1>1, <1>2, <1>3 DEF OnePlace

LEMMA CoresMarkedKept ==
  ASSUME SameTasks, CoresMarked,
         \A s \in Slots : Carried(s)' => Carried(s),
         \A s \in Slots, c \in Cores : /\ CoreHas(c, s)' => CoreHas(c, s)
                                       /\ Owns(c, s)' => Owns(c, s),
         \A s \in Slots, c \in Cores :
           Owns(c, s)' => \A x \in tcb[s].cores : dispatch[x] => dispatch'[x]
  PROVE  CoresMarked'
<1>1. \A s \in Slots : Carried(s)' => tcb'[s].cores # {}
  BY DEF SameTasks, CoresMarked
<1>2. \A s \in Slots, c \in Cores : CoreHas(c, s)' => c = FirstCore(tcb'[s].cores)
  BY DEF SameTasks, CoresMarked
<1>3. \A s \in Slots, c \in Cores : Owns(c, s)' => \A x \in tcb'[s].cores : dispatch'[x]
  BY DEF SameTasks, CoresMarked
<1>4. \A s, t \in Slots, c, d \in Cores :
        Owns(c, s)' /\ Owns(d, t)' /\ s # t => tcb'[s].cores \cap tcb'[t].cores = {}
  BY DEF SameTasks, CoresMarked
<1>5. QED BY <1>1, <1>2, <1>3, <1>4 DEF CoresMarked

LEMMA FlagFreeKept ==
  ASSUME SameTasks, FlagFree,
         \A s \in Slots : AtDaemon(s)' => AtDaemon(s),
         daemon'.flag = daemon.flag, daemon.flag \subseteq Cores,
         daemon'.pc \notin {"sleep", "query"} => daemon.pc \notin {"sleep", "query"},
         \A x \in Cores : dispatch'[x] => dispatch[x]
  PROVE  FlagFree'
<1>1. daemon'.pc \notin {"sleep", "query"} => \A x \in daemon'.flag : ~dispatch'[x]
  BY DEF FlagFree
<1>2. \A s \in Slots : AtDaemon(s)' => tcb'[s].cores \subseteq daemon'.flag
  BY DEF SameTasks, FlagFree
<1>3. QED BY <1>1, <1>2 DEF FlagFree

(* The threads that move a task leave the owners alone, and so does a user *)
(* that only goes on, for the table only forgets handles.                  *)
HandlesFall == \A s \in Slots : node'[s].handle \in {node[s].handle, NoHandle}

UsersGoOn ==
  \A h \in Handles :
    /\ user'[h].pc # "out" => user[h].pc # "out" /\ user'[h].slot = user[h].slot
    /\ user'[h].pc \in {"get", "enqueue"} => user[h].pc \in {"get", "enqueue"}
    /\ user'[h].pc \in Waiting \cup {"remove", "leave"} =>
         user[h].pc \in Waiting \cup {"remove", "leave"}

LEMMA OwnersKept ==
  ASSUME Inv, Inv', Owners, SameTasks, HandlesFall, UsersGoOn,
         \A s \in Slots : Carried(s)' => Carried(s)
  PROVE  Owners'
<1>1. \A g, h \in Handles :
        user'[g].pc # "out" /\ user'[h].pc # "out" /\ g # h => user'[g].slot # user'[h].slot
  BY DEF Owners, UsersGoOn
<1>2. \A h \in Handles : user'[h].pc # "out" =>
        \A s \in Slots : node'[s].handle = h => s = user'[h].slot
  BY DispatchAssumption DEF DispatchAssumption, Owners, UsersGoOn, HandlesFall
<1>3. \A h \in Handles : user'[h].pc \in {"get", "enqueue"} =>
        \A s \in Slots : Carried(s)' => s # user'[h].slot /\ tcb'[s].task # h
  BY DEF Owners, UsersGoOn, SameTasks
<1>4. \A h \in Handles :
        user'[h].pc \in Waiting \cup {"remove", "leave"} => tcb'[user'[h].slot].task = h
  <2> SUFFICES ASSUME NEW h \in Handles, user'[h].pc \in Waiting \cup {"remove", "leave"}
               PROVE  tcb'[user'[h].slot].task = h
    OBVIOUS
  <2>1. user[h].pc \in Waiting \cup {"remove", "leave"} /\ user'[h].slot = user[h].slot
    BY DEF UsersGoOn, Waiting
  <2>2. user[h].slot \in Slots BY <2>1 DEF Inv, Pointers, Waiting
  <2>3. QED BY <2>1, <2>2 DEF Owners, SameTasks
<1>5. \A s \in Slots : Carried(s)' => tcb'[s].task \in Handles
  BY DEF Owners, SameTasks
<1>6. \A s, t \in Slots : Carried(s)' /\ Carried(t)' /\ s # t => tcb'[s].task # tcb'[t].task
  BY DEF Owners, SameTasks
<1>7. QED BY <1>1, <1>2, <1>3, <1>4, <1>5, <1>6 DEF Owners

LEMMA PlacesUntouched ==
  ASSUME Inv, Inv', Placed, Flags, SameTasks,
         UNCHANGED <<queue, tcb_index, run_signal, core, dispatch, daemon>>
  PROVE  /\ Placed' /\ Flags'
         /\ \A s \in Slots : Carried(s)' <=> Carried(s)
<1>1. \A s \in Slots :
        /\ queue'[s] <= queue[s]
        /\ InQueue(s)' <=> InQueue(s)
        /\ AtDaemon(s)' <=> AtDaemon(s)
        /\ \A c \in Cores : /\ HandedTo(c, s)' <=> HandedTo(c, s)
                            /\ WorksOn(c, s)' <=> WorksOn(c, s)
                            /\ Owns(c, s)' <=> Owns(c, s)
  BY DEF Inv, TypeOK, InQueue, AtDaemon, HandedTo, WorksOn, Owns
<1>2. NoNewPlace BY <1>1 DEF NoNewPlace
<1>3. Placed'
  <2>1. \A s \in Slots : OnePlace(s)' BY <1>2, OnePlaceKept DEF Inv, Placed
  <2>2. \A c \in Cores : CoreSlots(c)' BY DEF Placed, CoreSlots
  <2>3. QED BY <2>1, <2>2 DEF Placed
<1>4. CoresMarked' BY <1>2, FewerPlaces, CoresMarkedKept DEF Inv, Flags, NoNewPlace
<1>5. FlagFree' BY <1>1, FlagFreeKept DEF Inv, TypeOK, Daemons, Flags
<1>6. \A s \in Slots : Carried(s)' <=> Carried(s) BY <1>1 DEF Carried, CoreHas
<1>7. QED BY <1>3, <1>4, <1>5, <1>6 DEF Flags

-----------------------------------------------------------------------------
(* What the operations of the table do to a node. *)
LEMMA TakeRefNodes ==
  ASSUME TypeOK, NEW s \in Slots, TakeRef(s)
  PROVE  /\ HandlesFall
         /\ \A x \in Slots : /\ node'[x].handle = node[x].handle
                             /\ node'[x].remove = node[x].remove
                             /\ node'[x].ref = IF x = s THEN node[x].ref + 1 ELSE node[x].ref
<1>1. node \in [Slots -> Nodes] BY DEF TypeOK
<1>2. QED BY <1>1 DEF TakeRef, HandlesFall, Nodes

LEMMA MarkRemovedNodes ==
  ASSUME TypeOK, NEW s \in Slots, MarkRemoved(s)
  PROVE  /\ HandlesFall
         /\ Used(s) /\ node[s].ref # 0 =>
              \A x \in Slots : /\ node'[x].handle = node[x].handle
                               /\ node'[x].remove = (x = s \/ node[x].remove)
                               /\ node'[x].ref = node[x].ref
<1>1. node \in [Slots -> Nodes] BY DEF TypeOK
<1>2. HandlesFall BY <1>1 DEF MarkRemoved, FreeNode, HandlesFall, Nodes
<1>3. ASSUME Used(s), node[s].ref # 0
      PROVE  \A x \in Slots : /\ node'[x].handle = node[x].handle
                              /\ node'[x].remove = (x = s \/ node[x].remove)
                              /\ node'[x].ref = node[x].ref
  <2>1. node' = [node EXCEPT ![s] = [@ EXCEPT !.remove = TRUE]] BY <1>3 DEF MarkRemoved
  <2>2. node'[s] = [node[s] EXCEPT !.remove = TRUE] BY <1>1, <2>1
  <2>3. \A x \in Slots : x # s => node'[x] = node[x] BY <1>1, <2>1
  <2>4. node[s] \in Nodes /\ \A x \in Slots : node[x].remove \in BOOLEAN BY <1>1 DEF Nodes
  <2>5. QED BY <2>2, <2>3, <2>4 DEF Nodes
<1>4. QED BY <1>2, <1>3

LEMMA UnuseNodes ==
  ASSUME TypeOK, NEW s \in Slots, NEW wake \in BOOLEAN, Unuse(s, wake)
  PROVE  /\ HandlesFall /\ SameTasks
         /\ \A x \in Slots : tcb'[x].status = tcb[x].status /\ tcb'[x].v2 = tcb[x].v2
         /\ \A x \in Slots : (x # s \/ ~wake) => tcb'[x].wake = tcb[x].wake
         /\ Used(s) /\ ~node[s].remove =>
              \A x \in Slots : /\ node'[x].handle = node[x].handle
                               /\ node'[x].remove = node[x].remove
                               /\ node'[x].ref = IF x = s THEN node[x].ref - 1 ELSE node[x].ref
         /\ Used(s) /\ node[s].remove /\ node[s].ref = 1 =>
              \A x \in Slots : /\ node'[x].handle = IF x = s THEN NoHandle ELSE node[x].handle
                               /\ node'[x].remove = (x # s /\ node[x].remove)
                               /\ node'[x].ref = IF x = s THEN 0 ELSE node[x].ref
<1>1. node \in [Slots -> Nodes] /\ tcb \in [Slots -> TCBs] BY DEF TypeOK
<1>2. tcb' = tcb \/ (wake /\ tcb' = [tcb EXCEPT ![s].wake = TRUE]) BY DEF Unuse
<1>3. SameTasks BY <1>1, <1>2 DEF SameTasks, TCBs
<1>4. \A x \in Slots : tcb'[x].status = tcb[x].status /\ tcb'[x].v2 = tcb[x].v2
  BY <1>1, <1>2 DEF TCBs
<1>5. \A x \in Slots : (x # s \/ ~wake) => tcb'[x].wake = tcb[x].wake
  BY <1>1, <1>2 DEF TCBs
<1>6. node' = node \/ node' = [node EXCEPT ![s] = Dropped(@)] BY DEF Unuse
<1>7. Dropped(node[s]).handle \in {node[s].handle, NoHandle}
  BY <1>1 DEF Dropped, FreeNode, Nodes
<1>8. HandlesFall BY <1>1, <1>6, <1>7 DEF HandlesFall
<1>9. ASSUME Used(s), ~node[s].remove
      PROVE  \A x \in Slots : /\ node'[x].handle = node[x].handle
                              /\ node'[x].remove = node[x].remove
                              /\ node'[x].ref = IF x = s THEN node[x].ref - 1 ELSE node[x].ref
  <2>1. node' = [node EXCEPT ![s] = Dropped(@)] BY <1>9 DEF Unuse
  <2>2. Dropped(node[s]) = [node[s] EXCEPT !.ref = node[s].ref - 1] BY <1>9 DEF Dropped
  <2>3. QED BY <1>1, <2>1, <2>2 DEF Nodes
<1>10. ASSUME Used(s), node[s].remove, node[s].ref = 1
       PROVE  \A x \in Slots : /\ node'[x].handle = IF x = s THEN NoHandle ELSE node[x].handle
                               /\ node'[x].remove = (x # s /\ node[x].remove)
                               /\ node'[x].ref = IF x = s THEN 0 ELSE node[x].ref
  <2>1. node' = [node EXCEPT ![s] = FreeNode([@ EXCEPT !.ref = 0])] BY <1>10 DEF Unuse, Dropped
  <2>2. QED BY <1>1, <2>1 DEF FreeNode, Nodes
<1>11. QED BY <1>3, <1>4, <1>5, <1>8, <1>9, <1>10

-----------------------------------------------------------------------------
(* vipdrv_task_tcb_cancel moves no task but out of the queue; and a cancel *)
(* that is under way has found its task.                                   *)
LEMMA CancelFound ==
  ASSUME Steady, NEW h \in Handles, canceller[h].pc # "out", cancel_found' = cancel_found
  PROVE  cancel_found' # {}
BY DEF Steady, Base, Exact, SlotsInUse

LEMMA CancelKeeps ==
  ASSUME Inv, Inv', Steady, SameTasks, HandlesFall, cancel_found' # {},
         UNCHANGED <<queue, tcb_index, run_signal, core, dispatch, daemon, user>>
  PROVE  Steady'
<1>1. UsersGoOn BY DEF UsersGoOn
<1>2. QED BY <1>1, PlacesUntouched, OwnersKept DEF Steady, Base

LEMMA CancelFindSteady ==
  ASSUME Inv, Inv', Steady, NEW h \in Handles, CancelFind(h)
  PROVE  Steady'
<1>1. SameTasks /\ HandlesFall BY DEF SameTasks, HandlesFall, CancelFind, table
<1>2. QED BY <1>1, CancelKeeps DEF CancelFind, table, hwVars

LEMMA CancelReadySteady ==
  ASSUME Inv, Inv', Steady, NEW h \in Handles, CancelReady(h)
  PROVE  Steady'
<1>1. tcb \in [Slots -> TCBs] BY DEF Inv, TypeOK
<1>2. SameTasks BY <1>1 DEF SameTasks, CancelReady, TCBs
<1>3. HandlesFall BY DEF HandlesFall, CancelReady
<1>4. QED BY <1>2, <1>3, CancelFound, CancelKeeps DEF CancelReady, hwVars

LEMMA CancelCleanSteady ==
  ASSUME Inv, Inv', Steady, NEW h \in Handles, CancelClean(h)
  PROVE  Steady'
<1>1. SameTasks /\ HandlesFall /\ UsersGoOn
  BY DEF SameTasks, HandlesFall, UsersGoOn, CancelClean, table
<1>2. UNCHANGED <<daemon, tcb_index, run_signal, core, dispatch>> BY DEF CancelClean, hwVars
<1>3. \A s \in Slots : queue'[s] <= queue[s]
  <2>1. queue \in [Slots -> Nat] BY DEF Inv, TypeOK
  <2>2. QED BY <2>1 DEF CancelClean
<1>4. NoNewPlace BY <1>2, <1>3 DEF NoNewPlace, AtDaemon, HandedTo, WorksOn, Owns
<1>5. Placed'
  <2>1. \A s \in Slots : OnePlace(s)' BY <1>4, OnePlaceKept DEF Inv, Steady, Base, Placed
  <2>2. \A c \in Cores : CoreSlots(c)' BY <1>2 DEF Steady, Base, Placed, CoreSlots
  <2>3. QED BY <2>1, <2>2 DEF Placed
<1>6. CoresMarked' BY <1>1, <1>2, <1>4, FewerPlaces, CoresMarkedKept DEF Inv, Steady, Base, Flags, NoNewPlace
<1>7. FlagFree'
  BY <1>1, <1>2, <1>4, FlagFreeKept DEF Inv, TypeOK, Daemons, Steady, Base, Flags, NoNewPlace
<1>8. Owners' BY <1>1, <1>4, FewerPlaces, OwnersKept DEF Inv, Steady, Base
<1>9. cancel_found' # {} BY CancelFound DEF CancelClean, history
<1>10. QED BY <1>5, <1>6, <1>7, <1>8, <1>9 DEF Steady, Base, Flags

LEMMA CancelOtherSteady ==
  ASSUME Inv, Inv', Steady, NEW h \in Handles,
         \/ CancelRunning(h) \/ CancelWaited(h) \/ CancelHardware(h)
         \/ CancelAwait(h) \/ CancelWoken(h) \/ CancelOther(h)
  PROVE  Steady'
<1>1. /\ UNCHANGED <<node, tcb, queue, tcb_index, run_signal, core, dispatch, daemon, user,
                     cancel_found>>
      /\ canceller[h].pc # "out"
  BY DEF CancelRunning, CancelWaited, CancelHardware, CancelAwait, CancelWoken, CancelOther,
         table, hwVars, history
<1>2. SameTasks /\ HandlesFall BY <1>1 DEF SameTasks, HandlesFall
<1>3. QED BY <1>1, <1>2, CancelFound, CancelKeeps

LEMMA CancelTableSteady ==
  ASSUME Inv, Inv', Steady, NEW h \in Handles,
         CancelRef(h) \/ CancelRemove(h) \/ CancelUnuse(h)
  PROVE  Steady'
<1>1. /\ UNCHANGED <<queue, tcb_index, run_signal, core, dispatch, daemon, user, cancel_found>>
      /\ canceller[h].pc # "out"
  BY DEF CancelRef, CancelRemove, CancelUnuse, hwVars, history
<1>2. canceller[h].slot \in Slots BY <1>1 DEF Inv, Pointers
<1>3. SameTasks /\ HandlesFall
  <2>1. CASE CancelRef(h) BY <1>2, <2>1, TakeRefNodes DEF Inv, SameTasks, CancelRef
  <2>2. CASE CancelRemove(h) BY <1>2, <2>2, MarkRemovedNodes DEF Inv, SameTasks, CancelRemove
  <2>3. CASE CancelUnuse(h)
    <3>1. (canceller[h].pc = "unuse_wake") \in BOOLEAN OBVIOUS
    <3>2. QED BY <1>2, <2>3, <3>1, UnuseNodes DEF Inv, CancelUnuse
  <2>4. QED BY <2>1, <2>2, <2>3
<1>4. QED BY <1>1, <1>3, CancelFound, CancelKeeps

-----------------------------------------------------------------------------
(* While no cancel has found a task, the slot of a task that is in some    *)
(* place is in use, by the user that waits for it.                         *)
LEMMA CarriedInUse ==
  ASSUME Inv, Owners, Exact, NEW s \in Slots, Carried(s)
  PROVE  /\ Used(s) /\ ~node[s].remove /\ ~tcb[s].wake
         /\ tcb[s].task \in Handles
         /\ user[tcb[s].task].slot = s /\ user[tcb[s].task].pc \in Waiting
<1>1. tcb[s].task \in Handles BY DEF Owners
<1>2. ~tcb[s].wake /\ user[tcb[s].task].slot = s /\ user[tcb[s].task].pc \in Waiting
  BY DEF Exact, TasksAwaited
<1>3. node[s].handle = tcb[s].task /\ ~node[s].remove
  BY <1>1, <1>2 DEF Exact, SlotsInUse, Waiting
<1>4. QED
  BY <1>1, <1>2, <1>3, DispatchAssumption DEF Used, DispatchAssumption

(* A step of the daemon thread or of a core thread that keeps the table as *)
(* it is, but for the counts, and puts no task in a new slot.              *)
LEMMA AwaitedKept ==
  ASSUME Exact, SameTasks, UNCHANGED <<user, canceller>>,
         \A s \in Slots : Carried(s)' => Carried(s),
         \A s \in Slots : /\ node'[s].handle = node[s].handle
                          /\ node'[s].remove = node[s].remove,
         \A s \in Slots : Carried(s)' => tcb'[s].wake = tcb[s].wake,
         Inv
  PROVE  SlotsInUse' /\ TasksAwaited'
<1>1. SlotsInUse' BY DEF Inv, Pointers, Exact, SlotsInUse
<1>2. TasksAwaited' BY DEF Exact, TasksAwaited, SameTasks
<1>3. QED BY <1>1, <1>2

LEMMA CountsKept ==
  ASSUME Exact,
         \A s \in Slots : /\ UserHolds(s)' <=> UserHolds(s)
                          /\ DaemonHolds(s)' <=> DaemonHolds(s)
                          /\ Handed(s)' <=> Handed(s)
                          /\ CoreHolds(s)' <=> CoreHolds(s)
                          /\ node'[s].ref = node[s].ref
  PROVE  RefsCounted'
BY DEF Exact, RefsCounted, One

LEMMA MarksKept ==
  ASSUME Exact, SameTasks, \A x \in Cores : dispatch'[x] => dispatch[x],
         \A x \in Cores, s \in Slots, c \in Cores :
           Owns(c, s) /\ x \in tcb[s].cores /\ dispatch'[x] => Owns(c, s)'
  PROVE  MarksOwned'
<1> SUFFICES ASSUME NEW x \in Cores, dispatch'[x]
             PROVE  \E c \in Cores, s \in Slots : Owns(c, s)' /\ x \in tcb'[s].cores
  BY DEF MarksOwned
<1>1. PICK c \in Cores, s \in Slots : Owns(c, s) /\ x \in tcb[s].cores
  BY DEF Exact, MarksOwned
<1>2. Owns(c, s)' /\ x \in tcb'[s].cores BY <1>1 DEF SameTasks
<1>3. QED BY <1>2

-----------------------------------------------------------------------------
(* vipdrv_task_daemon_thread_handle: a step that leaves the queue and the  *)
(* core threads alone.                                                     *)
LEMMA DaemonKeeps ==
  ASSUME Inv, Inv', Base, SameTasks, HandlesFall, FlagFree',
         UNCHANGED <<queue, tcb_index, run_signal, core, dispatch, user>>,
         \A s \in Slots : AtDaemon(s)' => AtDaemon(s)
  PROVE  /\ Placed' /\ Flags' /\ Owners'
         /\ \A s \in Slots : Carried(s)' => Carried(s)
         /\ \A s \in Slots : /\ UserHolds(s)' <=> UserHolds(s)
                             /\ Handed(s)' <=> Handed(s)
                             /\ CoreHolds(s)' <=> CoreHolds(s)
         /\ Exact => MarksOwned'
<1>1. \A s \in Slots :
        /\ queue'[s] <= queue[s]
        /\ InQueue(s)' <=> InQueue(s)
        /\ \A c \in Cores : /\ HandedTo(c, s)' <=> HandedTo(c, s)
                            /\ WorksOn(c, s)' <=> WorksOn(c, s)
                            /\ Owns(c, s)' <=> Owns(c, s)
  BY DEF Inv, TypeOK, InQueue, HandedTo, WorksOn, Owns
<1>2. NoNewPlace BY <1>1 DEF NoNewPlace
<1>3. Placed'
  <2>1. \A s \in Slots : OnePlace(s)' BY <1>2, OnePlaceKept DEF Inv, Base, Placed
  <2>2. \A c \in Cores : CoreSlots(c)' BY DEF Base, Placed, CoreSlots
  <2>3. QED BY <2>1, <2>2 DEF Placed
<1>4. CoresMarked' BY <1>2, FewerPlaces, CoresMarkedKept DEF Inv, Base, Flags, NoNewPlace
<1>5. \A s \in Slots : Carried(s)' => Carried(s) BY <1>2, FewerPlaces DEF Inv
<1>6. UsersGoOn BY DEF UsersGoOn
<1>7. Owners' BY <1>5, <1>6, OwnersKept DEF Base
<1>8. \A s \in Slots : /\ UserHolds(s)' <=> UserHolds(s)
                       /\ Handed(s)' <=> Handed(s)
                       /\ CoreHolds(s)' <=> CoreHolds(s)
  BY <1>1 DEF UserHolds, Handed, CoreHolds
<1>9. Exact => MarksOwned' BY <1>1, MarksKept DEF Base
<1>10. QED BY <1>3, <1>4, <1>5, <1>7, <1>8, <1>9 DEF Flags

LEMMA DaemonWakesKept ==
  ASSUME Inv, Inv', Base, DaemonAwake \/ DaemonQuery
  PROVE  Kept
<1>1. UNCHANGED <<node, tcb, queue, tcb_index, run_signal, core, dispatch, user, canceller,
                  cancel_found>>
  BY DEF DaemonAwake, DaemonQuery, table, hwVars, history
<1>2. SameTasks /\ HandlesFall BY <1>1 DEF SameTasks, HandlesFall
<1>3. daemon \in Daemons BY DEF Inv, TypeOK
<1>4. \A s \in Slots : ~AtDaemon(s) /\ ~AtDaemon(s)' /\ ~DaemonHolds(s) /\ ~DaemonHolds(s)'
  BY <1>3 DEF DaemonAwake, DaemonQuery, DaemonGoes, AtDaemon, DaemonHolds, Daemons
<1>5. FlagFree'
  <2>1. daemon'.pc \notin {"sleep", "query"} => \A x \in daemon'.flag : ~dispatch'[x]
    BY <1>1, <1>3 DEF DaemonAwake, DaemonQuery, DaemonGoes, Daemons
  <2>2. QED BY <2>1, <1>4 DEF FlagFree
<1>6. /\ Placed' /\ Flags' /\ Owners'
      /\ \A s \in Slots : Carried(s)' => Carried(s)
      /\ \A s \in Slots : /\ UserHolds(s)' <=> UserHolds(s)
                          /\ Handed(s)' <=> Handed(s)
                          /\ CoreHolds(s)' <=> CoreHolds(s)
      /\ Exact => MarksOwned'
  BY <1>1, <1>2, <1>4, <1>5, DaemonKeeps
<1>7. ASSUME Exact PROVE Exact'
  <2>1. Exact BY <1>7
  <2>2. SlotsInUse' /\ TasksAwaited' BY <2>1, <1>1, <1>2, <1>6, AwaitedKept
  <2>3. RefsCounted' BY <2>1, <1>1, <1>4, <1>6, CountsKept
  <2>4. daemon'.pc \notin {"remove", "unuse"}
    BY <1>3 DEF DaemonAwake, DaemonQuery, DaemonGoes, Daemons
  <2>5. NoneCancelled'
    BY <2>1, <2>4, <1>1, <1>4 DEF Exact, NoneCancelled, InQueue, HandedTo
  <2>6. QED BY <2>2, <2>3, <2>5, <1>1, <1>6, <1>7 DEF Exact
<1>8. QED BY <1>6, <1>7 DEF Kept, Base

LEMMA DaemonGetKept ==
  ASSUME Inv, Inv', Base, DaemonGet
  PROVE  Kept
<1> DEFINE s == daemon.slot
<1>1. /\ UNCHANGED <<tcb, queue, tcb_index, run_signal, core, dispatch, user, canceller,
                     cancel_found>>
      /\ daemon.pc = "get"
  BY DEF DaemonGet, hwVars, history
<1>2. s \in Slots BY <1>1 DEF Inv, Pointers
<1>3. SameTasks BY <1>1 DEF SameTasks
<1>4. HandlesFall BY <1>2, TakeRefNodes DEF DaemonGet, HandlesFall, Inv
<1>5. daemon \in Daemons BY DEF Inv, TypeOK
<1>6. daemon' = [daemon EXCEPT !.pc = "check"] \/ daemon' = [daemon EXCEPT !.pc = "query"]
  BY DEF DaemonGet, DaemonGoes
<1>7. \A x \in Slots : AtDaemon(x)' => AtDaemon(x)
  BY <1>1, <1>5, <1>6 DEF AtDaemon, Daemons
<1>8. FlagFree'
  BY <1>1, <1>3, <1>5, <1>6, <1>7, FlagFreeKept DEF Daemons, Base, Flags
<1>9. /\ Placed' /\ Flags' /\ Owners'
      /\ \A x \in Slots : Carried(x)' => Carried(x)
      /\ \A x \in Slots : /\ UserHolds(x)' <=> UserHolds(x)
                          /\ Handed(x)' <=> Handed(x)
                          /\ CoreHolds(x)' <=> CoreHolds(x)
      /\ Exact => MarksOwned'
  BY <1>1, <1>3, <1>4, <1>7, <1>8, DaemonKeeps
<1>10. ASSUME Exact PROVE Exact'
  <2>1. Exact BY <1>10
  <2>2. AtDaemon(s) BY <1>1 DEF AtDaemon
  <2>3. Used(s) BY <1>2, <2>1, <2>2, CarriedInUse DEF Base, Carried
  <2>4. TakeRef(s) /\ daemon' = [daemon EXCEPT !.pc = "check"]
    BY <2>3 DEF DaemonGet, DaemonGoes
  <2>5. \A x \in Slots : /\ node'[x].handle = node[x].handle
                         /\ node'[x].remove = node[x].remove
                         /\ node'[x].ref = IF x = s THEN node[x].ref + 1 ELSE node[x].ref
    BY <1>2, <2>4, TakeRefNodes DEF Inv
  <2>6. SlotsInUse' /\ TasksAwaited' BY <2>1, <2>5, <1>1, <1>3, <1>9, AwaitedKept
  <2>7. \A x \in Slots : ~DaemonHolds(x) /\ (DaemonHolds(x)' <=> x = s)
    BY <2>4, <1>1, <1>5 DEF DaemonHolds, Daemons
  <2>8. \A x \in Slots : node[x].ref \in Int BY DEF Inv, TypeOK, Nodes
  <2>9. RefsCounted' BY <2>1, <2>5, <2>7, <2>8, <1>9 DEF Exact, RefsCounted, One
  <2>10. NoneCancelled'
    BY <2>1, <2>4, <1>1, <1>5, <1>7 DEF Exact, NoneCancelled, InQueue, HandedTo, Daemons
  <2>11. QED BY <2>6, <2>9, <2>10, <1>1, <1>9, <1>10 DEF Exact
<1>11. QED BY <1>9, <1>10 DEF Kept, Base

LEMMA DaemonCheckKept ==
  ASSUME Inv, Inv', Base, DaemonCheck
  PROVE  Kept
<1> DEFINE s == daemon.slot
<1>1. /\ UNCHANGED <<node, tcb, queue, tcb_index, run_signal, core, dispatch, user, canceller,
                     cancel_found>>
      /\ daemon.pc = "check"
  BY DEF DaemonCheck, table, hwVars, history
<1>2. s \in Slots BY <1>1 DEF Inv, Pointers
<1>3. SameTasks /\ HandlesFall BY <1>1 DEF SameTasks, HandlesFall
<1>4. daemon \in Daemons BY DEF Inv, TypeOK
<1>5. /\ daemon' = [daemon EXCEPT !.pc = "dispatch"] \/ daemon' = [daemon EXCEPT !.pc = "remove"]
      /\ tcb[s].status = "READY" => daemon' = [daemon EXCEPT !.pc = "dispatch"]
  BY DEF DaemonCheck, DaemonGoes
<1>6. \A x \in Slots : AtDaemon(x)' => AtDaemon(x)
  BY <1>1, <1>4, <1>5 DEF AtDaemon, Daemons
<1>7. FlagFree'
  BY <1>1, <1>3, <1>4, <1>5, <1>6, FlagFreeKept DEF Daemons, Base, Flags
<1>8. /\ Placed' /\ Flags' /\ Owners'
      /\ \A x \in Slots : Carried(x)' => Carried(x)
      /\ \A x \in Slots : /\ UserHolds(x)' <=> UserHolds(x)
                          /\ Handed(x)' <=> Handed(x)
                          /\ CoreHolds(x)' <=> CoreHolds(x)
      /\ Exact => MarksOwned'
  BY <1>1, <1>3, <1>6, <1>7, DaemonKeeps
<1>9. ASSUME Exact PROVE Exact'
  <2>1. Exact BY <1>9
  <2>2. tcb[s].status = "READY"
    BY <2>1, <1>1, <1>2 DEF AtDaemon, Exact, NoneCancelled
  <2>3. daemon' = [daemon EXCEPT !.pc = "dispatch"] BY <2>2, <1>5
  <2>4. SlotsInUse' /\ TasksAwaited' BY <2>1, <1>1, <1>3, <1>8, AwaitedKept
  <2>5. \A x \in Slots : DaemonHolds(x)' <=> DaemonHolds(x)
    BY <2>3, <1>1, <1>4 DEF DaemonHolds, Daemons
  <2>6. RefsCounted' BY <2>1, <2>5, <1>1, <1>8, CountsKept
  <2>7. NoneCancelled'
    BY <2>1, <2>3, <1>1, <1>4, <1>6 DEF Exact, NoneCancelled, InQueue, HandedTo, Daemons
  <2>8. QED BY <2>4, <2>6, <2>7, <1>1, <1>8, <1>9 DEF Exact
<1>10. QED BY <1>8, <1>9 DEF Kept, Base

(* Nothing but a cancel sends the daemon thread there. *)
LEMMA DaemonDropsKept ==
  ASSUME Inv, Inv', Base, DaemonRemove \/ DaemonUnuse
  PROVE  Kept
<1>1. /\ UNCHANGED <<queue, tcb_index, run_signal, core, dispatch, user, cancel_found>>
      /\ daemon.pc \in {"remove", "unuse"}
      /\ daemon' = [daemon EXCEPT !.pc = "unuse"] \/ daemon' = [daemon EXCEPT !.pc = "query"]
  BY DEF DaemonRemove, DaemonUnuse, DaemonGoes, hwVars, history
<1>2. daemon.slot \in Slots BY <1>1 DEF Inv, Pointers
<1>3. SameTasks /\ HandlesFall
  <2>1. CASE DaemonRemove BY <2>1, <1>2, MarkRemovedNodes DEF Inv, DaemonRemove, SameTasks
  <2>2. CASE DaemonUnuse BY <2>2, <1>2, UnuseNodes DEF Inv, DaemonUnuse
  <2>3. QED BY <2>1, <2>2
<1>4. daemon \in Daemons BY DEF Inv, TypeOK
<1>5. \A x \in Slots : AtDaemon(x)' => AtDaemon(x) BY <1>1, <1>4 DEF AtDaemon, Daemons
<1>6. FlagFree' BY <1>1, <1>3, <1>4, <1>5, FlagFreeKept DEF Daemons, Base, Flags
<1>7. Placed' /\ Flags' /\ Owners' BY <1>1, <1>3, <1>5, <1>6, DaemonKeeps
<1>8. ~Exact BY <1>1 DEF Base, Exact, NoneCancelled
<1>9. QED BY <1>7, <1>8 DEF Kept, Base

(* vipdrv_queue_read takes the task out of the queue. *)
LEMMA DaemonReadKept ==
  ASSUME Inv, Inv', Base, DaemonRead
  PROVE  Kept
<1>1. /\ UNCHANGED <<node, tcb, tcb_index, run_signal, core, dispatch, user, canceller,
                     cancel_found>>
      /\ daemon.pc = "read"
  BY DEF DaemonRead, table, hwVars, history
<1>2. SameTasks /\ HandlesFall BY <1>1 DEF SameTasks, HandlesFall
<1>3. daemon \in Daemons BY DEF Inv, TypeOK
<1>4. \A x \in Slots : ~AtDaemon(x) /\ ~DaemonHolds(x)
  BY <1>1 DEF AtDaemon, DaemonHolds
<1>5. CASE daemon' = [daemon EXCEPT !.pc = "sleep"] /\ queue' = queue
  <2>1. \A x \in Slots : ~AtDaemon(x)' /\ ~DaemonHolds(x)'
    BY <1>3, <1>5 DEF AtDaemon, DaemonHolds, Daemons
  <2>2. daemon'.pc = "sleep" BY <1>3, <1>5 DEF Daemons
  <2>3. FlagFree' BY <2>1, <2>2 DEF FlagFree
  <2>4. /\ Placed' /\ Flags' /\ Owners'
        /\ \A s \in Slots : Carried(s)' => Carried(s)
        /\ \A s \in Slots : /\ UserHolds(s)' <=> UserHolds(s)
                            /\ Handed(s)' <=> Handed(s)
                            /\ CoreHolds(s)' <=> CoreHolds(s)
        /\ Exact => MarksOwned'
    BY <2>1, <2>3, <1>1, <1>2, <1>5, DaemonKeeps
  <2>5. ASSUME Exact PROVE Exact'
    <3>1. Exact BY <2>5
    <3>2. SlotsInUse' /\ TasksAwaited' BY <3>1, <1>1, <1>2, <2>4, AwaitedKept
    <3>3. RefsCounted' BY <3>1, <1>1, <1>4, <2>1, <2>4, CountsKept
    <3>4. NoneCancelled'
      BY <3>1, <1>1, <1>5, <2>1, <2>2 DEF Exact, NoneCancelled, InQueue, HandedTo
    <3>5. QED BY <3>2, <3>3, <3>4, <1>1, <2>4, <2>5 DEF Exact
  <2>6. QED BY <2>4, <2>5 DEF Kept, Base
<1>6. CASE \E s \in Queued : /\ FitsFlag(s)
                             /\ queue' = [queue EXCEPT ![s] = @ - 1]
                             /\ daemon' = [daemon EXCEPT !.pc = "get", !.slot = s]
  <2>1. PICK s \in Slots : /\ queue[s] > 0 /\ tcb[s].cores \subseteq daemon.flag
                           /\ queue' = [queue EXCEPT ![s] = @ - 1]
                           /\ daemon' = [daemon EXCEPT !.pc = "get", !.slot = s]
    BY <1>6 DEF Queued, FitsFlag
  <2>2. queue \in [Slots -> Nat] BY DEF Inv, TypeOK
  <2>3. OnePlace(s) BY DEF Base, Placed
  <2>4. InQueue(s) /\ ~InQueue(s)' /\ queue'[s] <= 1
    BY <2>1, <2>2, <2>3 DEF InQueue, OnePlace
  <2>5. \A x \in Slots : x # s => queue'[x] = queue[x] /\ (InQueue(x)' <=> InQueue(x))
    BY <2>1, <2>2 DEF InQueue
  <2>6. /\ daemon'.pc = "get" /\ daemon'.slot = s /\ daemon'.flag = daemon.flag
        /\ \A x \in Slots : (AtDaemon(x)' <=> x = s) /\ ~DaemonHolds(x)'
    BY <2>1, <1>3 DEF AtDaemon, DaemonHolds, Daemons
  <2>7. \A x \in Slots : \A c \in Cores :
          /\ HandedTo(c, x)' <=> HandedTo(c, x)
          /\ WorksOn(c, x)' <=> WorksOn(c, x)
          /\ Owns(c, x)' <=> Owns(c, x)
          /\ CoreHas(c, x)' <=> CoreHas(c, x)
    BY <1>1 DEF HandedTo, WorksOn, Owns, CoreHas
  <2>8. \A x \in Slots : Carried(x)' <=> Carried(x)
    BY <2>4, <2>5, <2>6, <2>7, <1>4 DEF Carried
  <2>9. Placed'
    <3>1. OnePlace(s)' BY <2>3, <2>4, <2>7 DEF OnePlace
    <3>2. \A x \in Slots : x # s => OnePlace(x)'
      BY <2>5, <2>6, <2>7 DEF OnePlace, Base, Placed
    <3>3. \A c \in Cores : CoreSlots(c)' BY <1>1 DEF Base, Placed, CoreSlots
    <3>4. QED BY <3>1, <3>2, <3>3 DEF Placed
  <2>10. CoresMarked'
    BY <2>7, <2>8, <1>1, <1>2, CoresMarkedKept DEF Base, Flags
  <2>11. FlagFree'
    <3>1. \A x \in daemon.flag : ~dispatch[x] BY <1>1 DEF Base, Flags, FlagFree
    <3>2. QED BY <3>1, <2>1, <2>6, <1>1 DEF FlagFree
  <2>12. Owners'
    <3>1. UsersGoOn BY <1>1 DEF UsersGoOn
    <3>2. QED BY <3>1, <2>8, <1>2, OwnersKept DEF Base
  <2>13. ASSUME Exact PROVE Exact'
    <3>1. Exact BY <2>13
    <3>2. SlotsInUse' /\ TasksAwaited' BY <3>1, <2>8, <1>1, <1>2, AwaitedKept
    <3>3. \A x \in Slots : /\ UserHolds(x)' <=> UserHolds(x)
                           /\ Handed(x)' <=> Handed(x)
                           /\ CoreHolds(x)' <=> CoreHolds(x)
      BY <2>7, <1>1 DEF UserHolds, Handed, CoreHolds
    <3>4. RefsCounted' BY <3>1, <3>3, <2>6, <1>1, <1>4, CountsKept
    <3>5. MarksOwned' BY <3>1, <2>7, <1>1, <1>2, MarksKept
    <3>6. tcb[s].status = "READY" BY <3>1, <2>4 DEF Exact, NoneCancelled
    <3>7. NoneCancelled'
      BY <3>1, <3>6, <2>4, <2>5, <2>6, <2>7, <1>1 DEF Exact, NoneCancelled
    <3>8. QED BY <3>2, <3>4, <3>5, <3>7 DEF Exact
  <2>14. QED BY <2>9, <2>10, <2>11, <2>12, <2>13 DEF Kept, Base, Flags
<1>7. QED BY <1>5, <1>6 DEF DaemonRead, DaemonGoes

(* DaemonDispatch marks cores that nobody owns, and wakes a core thread    *)
(* that has nothing to do: what it had it would own.                       *)
LEMMA DispatchPlaces ==
  ASSUME Inv, Base, DaemonDispatch, NEW s \in Slots, s = daemon.slot,
         NEW f, f = FirstCore(tcb[s].cores)
  PROVE  /\ AtDaemon(s) /\ Carried(s) /\ OnePlace(s)
         /\ f \in tcb[s].cores /\ f \in Cores
         /\ \A x \in tcb[s].cores : ~dispatch[x]
         /\ core[f].pc \in {"sleep", "unuse", "signal"} /\ ~run_signal[f]
         /\ \A x \in Slots : /\ InQueue(x)' <=> InQueue(x)
                             /\ ~AtDaemon(x)' /\ ~DaemonHolds(x)'
                             /\ DaemonHolds(x) <=> x = s
                             /\ AtDaemon(x) <=> x = s
         /\ \A x \in Slots, c \in Cores :
              /\ HandedTo(c, x)' <=> HandedTo(c, x) \/ (c = f /\ x = s)
              /\ WorksOn(c, x)' <=> WorksOn(c, x)
              /\ CoreHas(c, x)' <=> CoreHas(c, x) \/ (c = f /\ x = s)
              /\ Owns(c, x)' <=> Owns(c, x) \/ (c = f /\ x = s)
         /\ \A x \in Slots : Carried(x)' <=> Carried(x)
<1> DEFINE cores == tcb[s].cores
<1>1. /\ UNCHANGED <<node, tcb, queue, core, user, canceller, cancel_found>>
      /\ daemon.pc = "dispatch"
      /\ daemon' = [daemon EXCEPT !.pc = "query"]
      /\ dispatch' = [c \in Cores |-> dispatch[c] \/ c \in cores]
      /\ tcb_index' = [tcb_index EXCEPT ![f] = s]
      /\ run_signal' = [run_signal EXCEPT ![f] = TRUE]
  BY DEF DaemonDispatch, DaemonGoes, table, history
<1>2. s \in Slots OBVIOUS
<1>3. SameTasks /\ HandlesFall BY <1>1 DEF SameTasks, HandlesFall
<1>4. /\ daemon \in Daemons /\ tcb_index \in [Cores -> Slots \cup {0}]
      /\ run_signal \in [Cores -> BOOLEAN] /\ dispatch \in [Cores -> BOOLEAN]
      /\ cores \subseteq Cores
  BY <1>2 DEF Inv, TypeOK, TCBs
<1>5. AtDaemon(s) /\ Carried(s) /\ OnePlace(s)
  BY <1>1, <1>2 DEF AtDaemon, Carried, Base, Placed
<1>6. f \in cores /\ f \in Cores
  BY <1>2, <1>4, <1>5, FirstCoreIn DEF Base, Flags, CoresMarked
<1>7. \A x \in cores : ~dispatch[x]
  BY <1>1, <1>2, <1>5 DEF Base, Flags, FlagFree
<1>8. \A x \in Slots : ~Owns(f, x)
  <2> SUFFICES ASSUME NEW x \in Slots, Owns(f, x) PROVE FALSE OBVIOUS
  <2>1. CoreHas(f, x) BY DEF Owns, CoreHas
  <2>2. Carried(x) /\ f = FirstCore(tcb[x].cores) /\ tcb[x].cores # {}
    BY <2>1, <1>6 DEF Carried, Base, Flags, CoresMarked
  <2>3. tcb[x].cores \in SUBSET Cores BY DEF Inv, TypeOK, TCBs
  <2>4. f \in tcb[x].cores BY <2>2, <2>3, FirstCoreIn
  <2>5. dispatch[f] BY <2>4, <1>6 DEF Base, Flags, CoresMarked
  <2>6. QED BY <2>5, <1>6, <1>7
<1>9. core[f].pc \in {"sleep", "unuse", "signal"} /\ ~run_signal[f]
  <2>1. core[f].pc \in CorePcs BY <1>6 DEF Inv, TypeOK, CoreThreads
  <2>2. CoreSlots(f) BY <1>6 DEF Base, Placed
  <2>3. core[f].pc \notin {"sleep", "get", "signal"} => core[f].slot \in Slots
    BY <1>6 DEF Inv, Pointers
  <2>4. ~(run_signal[f] \/ core[f].pc \in {"get", "inherit"})
    BY <2>2, <1>8 DEF CoreSlots, Owns, HandedTo
  <2>5. core[f].pc \notin {"submit", "irq", "result", "end", "remove", "free"}
    BY <2>3, <1>8 DEF Owns, WorksOn
  <2>6. QED BY <2>1, <2>4, <2>5
<1>10. \A x \in Slots : /\ InQueue(x)' <=> InQueue(x)
                        /\ ~AtDaemon(x)' /\ ~DaemonHolds(x)'
                        /\ DaemonHolds(x) <=> x = s
                        /\ AtDaemon(x) <=> x = s
  BY <1>1, <1>4 DEF InQueue, AtDaemon, DaemonHolds, Daemons
<1>11. \A x \in Slots, c \in Cores :
         /\ HandedTo(c, x)' <=> HandedTo(c, x) \/ (c = f /\ x = s)
         /\ WorksOn(c, x)' <=> WorksOn(c, x)
  BY <1>1, <1>4, <1>6, <1>9 DEF HandedTo, WorksOn
<1>12. \A x \in Slots, c \in Cores :
         /\ CoreHas(c, x)' <=> CoreHas(c, x) \/ (c = f /\ x = s)
         /\ Owns(c, x)' <=> Owns(c, x) \/ (c = f /\ x = s)
  BY <1>11, <1>1 DEF CoreHas, Owns
<1>13. \A x \in Slots : Carried(x)' <=> Carried(x)
  BY <1>5, <1>6, <1>10, <1>12 DEF Carried
<1>14. \A x \in Slots, c \in Cores :
         /\ HandedTo(c, x)' <=> HandedTo(c, x) \/ (c = f /\ x = s)
         /\ WorksOn(c, x)' <=> WorksOn(c, x)
         /\ CoreHas(c, x)' <=> CoreHas(c, x) \/ (c = f /\ x = s)
         /\ Owns(c, x)' <=> Owns(c, x) \/ (c = f /\ x = s)
  BY <1>11, <1>12
<1>15. QED BY <1>5, <1>6, <1>7, <1>9, <1>10, <1>13, <1>14

LEMMA DaemonDispatchKept ==
  ASSUME Inv, Inv', Base, DaemonDispatch
  PROVE  Kept
<1>0. PICK s \in Slots : s = daemon.slot BY DEF DaemonDispatch, Inv, Pointers
<1> DEFINE cores == tcb[s].cores
           f == FirstCore(cores)
<1>1. /\ UNCHANGED <<node, tcb, queue, core, user, canceller, cancel_found>>
      /\ daemon.pc = "dispatch"
      /\ daemon' = [daemon EXCEPT !.pc = "query"]
      /\ dispatch' = [c \in Cores |-> dispatch[c] \/ c \in cores]
      /\ tcb_index' = [tcb_index EXCEPT ![f] = s]
      /\ run_signal' = [run_signal EXCEPT ![f] = TRUE]
  BY <1>0 DEF DaemonDispatch, DaemonGoes, table, history
<1>2. s \in Slots OBVIOUS
<1>3. SameTasks /\ HandlesFall BY <1>1 DEF SameTasks, HandlesFall
<1>4. /\ daemon \in Daemons /\ tcb_index \in [Cores -> Slots \cup {0}]
      /\ run_signal \in [Cores -> BOOLEAN] /\ dispatch \in [Cores -> BOOLEAN]
      /\ cores \subseteq Cores
  BY <1>2 DEF Inv, TypeOK, TCBs
<1>5. AtDaemon(s) /\ Carried(s) /\ OnePlace(s) BY <1>0, DispatchPlaces
<1>6. f \in cores /\ f \in Cores BY <1>0, DispatchPlaces
<1>7. \A x \in cores : ~dispatch[x] BY <1>0, DispatchPlaces
<1>9. core[f].pc \in {"sleep", "unuse", "signal"} /\ ~run_signal[f] BY <1>0, DispatchPlaces
<1>10. \A x \in Slots : /\ InQueue(x)' <=> InQueue(x)
                        /\ ~AtDaemon(x)' /\ ~DaemonHolds(x)'
                        /\ DaemonHolds(x) <=> x = s
                        /\ AtDaemon(x) <=> x = s
  BY <1>0, DispatchPlaces
<1>11. \A x \in Slots, c \in Cores :
         /\ HandedTo(c, x)' <=> HandedTo(c, x) \/ (c = f /\ x = s)
         /\ WorksOn(c, x)' <=> WorksOn(c, x)
  BY <1>0, DispatchPlaces, Zenon
<1>12. \A x \in Slots, c \in Cores :
         /\ CoreHas(c, x)' <=> CoreHas(c, x) \/ (c = f /\ x = s)
         /\ Owns(c, x)' <=> Owns(c, x) \/ (c = f /\ x = s)
  BY <1>0, DispatchPlaces, Zenon
<1>13. \A x \in Slots : Carried(x)' <=> Carried(x) BY <1>0, DispatchPlaces
<1>14. Placed'
  <2>1. OnePlace(s)'
    <3>1. ~InQueue(s)' /\ ~AtDaemon(s)' /\ queue'[s] <= 1
      BY <1>1, <1>2, <1>5, <1>10 DEF OnePlace
    <3>2. \A c \in Cores : ~CoreHas(c, s) BY <1>5 DEF OnePlace
    <3>3. \A c \in Cores : ~WorksOn(c, s)' BY <3>2, <1>2, <1>11 DEF CoreHas
    <3>4. \A c, d \in Cores : CoreHas(c, s)' /\ CoreHas(d, s)' => c = d
      BY <3>2, <1>2, <1>12
    <3>5. QED BY <3>1, <3>3, <3>4 DEF OnePlace
  <2>2. ASSUME NEW x \in Slots, x # s PROVE OnePlace(x)'
    <3>1. OnePlace(x) BY DEF Base, Placed
    <3>2. \A c \in Cores : /\ CoreHas(c, x)' <=> CoreHas(c, x)
                           /\ HandedTo(c, x)' <=> HandedTo(c, x)
                           /\ WorksOn(c, x)' <=> WorksOn(c, x)
      BY <2>2, <1>11, <1>12
    <3>3. QED BY <3>1, <3>2, <1>1, <1>10 DEF OnePlace
  <2>3. \A c \in Cores : CoreSlots(c)'
    BY <1>1, <1>2, <1>4, <1>6, <1>9 DEF Base, Placed, CoreSlots
  <2>4. QED BY <2>1, <2>2, <2>3 DEF Placed
<1>15. CoresMarked'
  <2>1. \A x \in Slots : Carried(x)' => tcb'[x].cores # {}
    BY <1>1, <1>13 DEF Base, Flags, CoresMarked
  <2>2. \A x \in Slots, c \in Cores : CoreHas(c, x)' => c = FirstCore(tcb'[x].cores)
    BY <1>1, <1>12 DEF Base, Flags, CoresMarked
  <2>3. \A x \in Slots, c \in Cores : Owns(c, x)' => \A d \in tcb'[x].cores : dispatch'[d]
    <3>1. \A x \in Slots : tcb[x].cores \subseteq Cores BY DEF Inv, TypeOK, TCBs
    <3>2. QED BY <3>1, <1>1, <1>4, <1>12 DEF Base, Flags, CoresMarked
  <2>4. \A x, t \in Slots, c, d \in Cores :
          Owns(c, x)' /\ Owns(d, t)' /\ x # t => tcb'[x].cores \cap tcb'[t].cores = {}
    <3>1. \A x \in Slots, c \in Cores : Owns(c, x) => tcb[x].cores \cap cores = {}
      BY <1>7 DEF Base, Flags, CoresMarked
    <3>2. QED BY <3>1, <1>1, <1>12 DEF Base, Flags, CoresMarked
  <2>5. QED BY <2>1, <2>2, <2>3, <2>4 DEF CoresMarked
<1>16. FlagFree'
  <2>1. daemon'.pc = "query" BY <1>1, <1>4 DEF Daemons
  <2>2. QED BY <2>1, <1>10 DEF FlagFree
<1>17. Owners'
  <2>1. UsersGoOn BY <1>1 DEF UsersGoOn
  <2>2. QED BY <2>1, <1>3, <1>13, OwnersKept DEF Base
<1>18. ASSUME Exact PROVE Exact'
  <2>1. Exact BY <1>18
  <2>2. SlotsInUse' /\ TasksAwaited' BY <2>1, <1>1, <1>3, <1>13, AwaitedKept
  <2>3. RefsCounted'
    <3>1. \A x \in Slots : UserHolds(x)' <=> UserHolds(x) BY <1>1 DEF UserHolds
    <3>2. \A x \in Slots : CoreHolds(x)' <=> CoreHolds(x) BY <1>1 DEF CoreHolds
    <3>3. ~Handed(s) BY <1>5 DEF OnePlace, CoreHas, Handed
    <3>4. \A x \in Slots : Handed(x)' <=> Handed(x) \/ x = s
      BY <1>6, <1>11 DEF Handed
    <3>5. QED BY <2>1, <3>1, <3>2, <3>3, <3>4, <1>1, <1>10 DEF Exact, RefsCounted, One
  <2>4. MarksOwned'
    <3> SUFFICES ASSUME NEW x \in Cores, dispatch'[x]
                 PROVE  \E c \in Cores, t \in Slots : Owns(c, t)' /\ x \in tcb'[t].cores
      BY DEF MarksOwned
    <3>1. CASE x \in cores BY <3>1, <1>1, <1>2, <1>6, <1>12
    <3>2. CASE x \notin cores
      <4>1. dispatch[x] BY <3>2, <1>1
      <4>2. PICK c \in Cores, t \in Slots : Owns(c, t) /\ x \in tcb[t].cores
        BY <4>1, <2>1 DEF Exact, MarksOwned
      <4>3. QED BY <4>2, <1>1, <1>12
    <3>3. QED BY <3>1, <3>2
  <2>5. NoneCancelled'
    <3>1. tcb[s].status = "READY" BY <2>1, <1>2, <1>5 DEF Exact, NoneCancelled
    <3>2. daemon'.pc = "query" BY <1>1, <1>4 DEF Daemons
    <3>3. QED BY <2>1, <3>1, <3>2, <1>1, <1>10, <1>11 DEF Exact, NoneCancelled
  <2>6. QED BY <2>2, <2>3, <2>4, <2>5 DEF Exact
<1>19. QED BY <1>14, <1>15, <1>16, <1>17, <1>18 DEF Kept, Base, Flags

-----------------------------------------------------------------------------
(* vipdrv_task_core_thread_handle: a step of a core thread that gives no   *)
(* core thread a task it did not have.                                     *)
LEMMA CoreKeeps ==
  ASSUME Inv, Inv', Base, SameTasks, HandlesFall,
         UNCHANGED <<queue, daemon, user>>,
         \A d \in Cores : CoreSlots(d)',
         \A x \in Cores : dispatch'[x] => dispatch[x],
         \A s \in Slots, d \in Cores :
           /\ CoreHas(d, s)' => CoreHas(d, s)
           /\ ~(HandedTo(d, s)' /\ WorksOn(d, s)')
           /\ Owns(d, s)' => Owns(d, s)
           /\ Owns(d, s)' => \A x \in tcb[s].cores : dispatch[x] => dispatch'[x]
  PROVE  /\ Placed' /\ Flags' /\ Owners'
         /\ \A s \in Slots : Carried(s)' => Carried(s)
         /\ \A s \in Slots : /\ InQueue(s)' <=> InQueue(s)
                             /\ AtDaemon(s)' <=> AtDaemon(s)
                             /\ UserHolds(s)' <=> UserHolds(s)
                             /\ DaemonHolds(s)' <=> DaemonHolds(s)
<1>1. \A s \in Slots : /\ InQueue(s)' <=> InQueue(s)
                       /\ AtDaemon(s)' <=> AtDaemon(s)
                       /\ UserHolds(s)' <=> UserHolds(s)
                       /\ DaemonHolds(s)' <=> DaemonHolds(s)
  BY DEF InQueue, AtDaemon, UserHolds, DaemonHolds
<1>2. \A s \in Slots : Carried(s)' => Carried(s) BY <1>1 DEF Carried
<1>3. ASSUME NEW s \in Slots PROVE OnePlace(s)'
  <2>1. OnePlace(s) BY DEF Base, Placed
  <2>2. queue'[s] = queue[s] OBVIOUS
  <2>3. QED BY <2>1, <2>2, <1>1 DEF OnePlace
<1>4. Placed' BY <1>3 DEF Placed
<1>5. CoresMarked' BY <1>2, CoresMarkedKept DEF Base, Flags
<1>6. FlagFree' BY <1>1, FlagFreeKept DEF Inv, TypeOK, Daemons, Base, Flags
<1>7. UsersGoOn BY DEF UsersGoOn
<1>8. Owners' BY <1>2, <1>7, OwnersKept DEF Base
<1>9. QED BY <1>1, <1>2, <1>4, <1>5, <1>6, <1>8 DEF Flags

(* Most steps leave every task where it is. *)
LEMMA CoreStays ==
  ASSUME Inv, Inv', Base, SameTasks, HandlesFall,
         UNCHANGED <<queue, daemon, user, canceller, cancel_found, dispatch>>,
         \A d \in Cores : CoreSlots(d)',
         \A s \in Slots, d \in Cores : /\ HandedTo(d, s)' <=> HandedTo(d, s)
                                       /\ WorksOn(d, s)' <=> WorksOn(d, s)
                                       /\ Owns(d, s)' <=> Owns(d, s),
         \A s \in Slots : tcb'[s].wake = tcb[s].wake,
         Exact => /\ NoneCancelled' /\ UNCHANGED node
                              /\ \A s \in Slots : CoreHolds(s)' <=> CoreHolds(s)
  PROVE  Kept
<1>1. \A s \in Slots, d \in Cores : ~(HandedTo(d, s)' /\ WorksOn(d, s)')
  BY DEF Base, Placed, OnePlace
<1>2. \A s \in Slots, d \in Cores : CoreHas(d, s)' <=> CoreHas(d, s) BY DEF CoreHas
<1>3. /\ Placed' /\ Flags' /\ Owners'
      /\ \A s \in Slots : Carried(s)' => Carried(s)
      /\ \A s \in Slots : /\ UserHolds(s)' <=> UserHolds(s)
                          /\ DaemonHolds(s)' <=> DaemonHolds(s)
  BY <1>1, <1>2, CoreKeeps
<1>4. ASSUME Exact PROVE Exact'
  <2>1. Exact BY <1>4
  <2>2. SlotsInUse' /\ TasksAwaited' BY <2>1, <1>3, <1>4, AwaitedKept
  <2>3. \A s \in Slots : Handed(s)' <=> Handed(s) BY DEF Handed
  <2>4. RefsCounted' BY <2>1, <2>3, <1>3, <1>4, CountsKept
  <2>5. MarksOwned' BY <2>1, MarksKept
  <2>6. QED BY <2>2, <2>4, <2>5, <1>4 DEF Exact
<1>5. QED BY <1>3, <1>4 DEF Kept, Base

(* What one core thread does leaves the places of the others alone. *)
LEMMA OtherCores ==
  ASSUME Inv, NEW c \in Cores, NEW d \in Cores, d # c,
         core'[d] = core[d], tcb_index'[d] = tcb_index[d], run_signal'[d] = run_signal[d]
  PROVE  /\ CoreSlots(d) => CoreSlots(d)'
         /\ \A s \in Slots : /\ HandedTo(d, s)' <=> HandedTo(d, s)
                             /\ WorksOn(d, s)' <=> WorksOn(d, s)
                             /\ Owns(d, s)' <=> Owns(d, s)
                             /\ CoreHas(d, s)' <=> CoreHas(d, s)
BY DEF CoreSlots, HandedTo, WorksOn, Owns, CoreHas

LEMMA CoreAwakeKept ==
  ASSUME Inv, Inv', Base, NEW c \in Cores, CoreAwake(c)
  PROVE  Kept
<1>1. /\ UNCHANGED <<node, tcb, queue, daemon, user, canceller, cancel_found, dispatch, tcb_index>>
      /\ core[c].pc = "sleep" /\ run_signal[c]
      /\ run_signal' = [run_signal EXCEPT ![c] = FALSE]
      /\ core' = [core EXCEPT ![c].pc = "get"]
  BY DEF CoreAwake, CoreGoes, table, history
<1>2. core \in [Cores -> CoreThreads] /\ run_signal \in [Cores -> BOOLEAN] BY DEF Inv, TypeOK
<1>3. /\ core'[c].pc = "get" /\ core'[c].slot = core[c].slot /\ core'[c].status = core[c].status
      /\ ~run_signal'[c] /\ tcb_index'[c] = tcb_index[c]
      /\ \A d \in Cores : d # c => core'[d] = core[d] /\ run_signal'[d] = run_signal[d]
  BY <1>1, <1>2 DEF CoreThreads
<1>4. SameTasks /\ HandlesFall BY <1>1 DEF SameTasks, HandlesFall
<1>5. CoreSlots(c)' BY <1>1, <1>3 DEF Base, Placed, CoreSlots
<1>6. \A s \in Slots : /\ HandedTo(c, s)' <=> HandedTo(c, s)
                       /\ WorksOn(c, s)' <=> WorksOn(c, s)
                       /\ Owns(c, s)' <=> Owns(c, s)
  BY <1>1, <1>3 DEF HandedTo, WorksOn, Owns
<1>7. \A d \in Cores : CoreSlots(d)' BY <1>1, <1>3, <1>5, OtherCores DEF Base, Placed
<1>8. \A s \in Slots, d \in Cores : /\ HandedTo(d, s)' <=> HandedTo(d, s)
                                    /\ WorksOn(d, s)' <=> WorksOn(d, s)
                                    /\ Owns(d, s)' <=> Owns(d, s)
  BY <1>1, <1>3, <1>6, OtherCores
<1>9. \A s \in Slots : CoreHolds(s)' <=> CoreHolds(s)
  BY <1>1, <1>3 DEF CoreHolds
<1>10. ASSUME Exact PROVE NoneCancelled'
  <2>1. NoneCancelled BY <1>10 DEF Base, Exact
  <2>2. QED BY <2>1, <1>1, <1>3, <1>8 DEF NoneCancelled, InQueue, AtDaemon
<1>11. QED BY <1>1, <1>4, <1>7, <1>8, <1>9, <1>10, CoreStays

LEMMA CoreSignalKept ==
  ASSUME Inv, Inv', Base, NEW c \in Cores, CoreSignal(c)
  PROVE  Kept
<1>1. /\ UNCHANGED <<node, tcb, queue, daemon, user, canceller, cancel_found, dispatch, tcb_index,
                     run_signal>>
      /\ core[c].pc = "signal"
      /\ core' = [core EXCEPT ![c].pc = "sleep"]
  BY DEF CoreSignal, CoreGoes, table, history
<1>2. core \in [Cores -> CoreThreads] BY DEF Inv, TypeOK
<1>3. /\ core'[c].pc = "sleep" /\ core'[c].slot = core[c].slot /\ core'[c].status = core[c].status
      /\ \A d \in Cores : d # c => core'[d] = core[d]
  BY <1>1, <1>2 DEF CoreThreads
<1>4. SameTasks /\ HandlesFall BY <1>1 DEF SameTasks, HandlesFall
<1>5. CoreSlots(c)' BY <1>1, <1>3 DEF Base, Placed, CoreSlots
<1>6. \A s \in Slots : /\ HandedTo(c, s)' <=> HandedTo(c, s)
                       /\ WorksOn(c, s)' <=> WorksOn(c, s)
                       /\ Owns(c, s)' <=> Owns(c, s)
  BY <1>1, <1>3 DEF HandedTo, WorksOn, Owns
<1>7. \A d \in Cores : CoreSlots(d)' BY <1>1, <1>3, <1>5, OtherCores DEF Base, Placed
<1>8. \A s \in Slots, d \in Cores : /\ HandedTo(d, s)' <=> HandedTo(d, s)
                                    /\ WorksOn(d, s)' <=> WorksOn(d, s)
                                    /\ Owns(d, s)' <=> Owns(d, s)
  BY <1>1, <1>3, <1>6, OtherCores
<1>9. \A s \in Slots : CoreHolds(s)' <=> CoreHolds(s)
  BY <1>1, <1>3 DEF CoreHolds
<1>10. ASSUME Exact PROVE NoneCancelled'
  <2>1. NoneCancelled BY <1>10 DEF Base, Exact
  <2>2. QED BY <2>1, <1>1, <1>3, <1>8 DEF NoneCancelled, InQueue, AtDaemon
<1>11. QED BY <1>1, <1>4, <1>7, <1>8, <1>9, <1>10, CoreStays

(* A core thread that goes on with its task keeps it, and is the only one  *)
(* whose place depends on the status of the TCB.                           *)
LEMMA CoreWorks ==
  ASSUME Inv, Inv', Base, NEW c \in Cores, SameTasks, HandlesFall,
         UNCHANGED <<queue, daemon, user, canceller, cancel_found, dispatch, run_signal>>,
         core[c].pc \in {"submit", "irq", "result", "end", "remove"},
         core'[c].pc \in {"irq", "result", "end", "remove", "free"},
         core'[c].slot = core[c].slot,
         \A d \in Cores : d # c => core'[d] = core[d] /\ tcb_index'[d] = tcb_index[d],
         \A s \in Slots : tcb'[s].wake = tcb[s].wake,
         Exact =>
           /\ UNCHANGED node
           /\ core'[c].pc # "remove" /\ core'[c].status # "CANCELED"
           /\ \A s \in Slots : /\ tcb'[s].v2 # "CANCELED"
                               /\ s # core[c].slot => tcb'[s].status = tcb[s].status
  PROVE  Kept
<1>1. ~run_signal[c] /\ ~run_signal'[c] BY DEF Base, Placed, CoreSlots
<1>2. CoreSlots(c)' BY <1>1 DEF CoreSlots
<1>3. \A s \in Slots : /\ HandedTo(c, s)' <=> HandedTo(c, s)
                       /\ WorksOn(c, s)' <=> WorksOn(c, s)
                       /\ Owns(c, s)' <=> Owns(c, s)
  BY <1>1 DEF HandedTo, WorksOn, Owns
<1>4. \A d \in Cores : CoreSlots(d)' BY <1>2, OtherCores DEF Base, Placed
<1>5. \A s \in Slots, d \in Cores : /\ HandedTo(d, s)' <=> HandedTo(d, s)
                                    /\ WorksOn(d, s)' <=> WorksOn(d, s)
                                    /\ Owns(d, s)' <=> Owns(d, s)
  BY <1>3, OtherCores
<1>6. \A s \in Slots : CoreHolds(s)' <=> CoreHolds(s) BY DEF CoreHolds
<1>7. ASSUME Exact PROVE NoneCancelled'
  <2>1. NoneCancelled BY <1>7 DEF Base, Exact
  <2>2. PICK s \in Slots : s = core[c].slot BY DEF Inv, Pointers
  <2>3. WorksOn(c, s) BY <2>2 DEF WorksOn
  <2>4. /\ ~InQueue(s) /\ ~AtDaemon(s)
        /\ \A d \in Cores : ~HandedTo(d, s) /\ (WorksOn(d, s) => d = c)
    BY <2>3 DEF Base, Placed, OnePlace, CoreHas
  <2>5. \A x \in Slots : (InQueue(x) \/ AtDaemon(x))' => tcb'[x].status = "READY"
    BY <2>1, <2>2, <2>4, <1>7 DEF NoneCancelled, InQueue, AtDaemon
  <2>6. \A d \in Cores, x \in Slots : HandedTo(d, x)' => tcb'[x].status = "READY"
    BY <2>1, <2>2, <2>4, <1>5, <1>7 DEF NoneCancelled
  <2>7. ASSUME NEW d \in Cores, core'[d].pc = "submit"
        PROVE  tcb'[core'[d].slot].status = "READY"
    <3>1. d # c /\ core'[d] = core[d] BY <2>7
    <3>2. core[d].slot \in Slots /\ core[d].pc = "submit" BY <2>7, <3>1 DEF Inv, Pointers
    <3>3. core[d].slot # s BY <2>4, <3>1, <3>2 DEF WorksOn
    <3>4. QED BY <2>1, <2>2, <3>1, <3>2, <3>3, <1>7 DEF NoneCancelled
  <2>8. QED BY <2>1, <2>5, <2>6, <2>7, <1>7 DEF NoneCancelled
<1>8. QED BY <1>4, <1>5, <1>6, <1>7, CoreStays

LEMMA CoreSubmitKept ==
  ASSUME Inv, Inv', Base, NEW c \in Cores, CoreSubmit(c)
  PROVE  Kept
<1>1. /\ UNCHANGED <<node, queue, daemon, user, canceller, cancel_found, dispatch, tcb_index,
                     run_signal>>
      /\ core[c].pc = "submit"
      /\ tcb' = [tcb EXCEPT ![core[c].slot].status = "INFER_START"]
      /\ \/ core' = [core EXCEPT ![c].pc = "irq"]
         \/ core' = [core EXCEPT ![c].pc = "result", ![c].status = "FAILURE"]
  BY DEF CoreSubmit, CoreGoes
<1>2. core \in [Cores -> CoreThreads] /\ tcb \in [Slots -> TCBs] BY DEF Inv, TypeOK
<1>3. /\ core'[c].pc \in {"irq", "result"} /\ core'[c].slot = core[c].slot
      /\ core'[c].status \in {core[c].status, "FAILURE"}
      /\ \A d \in Cores : d # c => core'[d] = core[d]
  BY <1>1, <1>2 DEF CoreThreads
<1>4. \A s \in Slots : /\ tcb'[s].task = tcb[s].task /\ tcb'[s].cores = tcb[s].cores
                       /\ tcb'[s].wake = tcb[s].wake /\ tcb'[s].v2 = tcb[s].v2
                       /\ s # core[c].slot => tcb'[s].status = tcb[s].status
  BY <1>1, <1>2 DEF TCBs
<1>5. SameTasks /\ HandlesFall BY <1>1, <1>4 DEF SameTasks, HandlesFall
<1>6. Exact => /\ core'[c].status # "CANCELED"
                           /\ \A s \in Slots : tcb'[s].v2 # "CANCELED"
  BY <1>3, <1>4 DEF Base, Exact, NoneCancelled
<1>7. QED BY <1>1, <1>3, <1>4, <1>5, <1>6, CoreWorks

LEMMA CoreIrqKept ==
  ASSUME Inv, Inv', Base, NEW c \in Cores, CoreIrq(c) \/ CoreTimeOut(c)
  PROVE  Kept
<1>1. /\ UNCHANGED <<node, tcb, queue, daemon, user, canceller, cancel_found, dispatch, tcb_index,
                     run_signal>>
      /\ core[c].pc = "irq"
      /\ \/ core' = [core EXCEPT ![c].pc = "result", ![c].status = "SUCCESS"]
         \/ core' = [core EXCEPT ![c].pc = "result", ![c].status = "TIMEOUT"]
  BY DEF CoreIrq, CoreTimeOut, table, history
<1>2. core \in [Cores -> CoreThreads] BY DEF Inv, TypeOK
<1>3. /\ core'[c].pc = "result" /\ core'[c].slot = core[c].slot
      /\ core'[c].status # "CANCELED"
      /\ \A d \in Cores : d # c => core'[d] = core[d]
  BY <1>1, <1>2 DEF CoreThreads
<1>4. SameTasks /\ HandlesFall BY <1>1 DEF SameTasks, HandlesFall
<1>5. Exact => \A s \in Slots : tcb'[s].v2 # "CANCELED"
  BY <1>1 DEF Base, Exact, NoneCancelled
<1>6. QED BY <1>1, <1>3, <1>4, <1>5, CoreWorks

LEMMA CoreResultKept ==
  ASSUME Inv, Inv', Base, NEW c \in Cores, CoreResult(c)
  PROVE  Kept
<1>1. /\ UNCHANGED <<node, queue, daemon, user, canceller, cancel_found, dispatch, run_signal>>
      /\ core[c].pc = "result"
      /\ tcb_index' = [tcb_index EXCEPT ![c] = 0]
      /\ tcb' = [tcb EXCEPT ![core[c].slot].v2 = core[c].status]
      /\ core' = [core EXCEPT ![c].pc = "end"]
  BY DEF CoreResult, CoreGoes, history
<1>2. /\ core \in [Cores -> CoreThreads] /\ tcb \in [Slots -> TCBs]
      /\ tcb_index \in [Cores -> Slots \cup {0}]
  BY DEF Inv, TypeOK
<1>3. /\ core'[c].pc = "end" /\ core'[c].slot = core[c].slot /\ core'[c].status = core[c].status
      /\ \A d \in Cores : d # c => core'[d] = core[d] /\ tcb_index'[d] = tcb_index[d]
  BY <1>1, <1>2 DEF CoreThreads
<1>4. \A s \in Slots : /\ tcb'[s].task = tcb[s].task /\ tcb'[s].cores = tcb[s].cores
                       /\ tcb'[s].wake = tcb[s].wake /\ tcb'[s].status = tcb[s].status
                       /\ tcb'[s].v2 \in {tcb[s].v2, core[c].status}
  BY <1>1, <1>2 DEF TCBs
<1>5. SameTasks /\ HandlesFall BY <1>1, <1>4 DEF SameTasks, HandlesFall
<1>6. Exact => /\ core'[c].status # "CANCELED"
                           /\ \A s \in Slots : tcb'[s].v2 # "CANCELED"
  BY <1>3, <1>4 DEF Base, Exact, NoneCancelled
<1>7. QED BY <1>1, <1>3, <1>4, <1>5, <1>6, CoreWorks

LEMMA CoreEndKept ==
  ASSUME Inv, Inv', Base, NEW c \in Cores, CoreEnd(c)
  PROVE  Kept
<1>1. /\ UNCHANGED <<node, queue, daemon, user, canceller, cancel_found, dispatch, run_signal,
                     tcb_index>>
      /\ core[c].pc = "end"
      /\ tcb' = [tcb EXCEPT ![core[c].slot].status = "INFER_END"]
      /\ core' = [core EXCEPT ![c].pc = "free", ![c].wake = TRUE]
  BY DEF CoreEnd, history
<1>2. core \in [Cores -> CoreThreads] /\ tcb \in [Slots -> TCBs] BY DEF Inv, TypeOK
<1>3. /\ core'[c].pc = "free" /\ core'[c].slot = core[c].slot /\ core'[c].status = core[c].status
      /\ \A d \in Cores : d # c => core'[d] = core[d]
  BY <1>1, <1>2 DEF CoreThreads
<1>4. \A s \in Slots : /\ tcb'[s].task = tcb[s].task /\ tcb'[s].cores = tcb[s].cores
                       /\ tcb'[s].wake = tcb[s].wake /\ tcb'[s].v2 = tcb[s].v2
                       /\ s # core[c].slot => tcb'[s].status = tcb[s].status
  BY <1>1, <1>2 DEF TCBs
<1>5. SameTasks /\ HandlesFall BY <1>1, <1>4 DEF SameTasks, HandlesFall
<1>6. Exact => /\ core'[c].status # "CANCELED"
                           /\ \A s \in Slots : tcb'[s].v2 # "CANCELED"
  BY <1>3, <1>4 DEF Base, Exact, NoneCancelled
<1>7. QED BY <1>1, <1>3, <1>4, <1>5, <1>6, CoreWorks

(* Nothing but a cancel sends a core thread there. *)
LEMMA CoreDropsKept ==
  ASSUME Inv, Inv', Base, NEW c \in Cores, CoreSkip(c) \/ CoreRemove(c)
  PROVE  Kept
<1>1. PICK s \in Slots : s = core[c].slot BY DEF Inv, Pointers, CoreSkip, CoreRemove
<1>2. /\ UNCHANGED <<tcb, queue, daemon, user, canceller, cancel_found, dispatch, run_signal>>
      /\ core[c].pc \in {"submit", "remove"}
      /\ core[c].pc = "submit" => tcb[s].status # "READY"
      /\ \/ \E wake \in BOOLEAN : core' = [core EXCEPT ![c].pc = "remove", ![c].wake = wake]
         \/ core' = [core EXCEPT ![c].pc = "free"]
      /\ tcb_index' = [tcb_index EXCEPT ![c] = 0] \/ tcb_index' = tcb_index
  BY <1>1 DEF CoreSkip, CoreRemove, CoreGoes, table, history
<1>3. HandlesFall
  <2>1. CASE CoreSkip(c) BY <2>1 DEF CoreSkip, table, HandlesFall
  <2>2. CASE CoreRemove(c) BY <2>2, <1>1, MarkRemovedNodes DEF Inv, CoreRemove
  <2>3. QED BY <2>1, <2>2
<1>4. /\ core \in [Cores -> CoreThreads] /\ tcb_index \in [Cores -> Slots \cup {0}]
  BY DEF Inv, TypeOK
<1>5. /\ core'[c].pc \in {"remove", "free"} /\ core'[c].slot = core[c].slot
      /\ \A d \in Cores : d # c => core'[d] = core[d] /\ tcb_index'[d] = tcb_index[d]
  BY <1>2, <1>4 DEF CoreThreads
<1>6. SameTasks BY <1>2 DEF SameTasks
<1>7. ~Exact BY <1>1, <1>2 DEF Base, Exact, NoneCancelled
<1>8. QED BY <1>2, <1>3, <1>5, <1>6, <1>7, CoreWorks

(* A core thread that is handed a task finds its slot in use, unless a     *)
(* cancel removed it; then it goes back to sleep with nothing.             *)
LEMMA CoreGetKept ==
  ASSUME Inv, Inv', Base, NEW c \in Cores, CoreGet(c)
  PROVE  Kept
<1>1. /\ UNCHANGED <<tcb, queue, daemon, user, canceller, cancel_found, dispatch, tcb_index,
                     run_signal>>
      /\ core[c].pc = "get"
  BY CoreGetTakes DEF CoreGet, history
<1>2. PICK s \in Slots : s = tcb_index[c] BY <1>1 DEF Base, Placed, CoreSlots
<1>3. core \in [Cores -> CoreThreads] /\ ~run_signal[c] /\ HandedTo(c, s)
  BY <1>1, <1>2 DEF Inv, TypeOK, Base, Placed, CoreSlots, HandedTo
<1>4. SameTasks BY <1>1 DEF SameTasks
<1>5. ASSUME ~Used(s) PROVE Kept
  <2>1. UNCHANGED node /\ core' = [core EXCEPT ![c].pc = "sleep"]
    BY <1>2, <1>5, CoreGetTakes
  <2>2. /\ core'[c].pc = "sleep"
        /\ \A d \in Cores : d # c => core'[d] = core[d]
    BY <1>3, <2>1 DEF CoreThreads
  <2>3. HandlesFall BY <2>1 DEF HandlesFall
  <2>4. CoreSlots(c)' BY <1>1, <1>3, <2>2 DEF CoreSlots
  <2>5. \A x \in Slots : ~HandedTo(c, x)' /\ ~WorksOn(c, x)' /\ ~Owns(c, x)' /\ ~CoreHas(c, x)'
    BY <1>1, <1>3, <2>2 DEF HandedTo, WorksOn, Owns, CoreHas
  <2>6. \A d \in Cores : CoreSlots(d)' BY <1>1, <2>2, <2>4, OtherCores DEF Base, Placed
  <2>7. \A x \in Slots, d \in Cores :
          /\ CoreHas(d, x)' => CoreHas(d, x)
          /\ ~(HandedTo(d, x)' /\ WorksOn(d, x)')
          /\ Owns(d, x)' => Owns(d, x)
    BY <1>1, <2>2, <2>5, OtherCores DEF Base, Placed, OnePlace
  <2>8. Placed' /\ Flags' /\ Owners' BY <1>1, <1>4, <2>3, <2>6, <2>7, CoreKeeps
  <2>9. Carried(s) BY <1>3 DEF Carried, CoreHas
  <2>10. ~Exact BY <2>9, <1>5, CarriedInUse DEF Base
  <2>11. QED BY <1>1, <2>8, <2>10 DEF Kept, Base
<1>6. ASSUME Used(s) PROVE Kept
  <2>1. TakeRef(s) /\ core' = [core EXCEPT ![c].pc = "inherit", ![c].slot = s]
    BY <1>2, <1>6, CoreGetTakes
  <2>2. /\ core'[c].pc = "inherit" /\ core'[c].slot = s /\ core'[c].status = core[c].status
        /\ \A d \in Cores : d # c => core'[d] = core[d]
    BY <1>3, <2>1 DEF CoreThreads
  <2>3. /\ HandlesFall
        /\ \A x \in Slots : /\ node'[x].handle = node[x].handle
                            /\ node'[x].remove = node[x].remove
                            /\ node'[x].ref = IF x = s THEN node[x].ref + 1 ELSE node[x].ref
    BY <2>1, TakeRefNodes DEF Inv
  <2>4. CoreSlots(c)' BY <1>1, <1>2, <1>3, <2>2 DEF CoreSlots
  <2>5. \A x \in Slots : /\ HandedTo(c, x)' <=> HandedTo(c, x)
                         /\ ~WorksOn(c, x) /\ ~WorksOn(c, x)'
                         /\ Owns(c, x)' <=> Owns(c, x)
    BY <1>1, <2>2 DEF HandedTo, WorksOn, Owns
  <2>6. \A d \in Cores : CoreSlots(d)' BY <1>1, <2>2, <2>4, OtherCores DEF Base, Placed
  <2>7. \A x \in Slots, d \in Cores : /\ HandedTo(d, x)' <=> HandedTo(d, x)
                                      /\ WorksOn(d, x)' <=> WorksOn(d, x)
                                      /\ Owns(d, x)' <=> Owns(d, x)
                                      /\ CoreHas(d, x)' <=> CoreHas(d, x)
    BY <1>1, <2>2, <2>5, OtherCores DEF CoreHas
  <2>8. \A x \in Slots, d \in Cores : ~(HandedTo(d, x)' /\ WorksOn(d, x)')
    BY <2>7 DEF Base, Placed, OnePlace
  <2>9. /\ Placed' /\ Flags' /\ Owners'
        /\ \A x \in Slots : Carried(x)' => Carried(x)
        /\ \A x \in Slots : /\ UserHolds(x)' <=> UserHolds(x)
                            /\ DaemonHolds(x)' <=> DaemonHolds(x)
    BY <1>1, <1>4, <2>3, <2>6, <2>7, <2>8, CoreKeeps
  <2>10. ASSUME Exact PROVE Exact'
    <3>1. Exact BY <2>10
    <3>2. SlotsInUse' /\ TasksAwaited' BY <3>1, <1>1, <1>4, <2>3, <2>9, AwaitedKept
    <3>3. MarksOwned' BY <3>1, <1>1, <1>4, <2>7, MarksKept
    <3>4. NoneCancelled'
      BY <3>1, <1>1, <2>2, <2>7 DEF Exact, NoneCancelled, InQueue, AtDaemon
    <3>5. ~CoreHolds(s)
      <4> SUFFICES ASSUME NEW d \in Cores, core[d].slot = s,
                          core[d].pc \notin {"sleep", "get", "signal"}
                   PROVE  FALSE
        BY DEF CoreHolds
      <4>1. d # c BY <1>1
      <4>2. core[d].pc \in CorePcs BY DEF Inv, TypeOK, CoreThreads
      <4>3. CoreHas(d, s)
        BY <4>2 DEF CoreHas, HandedTo, WorksOn, Base, Placed, CoreSlots
      <4>4. CoreHas(c, s) BY <1>3 DEF CoreHas
      <4>5. QED BY <4>1, <4>3, <4>4 DEF Base, Placed, OnePlace
    <3>6. \A x \in Slots : CoreHolds(x)' <=> CoreHolds(x) \/ x = s
      BY <1>1, <2>2 DEF CoreHolds
    <3>7. \A x \in Slots : Handed(x)' <=> Handed(x) BY <2>7 DEF Handed
    <3>8. \A x \in Slots : node[x].ref \in Int BY DEF Inv, TypeOK, Nodes
    <3>9. RefsCounted'
      BY <3>1, <3>5, <3>6, <3>7, <3>8, <2>3, <2>9 DEF Exact, RefsCounted, One
    <3>10. QED BY <3>2, <3>3, <3>4, <3>9 DEF Exact
  <2>11. QED BY <2>9, <2>10 DEF Kept, Base
<1>7. QED BY <1>5, <1>6

(* It gives the daemon's reference back and keeps its own. *)
LEMMA CoreInheritKept ==
  ASSUME Inv, Inv', Base, NEW c \in Cores, CoreInherit(c)
  PROVE  Kept
<1>1. /\ UNCHANGED <<queue, daemon, user, canceller, cancel_found, dispatch, tcb_index, run_signal>>
      /\ core[c].pc = "inherit"
      /\ core' = [core EXCEPT ![c].pc = "submit"]
  BY DEF CoreInherit, CoreGoes, history
<1>2. PICK s \in Slots : s = tcb_index[c] BY <1>1 DEF Base, Placed, CoreSlots
<1>3. /\ core \in [Cores -> CoreThreads] /\ ~run_signal[c] /\ HandedTo(c, s)
      /\ core[c].slot = s
  BY <1>1, <1>2 DEF Inv, TypeOK, Base, Placed, CoreSlots, HandedTo
<1>4. Unuse(s, FALSE) BY <1>2 DEF CoreInherit
<1>5. /\ HandlesFall /\ SameTasks
      /\ \A x \in Slots : /\ tcb'[x].status = tcb[x].status /\ tcb'[x].v2 = tcb[x].v2
                          /\ tcb'[x].wake = tcb[x].wake
      /\ Used(s) /\ ~node[s].remove =>
           \A x \in Slots : /\ node'[x].handle = node[x].handle
                            /\ node'[x].remove = node[x].remove
                            /\ node'[x].ref = IF x = s THEN node[x].ref - 1 ELSE node[x].ref
  BY <1>4, UnuseNodes DEF Inv
<1>6. /\ core'[c].pc = "submit" /\ core'[c].slot = s /\ core'[c].status = core[c].status
      /\ \A d \in Cores : d # c => core'[d] = core[d]
  BY <1>1, <1>3 DEF CoreThreads
<1>7. CoreSlots(c)' BY <1>1, <1>3, <1>6 DEF CoreSlots
<1>8. \A x \in Slots : /\ ~HandedTo(c, x)' /\ (HandedTo(c, x) <=> x = s)
                       /\ ~WorksOn(c, x) /\ (WorksOn(c, x)' <=> x = s)
                       /\ Owns(c, x)' <=> Owns(c, x)
                       /\ CoreHas(c, x)' <=> CoreHas(c, x)
  BY <1>1, <1>2, <1>3, <1>6 DEF HandedTo, WorksOn, Owns, CoreHas
<1>9. \A d \in Cores : CoreSlots(d)' BY <1>1, <1>6, <1>7, OtherCores DEF Base, Placed
<1>10. \A x \in Slots, d \in Cores :
         /\ d # c => (HandedTo(d, x)' <=> HandedTo(d, x)) /\ (WorksOn(d, x)' <=> WorksOn(d, x))
         /\ Owns(d, x)' <=> Owns(d, x)
         /\ CoreHas(d, x)' <=> CoreHas(d, x)
  BY <1>1, <1>6, <1>8, OtherCores
<1>11. \A x \in Slots, d \in Cores : ~(HandedTo(d, x)' /\ WorksOn(d, x)')
  BY <1>8, <1>10 DEF Base, Placed, OnePlace
<1>12. /\ Placed' /\ Flags' /\ Owners'
       /\ \A x \in Slots : Carried(x)' => Carried(x)
       /\ \A x \in Slots : /\ UserHolds(x)' <=> UserHolds(x)
                           /\ DaemonHolds(x)' <=> DaemonHolds(x)
  BY <1>1, <1>5, <1>9, <1>10, <1>11, CoreKeeps
<1>13. ASSUME Exact PROVE Exact'
  <2>1. Exact BY <1>13
  <2>2. Carried(s) BY <1>3 DEF Carried, CoreHas
  <2>3. Used(s) /\ ~node[s].remove BY <2>1, <2>2, CarriedInUse DEF Base
  <2>4. SlotsInUse' /\ TasksAwaited' BY <2>1, <2>3, <1>1, <1>5, <1>12, AwaitedKept
  <2>5. MarksOwned' BY <2>1, <1>1, <1>5, <1>10, MarksKept
  <2>6. NoneCancelled'
    <3>1. tcb[s].status = "READY" BY <2>1, <1>3 DEF Exact, NoneCancelled
    <3>2. \A x \in Slots : (InQueue(x) \/ AtDaemon(x))' => tcb'[x].status = "READY"
      BY <2>1, <1>1, <1>5 DEF Exact, NoneCancelled, InQueue, AtDaemon
    <3>3. \A x \in Slots, d \in Cores : HandedTo(d, x)' => tcb'[x].status = "READY"
      BY <2>1, <1>5, <1>8, <1>10 DEF Exact, NoneCancelled
    <3>4. ASSUME NEW d \in Cores, core'[d].pc = "submit"
          PROVE  tcb'[core'[d].slot].status = "READY"
      <4>1. CASE d = c BY <4>1, <3>1, <1>5, <1>6
      <4>2. CASE d # c
        <5>1. core[d].pc = "submit" /\ core[d].slot \in Slots /\ core'[d].slot = core[d].slot
          BY <4>2, <3>4, <1>6 DEF Inv, Pointers
        <5>2. QED BY <5>1, <2>1, <1>5 DEF Exact, NoneCancelled
      <4>3. QED BY <4>1, <4>2
    <3>5. \A d \in Cores : core'[d].pc # "remove" /\ core'[d].status # "CANCELED"
      BY <2>1, <1>6 DEF Exact, NoneCancelled
    <3>6. QED BY <2>1, <3>2, <3>3, <3>4, <3>5, <1>1, <1>5 DEF Exact, NoneCancelled
  <2>7. Handed(s) /\ \A x \in Slots : Handed(x)' <=> Handed(x) /\ x # s
    <3>1. \A d \in Cores : d # c => ~HandedTo(d, s)
      BY <1>3 DEF Base, Placed, OnePlace, CoreHas
    <3>2. QED BY <3>1, <1>3, <1>8, <1>10 DEF Handed
  <2>8. \A x \in Slots : CoreHolds(x)' <=> CoreHolds(x) BY <1>1, <1>3, <1>6 DEF CoreHolds
  <2>9. \A x \in Slots : node[x].ref \in Int BY DEF Inv, TypeOK, Nodes
  <2>10. RefsCounted'
    BY <2>1, <2>3, <2>7, <2>8, <2>9, <1>5, <1>12 DEF Exact, RefsCounted, One
  <2>11. QED BY <2>4, <2>5, <2>6, <2>10 DEF Exact
<1>14. QED BY <1>12, <1>13 DEF Kept, Base

(* It gives its cores back: no other task has one of them. *)
LEMMA CoreFreeKept ==
  ASSUME Inv, Inv', Base, NEW c \in Cores, CoreFree(c)
  PROVE  Kept
<1>1. PICK s \in Slots : s = core[c].slot BY DEF Inv, Pointers, CoreFree
<1>2. /\ UNCHANGED <<node, tcb, queue, daemon, user, canceller, cancel_found, tcb_index, run_signal>>
      /\ core[c].pc = "free"
      /\ dispatch' = [d \in Cores |-> dispatch[d] /\ d \notin tcb[s].cores]
      /\ core' = [core EXCEPT ![c].pc = "unuse"]
  BY <1>1 DEF CoreFree, CoreGoes, table, history
<1>3. core \in [Cores -> CoreThreads] /\ ~run_signal[c] /\ WorksOn(c, s) /\ Owns(c, s)
  BY <1>1, <1>2 DEF Inv, TypeOK, Base, Placed, CoreSlots, WorksOn, Owns
<1>4. SameTasks /\ HandlesFall BY <1>2 DEF SameTasks, HandlesFall
<1>5. /\ core'[c].pc = "unuse" /\ core'[c].slot = s /\ core'[c].status = core[c].status
      /\ \A d \in Cores : d # c => core'[d] = core[d]
  BY <1>1, <1>2, <1>3 DEF CoreThreads
<1>6. CoreSlots(c)' BY <1>2, <1>3, <1>5 DEF CoreSlots
<1>7. \A x \in Slots : /\ ~HandedTo(c, x)' /\ ~HandedTo(c, x)
                       /\ WorksOn(c, x)' <=> WorksOn(c, x)
                       /\ ~Owns(c, x)'
  BY <1>1, <1>2, <1>3, <1>5 DEF HandedTo, WorksOn, Owns
<1>8. \A d \in Cores : CoreSlots(d)' BY <1>2, <1>5, <1>6, OtherCores DEF Base, Placed
<1>9. \A x \in Slots, d \in Cores : /\ HandedTo(d, x)' <=> HandedTo(d, x)
                                    /\ CoreHas(d, x)' <=> CoreHas(d, x)
                                    /\ Owns(d, x)' <=> Owns(d, x) /\ d # c
                                    /\ ~(HandedTo(d, x)' /\ WorksOn(d, x)')
  BY <1>2, <1>5, <1>7, OtherCores DEF CoreHas, Base, Placed, OnePlace
<1>10. ASSUME NEW x \in Slots, NEW d \in Cores, Owns(d, x), d # c
       PROVE  x # s /\ tcb[x].cores \cap tcb[s].cores = {}
  <2>1. CoreHas(d, x) /\ CoreHas(c, s) BY <1>3, <1>10 DEF Owns, CoreHas
  <2>2. x # s BY <2>1, <1>10 DEF Base, Placed, OnePlace
  <2>3. QED BY <2>2, <1>3, <1>10 DEF Base, Flags, CoresMarked
<1>11. \A x \in Cores : dispatch'[x] <=> dispatch[x] /\ x \notin tcb[s].cores BY <1>2
<1>12. \A x \in Slots, d \in Cores :
         Owns(d, x)' => \A y \in tcb[x].cores : dispatch[y] => dispatch'[y]
  <2>1. \A x \in Slots : tcb[x].cores \subseteq Cores BY DEF Inv, TypeOK, TCBs
  <2>2. QED BY <2>1, <1>9, <1>10, <1>11
<1>13. /\ Placed' /\ Flags' /\ Owners'
       /\ \A x \in Slots : Carried(x)' => Carried(x)
       /\ \A x \in Slots : /\ UserHolds(x)' <=> UserHolds(x)
                           /\ DaemonHolds(x)' <=> DaemonHolds(x)
  BY <1>2, <1>4, <1>8, <1>9, <1>11, <1>12, CoreKeeps
<1>14. ASSUME Exact PROVE Exact'
  <2>1. Exact BY <1>14
  <2>2. SlotsInUse' /\ TasksAwaited' BY <2>1, <1>2, <1>4, <1>13, AwaitedKept
  <2>3. MarksOwned'
    <3>1. \A x \in Cores, t \in Slots, d \in Cores :
            Owns(d, t) /\ x \in tcb[t].cores /\ dispatch'[x] => Owns(d, t)'
      <4> SUFFICES ASSUME NEW x \in Cores, NEW t \in Slots, NEW d \in Cores,
                          Owns(d, t), x \in tcb[t].cores, dispatch'[x]
                   PROVE  d # c
        BY <1>9
      <4>1. x \notin tcb[s].cores BY <1>11
      <4>2. \A y \in Slots : Owns(c, y) => y = s
        BY <1>1, <1>7 DEF Owns, WorksOn
      <4>3. QED BY <4>1, <4>2
    <3>2. QED BY <3>1, <2>1, <1>4, <1>11, MarksKept
  <2>4. NoneCancelled'
    BY <2>1, <1>2, <1>5, <1>9 DEF Exact, NoneCancelled, InQueue, AtDaemon
  <2>5. \A x \in Slots : /\ Handed(x)' <=> Handed(x)
                         /\ CoreHolds(x)' <=> CoreHolds(x)
    BY <1>1, <1>2, <1>5, <1>9 DEF Handed, CoreHolds
  <2>6. RefsCounted' BY <2>1, <2>5, <1>2, <1>13, CountsKept
  <2>7. QED BY <2>2, <2>3, <2>4, <2>6 DEF Exact
<1>15. QED BY <1>13, <1>14 DEF Kept, Base

(* It gives its reference back, and has no task any more. *)
LEMMA CoreUnuseKept ==
  ASSUME Inv, Inv', Base, NEW c \in Cores, CoreUnuse(c)
  PROVE  Kept
<1>1. PICK s \in Slots : s = core[c].slot BY DEF Inv, Pointers, CoreUnuse
<1>2. /\ UNCHANGED <<queue, daemon, user, canceller, cancel_found, dispatch, tcb_index, run_signal>>
      /\ core[c].pc = "unuse"
      /\ Unuse(s, core[c].wake)
      /\ core' = [core EXCEPT ![c].pc = "signal"]
  BY <1>1 DEF CoreUnuse, CoreGoes, history
<1>3. core \in [Cores -> CoreThreads] /\ WorksOn(c, s) /\ core[c].wake \in BOOLEAN
  BY <1>1, <1>2 DEF Inv, TypeOK, CoreThreads, WorksOn
<1>4. /\ HandlesFall /\ SameTasks
      /\ \A x \in Slots : tcb'[x].status = tcb[x].status /\ tcb'[x].v2 = tcb[x].v2
      /\ \A x \in Slots : x # s => tcb'[x].wake = tcb[x].wake
      /\ Used(s) /\ ~node[s].remove =>
           \A x \in Slots : /\ node'[x].handle = node[x].handle
                            /\ node'[x].remove = node[x].remove
                            /\ node'[x].ref = IF x = s THEN node[x].ref - 1 ELSE node[x].ref
  BY <1>2, <1>3, UnuseNodes DEF Inv
<1>5. /\ core'[c].pc = "signal" /\ core'[c].slot = s /\ core'[c].status = core[c].status
      /\ \A d \in Cores : d # c => core'[d] = core[d]
  BY <1>1, <1>2, <1>3 DEF CoreThreads
<1>6. CoreSlots(c)' BY <1>2, <1>5 DEF CoreSlots, Base, Placed
<1>7. \A x \in Slots : /\ HandedTo(c, x)' <=> HandedTo(c, x)
                       /\ ~WorksOn(c, x)'
                       /\ Owns(c, x)' <=> Owns(c, x)
  BY <1>2, <1>5 DEF HandedTo, WorksOn, Owns
<1>8. \A d \in Cores : CoreSlots(d)' BY <1>2, <1>5, <1>6, OtherCores DEF Base, Placed
<1>9. \A x \in Slots, d \in Cores : /\ HandedTo(d, x)' <=> HandedTo(d, x)
                                    /\ CoreHas(d, x)' => CoreHas(d, x)
                                    /\ Owns(d, x)' <=> Owns(d, x)
                                    /\ ~(HandedTo(d, x)' /\ WorksOn(d, x)')
  BY <1>2, <1>5, <1>7, OtherCores DEF CoreHas, Base, Placed, OnePlace
<1>10. /\ Placed' /\ Flags' /\ Owners'
       /\ \A x \in Slots : Carried(x)' => Carried(x)
       /\ \A x \in Slots : /\ InQueue(x)' <=> InQueue(x)
                           /\ AtDaemon(x)' <=> AtDaemon(x)
                           /\ UserHolds(x)' <=> UserHolds(x)
                           /\ DaemonHolds(x)' <=> DaemonHolds(x)
  BY <1>2, <1>4, <1>8, <1>9, CoreKeeps
<1>11. ~InQueue(s) /\ ~AtDaemon(s) /\ \A d \in Cores : CoreHas(d, s) => d = c
  BY <1>3 DEF Base, Placed, OnePlace, CoreHas
<1>12. ~Carried(s)'
  <2>1. ~HandedTo(c, s) BY <1>3 DEF Base, Placed, OnePlace
  <2>2. ~CoreHas(c, s)' BY <2>1, <1>7 DEF CoreHas
  <2>3. QED BY <2>2, <1>9, <1>10, <1>11 DEF Carried
<1>13. ASSUME Exact PROVE Exact'
  <2>1. Exact BY <1>13
  <2>2. Carried(s) BY <1>3 DEF Carried, CoreHas
  <2>3. Used(s) /\ ~node[s].remove BY <2>1, <2>2, CarriedInUse DEF Base
  <2>4. \A x \in Slots : Carried(x)' => tcb'[x].wake = tcb[x].wake BY <1>4, <1>12
  <2>5. SlotsInUse' /\ TasksAwaited' BY <2>1, <2>3, <2>4, <1>2, <1>4, <1>10, AwaitedKept
  <2>6. MarksOwned' BY <2>1, <1>2, <1>4, <1>9, MarksKept
  <2>7. NoneCancelled'
    <3>1. \A d \in Cores : core'[d].pc = "submit" => tcb'[core'[d].slot].status = "READY"
      <4> SUFFICES ASSUME NEW d \in Cores, core'[d].pc = "submit"
                   PROVE  tcb'[core'[d].slot].status = "READY"
        OBVIOUS
      <4>1. core[d].pc = "submit" /\ core[d].slot \in Slots /\ core'[d].slot = core[d].slot
        BY <1>5 DEF Inv, Pointers
      <4>2. QED BY <4>1, <2>1, <1>4 DEF Exact, NoneCancelled
    <3>2. \A d \in Cores : core'[d].pc # "remove" /\ core'[d].status # "CANCELED"
      BY <2>1, <1>5 DEF Exact, NoneCancelled
    <3>3. QED BY <2>1, <3>1, <3>2, <1>2, <1>4, <1>9, <1>10 DEF Exact, NoneCancelled
  <2>8. \A x \in Slots : Handed(x)' <=> Handed(x) BY <1>9 DEF Handed
  <2>9. CoreHolds(s) /\ \A x \in Slots : CoreHolds(x)' <=> CoreHolds(x) /\ x # s
    <3>1. ASSUME NEW d \in Cores, d # c, core[d].slot = s,
                 core[d].pc \notin {"sleep", "get", "signal"}
          PROVE  FALSE
      <4>1. core[d].pc \in CorePcs BY DEF Inv, TypeOK, CoreThreads
      <4>2. CoreHas(d, s)
        BY <3>1, <4>1 DEF CoreHas, HandedTo, WorksOn, Base, Placed, CoreSlots
      <4>3. QED BY <3>1, <4>2, <1>11
    <3>2. CoreHolds(s) BY <1>1, <1>2 DEF CoreHolds
    <3>3. ASSUME NEW x \in Slots PROVE CoreHolds(x)' <=> CoreHolds(x) /\ x # s
      BY <3>1, <1>1, <1>2, <1>5 DEF CoreHolds
    <3>4. QED BY <3>2, <3>3
  <2>10. \A x \in Slots : node[x].ref \in Int BY DEF Inv, TypeOK, Nodes
  <2>11. RefsCounted'
    BY <2>1, <2>3, <2>8, <2>9, <2>10, <1>4, <1>10 DEF Exact, RefsCounted, One
  <2>12. QED BY <2>5, <2>6, <2>7, <2>11 DEF Exact
<1>14. QED BY <1>10, <1>13 DEF Kept, Base

-----------------------------------------------------------------------------
(* vipdrv_task_tcb_submit and vipdrv_task_tcb_wait: a user in a call goes  *)
(* on and leaves the places of the tasks alone.  While no cancel has found *)
(* a task, it counts on its own slot only, and frees it when it returns.   *)
LEMMA UserMoves ==
  ASSUME Inv, Owners, NEW h \in Handles, NEW s \in Slots, s = user[h].slot,
         user[h].pc # "out", user'[h].slot = s,
         \A g \in Handles : g # h => user'[g] = user[g]
  PROVE  /\ UserHolds(s) <=> user[h].pc \in Holding
         /\ UserHolds(s)' <=> user'[h].pc \in Holding
         /\ \A x \in Slots : x # s => (UserHolds(x)' <=> UserHolds(x))
<1>1. \A g \in Handles : g # h /\ user[g].slot = s => user[g].pc \notin Holding
  BY DEF Owners, Holding
<1>2. UserHolds(s) <=> user[h].pc \in Holding BY <1>1 DEF UserHolds
<1>3. UserHolds(s)' <=> user'[h].pc \in Holding BY <1>1 DEF UserHolds, Holding
<1>4. \A x \in Slots : x # s => (UserHolds(x)' <=> UserHolds(x)) BY DEF UserHolds, Holding
<1>5. QED BY <1>2, <1>3, <1>4

LEMMA UserGoesOn ==
  ASSUME Inv, Inv', Base, NEW h \in Handles, NEW s \in Slots, s = user[h].slot,
         user[h].pc # "out", user'[h].slot = s,
         \A g \in Handles : g # h => user'[g] = user[g],
         SameTasks, HandlesFall, UsersGoOn,
         UNCHANGED <<queue, tcb_index, run_signal, core, dispatch, daemon, canceller, cancel_found>>,
         Exact =>
           /\ \A x \in Slots : tcb'[x].v2 = tcb[x].v2
           /\ \A x \in Slots : Carried(x) => tcb'[x].status = tcb[x].status /\ ~tcb'[x].wake
           /\ Carried(s) => user'[h].pc \in Waiting
           /\ user'[h].pc # "abandon"
           /\ \A x \in Slots : x # s => node'[x] = node[x]
           /\ user'[h].pc = "out" => node'[s].handle = NoHandle
           /\ user'[h].pc # "out" => /\ node'[s].handle = node[s].handle
                                     /\ node'[s].remove <=> user'[h].pc = "leave"
           /\ node'[s].ref = node[s].ref + One(user'[h].pc \in Holding)
                               - One(user[h].pc \in Holding)
  PROVE  Kept
<1>1. Placed' /\ Flags' /\ \A x \in Slots : Carried(x)' <=> Carried(x)
  BY PlacesUntouched DEF Base
<1>2. Owners' BY <1>1, OwnersKept DEF Base
<1>3. ASSUME Exact PROVE Exact'
  <2>1. Exact /\ Owners BY <1>3 DEF Base
  <2>2. node[s].handle = h BY <2>1 DEF Exact, SlotsInUse
  <2>3. SlotsInUse'
    <3>1. \A g \in Handles : canceller'[g].pc = "out" BY <2>1 DEF Exact, SlotsInUse
    <3>2. ASSUME NEW g \in Handles, user'[g].pc = "out", NEW x \in Slots
          PROVE  node'[x].handle # g
      <4>1. CASE g # h
        <5>1. node[x].handle # g BY <4>1, <3>2, <2>1 DEF Exact, SlotsInUse
        <5>2. node'[x].handle \in {node[x].handle, NoHandle} BY DEF HandlesFall
        <5>3. QED BY <5>1, <5>2, DispatchAssumption DEF DispatchAssumption
      <4>2. CASE g = h /\ x = s
        BY <4>2, <3>2, <1>3, DispatchAssumption DEF DispatchAssumption
      <4>3. CASE g = h /\ x # s BY <4>3, <2>1, <1>3 DEF Owners
      <4>4. QED BY <4>1, <4>2, <4>3
    <3>3. ASSUME NEW g \in Handles, user'[g].pc # "out"
          PROVE  /\ user'[g].pc # "abandon"
                 /\ node'[user'[g].slot].handle = g
                 /\ node'[user'[g].slot].remove <=> user'[g].pc = "leave"
      <4>1. CASE g = h BY <4>1, <3>3, <2>2, <1>3
      <4>2. CASE g # h
        <5>1. user[g].slot \in Slots /\ user[g].slot # s
          BY <4>2, <3>3, <2>1 DEF Inv, Pointers, Owners
        <5>2. node'[user[g].slot] = node[user[g].slot] BY <5>1, <1>3
        <5>3. QED BY <4>2, <3>3, <5>2, <2>1 DEF Exact, SlotsInUse
      <4>3. QED BY <4>1, <4>2
    <3>4. QED BY <3>1, <3>2, <3>3 DEF SlotsInUse
  <2>4. TasksAwaited'
    <3> SUFFICES ASSUME NEW x \in Slots, Carried(x)
                 PROVE  /\ ~tcb'[x].wake
                        /\ user'[tcb[x].task].slot = x /\ user'[tcb[x].task].pc \in Waiting
      BY <1>1 DEF TasksAwaited, SameTasks, Waiting
    <3>1. tcb[x].task \in Handles BY <2>1 DEF Owners
    <3>2. user[tcb[x].task].slot = x /\ user[tcb[x].task].pc \in Waiting
      BY <2>1 DEF Exact, TasksAwaited
    <3>3. CASE tcb[x].task = h BY <3>2, <3>3, <1>3
    <3>4. CASE tcb[x].task # h BY <3>1, <3>2, <3>4, <1>3
    <3>5. QED BY <3>3, <3>4
  <2>5. NoneCancelled'
    <3>1. \A x \in Slots : InQueue(x)' \/ AtDaemon(x)' => tcb'[x].status = "READY"
      BY <2>1, <1>3 DEF Exact, NoneCancelled, InQueue, AtDaemon, Carried
    <3>2. \A c \in Cores, x \in Slots : HandedTo(c, x)' => tcb'[x].status = "READY"
      BY <2>1, <1>3 DEF Exact, NoneCancelled, HandedTo, Carried, CoreHas
    <3>3. ASSUME NEW c \in Cores, core[c].pc = "submit"
          PROVE  tcb'[core[c].slot].status = "READY"
      <4>1. core[c].slot \in Slots BY <3>3 DEF Inv, Pointers
      <4>2. Carried(core[c].slot) BY <3>3 DEF Carried, CoreHas, WorksOn
      <4>3. QED BY <3>3, <4>1, <4>2, <2>1, <1>3 DEF Exact, NoneCancelled
    <3>4. QED BY <3>1, <3>2, <3>3, <2>1, <1>3 DEF Exact, NoneCancelled
  <2>6. RefsCounted'
    <3>1. /\ UserHolds(s) <=> user[h].pc \in Holding
          /\ UserHolds(s)' <=> user'[h].pc \in Holding
          /\ \A x \in Slots : x # s => (UserHolds(x)' <=> UserHolds(x))
      BY <2>1, UserMoves
    <3>2. \A x \in Slots : /\ DaemonHolds(x)' <=> DaemonHolds(x)
                           /\ Handed(x)' <=> Handed(x)
                           /\ CoreHolds(x)' <=> CoreHolds(x)
      BY DEF DaemonHolds, Handed, HandedTo, CoreHolds
    <3>3. \A x \in Slots : node[x].ref \in Int BY DEF Inv, TypeOK, Nodes
    <3>4. \A x \in Slots : node[x].ref = One(UserHolds(x)) + One(DaemonHolds(x))
                                           + One(Handed(x)) + One(CoreHolds(x))
      BY <2>1 DEF Exact, RefsCounted
    <3>5. \A x \in Slots : x # s => node'[x].ref = node[x].ref BY <1>3
    <3>6. node'[s].ref = node[s].ref + One(UserHolds(s)') - One(UserHolds(s))
      BY <3>1, <1>3 DEF One
    <3>7. ASSUME NEW x \in Slots
          PROVE  node'[x].ref = One(UserHolds(x)') + One(DaemonHolds(x)')
                                  + One(Handed(x)') + One(CoreHolds(x)')
      <4>1. CASE x = s BY <4>1, <3>2, <3>3, <3>4, <3>6 DEF One
      <4>2. CASE x # s BY <4>2, <3>1, <3>2, <3>4, <3>5 DEF One
      <4>3. QED BY <4>1, <4>2
    <3>8. QED BY <3>7 DEF RefsCounted, One
  <2>7. MarksOwned'
    <3>1. \A c \in Cores, x \in Slots : Owns(c, x)' <=> Owns(c, x)
      BY DEF Owns, HandedTo, WorksOn
    <3>2. QED BY <3>1, <2>1, MarksKept
  <2>8. QED BY <2>3, <2>4, <2>5, <2>6, <2>7 DEF Exact
<1>4. QED BY <1>1, <1>2, <1>3 DEF Kept, Base

(* Where the user of a slot is, the slot is in use. *)
LEMMA UserSlot ==
  ASSUME Inv, Exact, NEW h \in Handles, user[h].pc # "out"
  PROVE  /\ Used(user[h].slot) /\ user[h].pc # "abandon"
         /\ node[user[h].slot].handle = h
         /\ node[user[h].slot].remove <=> user[h].pc = "leave"
<1>1. user[h].slot \in Slots /\ node[user[h].slot].handle = h
  BY DEF Inv, Pointers, Exact, SlotsInUse
<1>2. QED BY <1>1, DispatchAssumption DEF DispatchAssumption, Exact, SlotsInUse, Used

LEMMA SubmitGetKept ==
  ASSUME Inv, Inv', Base, NEW h \in Handles, SubmitGet(h)
  PROVE  Kept
<1>1. PICK s \in Slots : s = user[h].slot BY DEF Inv, Pointers, SubmitGet
<1>2. /\ UNCHANGED <<tcb, queue, tcb_index, run_signal, core, dispatch, daemon, canceller,
                     cancel_found>>
      /\ user[h].pc = "get"
  BY DEF SubmitGet, hwVars, history
<1>3. user \in [Handles -> Users] /\ node \in [Slots -> Nodes] BY DEF Inv, TypeOK
<1>4. SameTasks BY <1>2 DEF SameTasks
<1>5. CASE Used(s)
  <2>1. TakeRef(s) /\ user' = [user EXCEPT ![h].pc = "enqueue"]
    BY <1>1, <1>5 DEF SubmitGet, UserGoes
  <2>2. /\ user'[h].pc = "enqueue" /\ user'[h].slot = s
        /\ \A g \in Handles : g # h => user'[g] = user[g]
    BY <1>1, <1>3, <2>1 DEF Users
  <2>3. UsersGoOn BY <1>1, <1>2, <2>2 DEF UsersGoOn, Waiting
  <2>4. HandlesFall BY <2>1, TakeRefNodes DEF Inv
  <2>5. node'[s] = [node[s] EXCEPT !.ref = @ + 1] /\ \A x \in Slots : x # s => node'[x] = node[x]
    BY <1>3, <2>1 DEF TakeRef
  <2>6. /\ node'[s].handle = node[s].handle /\ node'[s].remove = node[s].remove
        /\ node'[s].ref = node[s].ref + 1 /\ node[s].ref \in Int
    BY <1>3, <2>5 DEF Nodes
  <2>7. ASSUME Exact
        PROVE  /\ ~Carried(s) /\ ~node[s].remove
               /\ \A x \in Slots : Carried(x) => ~tcb[x].wake
    BY <1>1, <1>2, <2>7, UserSlot DEF Base, Owners, Exact, TasksAwaited
  <2>8. node'[s].ref = node[s].ref + One(user'[h].pc \in Holding) - One(user[h].pc \in Holding)
    BY <1>2, <2>2, <2>6 DEF One, Holding
  <2>9. QED BY <1>1, <1>2, <1>4, <2>2, <2>3, <2>4, <2>5, <2>6, <2>7, <2>8, UserGoesOn
<1>6. CASE ~Used(s)
  <2>1. UNCHANGED node /\ user' = [user EXCEPT ![h].pc = "out", ![h].result = "FAILURE"]
    BY <1>1, <1>6 DEF SubmitGet, UserReturns
  <2>2. /\ user'[h].pc = "out" /\ user'[h].slot = s
        /\ \A g \in Handles : g # h => user'[g] = user[g]
    BY <1>1, <1>3, <2>1 DEF Users
  <2>3. UsersGoOn BY <1>1, <1>2, <2>2 DEF UsersGoOn, Waiting
  <2>4. HandlesFall BY <2>1 DEF HandlesFall
  <2>5. ~Exact BY <1>1, <1>2, <1>6, UserSlot DEF Base
  <2>6. QED BY <1>1, <1>2, <1>4, <2>2, <2>3, <2>4, <2>5, UserGoesOn
<1>7. QED BY <1>5, <1>6

LEMMA SubmitUnuseKept ==
  ASSUME Inv, Inv', Base, NEW h \in Handles, SubmitUnuse(h)
  PROVE  Kept
<1>1. PICK s \in Slots : s = user[h].slot BY DEF Inv, Pointers, SubmitUnuse
<1>2. /\ UNCHANGED <<queue, tcb_index, run_signal, core, dispatch, daemon, canceller, cancel_found>>
      /\ user[h].pc \in {"abandon", "unuse"}
      /\ Unuse(s, FALSE)
      /\ user[h].pc = "abandon" =>
           user' = [user EXCEPT ![h].pc = "out", ![h].result = "CANCELED"]
      /\ user[h].pc = "unuse" => user' = [user EXCEPT ![h].pc = "signal"]
  BY <1>1 DEF SubmitUnuse, UserGoes, UserReturns, hwVars, history
<1>3. user \in [Handles -> Users] BY DEF Inv, TypeOK
<1>4. /\ user'[h].pc = (IF user[h].pc = "abandon" THEN "out" ELSE "signal")
      /\ user'[h].slot = s
      /\ \A g \in Handles : g # h => user'[g] = user[g]
  BY <1>1, <1>2, <1>3 DEF Users
<1>5. UsersGoOn BY <1>1, <1>2, <1>4 DEF UsersGoOn, Waiting
<1>6. /\ HandlesFall /\ SameTasks
      /\ \A x \in Slots : /\ tcb'[x].status = tcb[x].status /\ tcb'[x].v2 = tcb[x].v2
                          /\ tcb'[x].wake = tcb[x].wake
      /\ Used(s) /\ ~node[s].remove =>
           \A x \in Slots : /\ node'[x].handle = node[x].handle
                            /\ node'[x].remove = node[x].remove
                            /\ node'[x].ref = IF x = s THEN node[x].ref - 1 ELSE node[x].ref
  BY <1>2, UnuseNodes DEF Inv
<1>7. \A x \in Slots : x # s => node'[x] = node[x]
  <2>1. node \in [Slots -> Nodes] BY DEF Inv, TypeOK
  <2>2. QED BY <2>1, <1>2 DEF Unuse
<1>8. ASSUME Exact
      PROVE  /\ user[h].pc = "unuse" /\ Used(s) /\ ~node[s].remove
             /\ \A x \in Slots : Carried(x) => ~tcb[x].wake
  BY <1>1, <1>2, <1>8, UserSlot DEF Base, Exact, TasksAwaited
<1>9. ASSUME Exact
      PROVE  node'[s].ref = node[s].ref + One(user'[h].pc \in Holding) - One(user[h].pc \in Holding)
  <2>1. node'[s].ref = node[s].ref - 1 BY <1>6, <1>8, <1>9
  <2>2. user[h].pc \in Holding /\ user'[h].pc \notin Holding BY <1>4, <1>8, <1>9 DEF Holding
  <2>3. node[s].ref \in Int BY DEF Inv, TypeOK, Nodes
  <2>4. QED BY <2>1, <2>2, <2>3 DEF One
<1>10. ASSUME Exact
       PROVE  /\ Carried(s) => user'[h].pc \in Waiting
              /\ user'[h].pc \notin {"abandon", "out", "leave"}
  BY <1>4, <1>8, <1>10 DEF Waiting
<1>11. QED BY <1>1, <1>2, <1>4, <1>5, <1>6, <1>7, <1>8, <1>9, <1>10, UserGoesOn

(* The steps that touch neither the table nor a TCB. *)
LEMMA UserOnlyKept ==
  ASSUME Inv, Inv', Base, NEW h \in Handles, SubmitSignal(h) \/ WaitFind(h) \/ WaitCheck(h)
  PROVE  Kept
<1>1. PICK s \in Slots : s = user[h].slot
  BY DEF Inv, Pointers, SubmitSignal, WaitFind, WaitCheck
<1>2. /\ UNCHANGED <<node, tcb, queue, tcb_index, run_signal, core, dispatch, daemon, canceller,
                     cancel_found>>
      /\ user[h].pc \in {"signal", "find", "check"}
  BY DEF SubmitSignal, WaitFind, WaitCheck, table, hwVars, history
<1>3. user \in [Handles -> Users] BY DEF Inv, TypeOK
<1>4. SameTasks /\ HandlesFall BY <1>2 DEF SameTasks, HandlesFall
<1>5. /\ user'[h].slot = s
      /\ \A g \in Handles : g # h => user'[g] = user[g]
      /\ user[h].pc = "signal" => user'[h].pc = "find"
      /\ user[h].pc = "find" =>
           user'[h].pc = "ref" \/ (user'[h].pc = "out" /\ SlotsOf(h) = {})
      /\ user[h].pc = "check" =>
           user'[h].pc = "block" \/ (user'[h].pc = "remove" /\ tcb[s].v2 = "CANCELED")
  <2>1. CASE SubmitSignal(h) BY <2>1, <1>1, <1>3 DEF SubmitSignal, UserGoes, Users
  <2>2. CASE WaitFind(h)
    <3>1. CASE SlotsOf(h) = {} BY <2>2, <3>1, <1>1, <1>3 DEF WaitFind, UserReturns, Users
    <3>2. CASE SlotsOf(h) # {}
      <4>1. PICK x \in SlotsOf(h) : user' = [user EXCEPT ![h].pc = "ref", ![h].slot = x]
        BY <2>2, <3>2 DEF WaitFind
      <4>2. x = s BY <2>2, <1>1, <4>1 DEF SlotsOf, Base, Owners, WaitFind
      <4>3. QED BY <2>2, <4>1, <4>2, <1>3 DEF WaitFind, Users
    <3>3. QED BY <3>1, <3>2
  <2>3. CASE WaitCheck(h) BY <2>3, <1>1, <1>3 DEF WaitCheck, Users
  <2>4. QED BY <2>1, <2>2, <2>3
<1>6. user'[h].pc \in {"find", "ref", "out", "block", "remove"} BY <1>2, <1>5
<1>7. UsersGoOn BY <1>1, <1>2, <1>5, <1>6 DEF UsersGoOn, Waiting
<1>8. ASSUME Exact
      PROVE  /\ user'[h].pc \in {"find", "ref", "block"}
             /\ user'[h].pc \in Holding <=> user[h].pc \in Holding
             /\ ~node[s].remove
             /\ \A x \in Slots : Carried(x) => ~tcb[x].wake
  <2>1. Exact BY <1>8
  <2>2. Used(s) /\ node[s].handle = h /\ ~node[s].remove BY <2>1, <1>1, <1>2, UserSlot
  <2>3. SlotsOf(h) # {} BY <2>2 DEF SlotsOf
  <2>4. tcb[s].v2 # "CANCELED" BY <2>1 DEF Exact, NoneCancelled
  <2>5. user'[h].pc \in {"find", "ref", "block"} BY <2>3, <2>4, <1>2, <1>5
  <2>6. user'[h].pc \in Holding <=> user[h].pc \in Holding BY <2>3, <2>4, <1>2, <1>5 DEF Holding
  <2>7. QED BY <2>1, <2>2, <2>5, <2>6 DEF Exact, TasksAwaited
<1>9. ASSUME Exact
      PROVE  node'[s].ref = node[s].ref + One(user'[h].pc \in Holding) - One(user[h].pc \in Holding)
  <2>1. node[s].ref \in Int BY DEF Inv, TypeOK, Nodes
  <2>2. QED BY <2>1, <1>2, <1>8, <1>9 DEF One
<1>10. ASSUME Exact
       PROVE  /\ user'[h].pc \in Waiting /\ user'[h].pc \notin {"abandon", "out", "leave"}
  BY <1>8, <1>10 DEF Waiting
<1>11. QED BY <1>1, <1>2, <1>4, <1>5, <1>7, <1>8, <1>9, <1>10, UserGoesOn

LEMMA WaitRefKept ==
  ASSUME Inv, Inv', Base, NEW h \in Handles, WaitRef(h)
  PROVE  Kept
<1>1. PICK s \in Slots : s = user[h].slot BY DEF Inv, Pointers, WaitRef
<1>2. /\ UNCHANGED <<tcb, queue, tcb_index, run_signal, core, dispatch, daemon, canceller,
                     cancel_found>>
      /\ user[h].pc = "ref"
      /\ TakeRef(s) /\ user' = [user EXCEPT ![h].pc = "check"]
  BY <1>1 DEF WaitRef, UserGoes, hwVars, history
<1>3. user \in [Handles -> Users] /\ node \in [Slots -> Nodes] BY DEF Inv, TypeOK
<1>4. SameTasks BY <1>2 DEF SameTasks
<1>5. HandlesFall BY <1>2, TakeRefNodes DEF Inv
<1>6. /\ user'[h].pc = "check" /\ user'[h].slot = s
      /\ \A g \in Handles : g # h => user'[g] = user[g]
  BY <1>1, <1>2, <1>3 DEF Users
<1>7. UsersGoOn BY <1>1, <1>2, <1>6 DEF UsersGoOn, Waiting
<1>8. node'[s] = [node[s] EXCEPT !.ref = @ + 1] /\ \A x \in Slots : x # s => node'[x] = node[x]
  BY <1>2, <1>3 DEF TakeRef
<1>9. /\ node'[s].handle = node[s].handle /\ node'[s].remove = node[s].remove
      /\ node'[s].ref = node[s].ref + 1 /\ node[s].ref \in Int
  BY <1>3, <1>8 DEF Nodes
<1>10. node'[s].ref = node[s].ref + One(user'[h].pc \in Holding) - One(user[h].pc \in Holding)
  BY <1>2, <1>6, <1>9 DEF One, Holding
<1>11. ASSUME Exact
       PROVE  ~node[s].remove /\ \A x \in Slots : Carried(x) => ~tcb[x].wake
  BY <1>1, <1>2, <1>11, UserSlot DEF Base, Exact, TasksAwaited
<1>12. user'[h].pc \in Waiting BY <1>6 DEF Waiting
<1>13. QED
  BY <1>1, <1>2, <1>4, <1>5, <1>6, <1>7, <1>8, <1>9, <1>10, <1>11, <1>12, UserGoesOn

(* A user that is woken has a task that is in no place any more. *)
LEMMA WaitWokenKept ==
  ASSUME Inv, Inv', Base, NEW h \in Handles, WaitWoken(h)
  PROVE  Kept
<1>1. PICK s \in Slots : s = user[h].slot BY DEF Inv, Pointers, WaitWoken
<1>2. /\ UNCHANGED <<node, queue, tcb_index, run_signal, core, dispatch, daemon, canceller,
                     cancel_found>>
      /\ user[h].pc = "block" /\ tcb[s].wake
      /\ tcb' = [tcb EXCEPT ![s].wake = FALSE, ![s].status = "EMPTY"]
      /\ user' = [user EXCEPT ![h].pc = "remove", ![h].result = tcb[s].v2]
  BY <1>1 DEF WaitWoken, hwVars, history
<1>3. user \in [Handles -> Users] /\ tcb \in [Slots -> TCBs] BY DEF Inv, TypeOK
<1>4. /\ user'[h].pc = "remove" /\ user'[h].slot = s
      /\ \A g \in Handles : g # h => user'[g] = user[g]
  BY <1>1, <1>2, <1>3 DEF Users
<1>5. \A x \in Slots : /\ tcb'[x].task = tcb[x].task /\ tcb'[x].cores = tcb[x].cores
                       /\ tcb'[x].v2 = tcb[x].v2
                       /\ x # s => tcb'[x] = tcb[x]
  BY <1>2, <1>3 DEF TCBs
<1>6. SameTasks /\ HandlesFall BY <1>2, <1>5 DEF SameTasks, HandlesFall
<1>7. UsersGoOn BY <1>1, <1>2, <1>4 DEF UsersGoOn, Waiting
<1>8. ASSUME Exact
      PROVE  /\ ~Carried(s) /\ ~node[s].remove
             /\ \A x \in Slots : Carried(x) => tcb'[x].status = tcb[x].status /\ ~tcb'[x].wake
  <2>1. Exact BY <1>8
  <2>2. ~node[s].remove BY <2>1, <1>1, <1>2, UserSlot
  <2>3. \A x \in Slots : Carried(x) => ~tcb[x].wake BY <2>1 DEF Exact, TasksAwaited
  <2>4. QED BY <2>2, <2>3, <1>2, <1>5
<1>9. node'[s].ref = node[s].ref + One(user'[h].pc \in Holding) - One(user[h].pc \in Holding)
  <2>1. node[s].ref \in Int BY DEF Inv, TypeOK, Nodes
  <2>2. QED BY <2>1, <1>2, <1>4 DEF One, Holding
<1>10. user'[h].pc # "abandon" /\ user'[h].pc # "out" /\ user'[h].pc # "leave" BY <1>4
<1>11. ASSUME Exact
       PROVE  /\ \A x \in Slots : tcb'[x].v2 = tcb[x].v2
              /\ \A x \in Slots : Carried(x) => tcb'[x].status = tcb[x].status /\ ~tcb'[x].wake
              /\ Carried(s) => user'[h].pc \in Waiting
              /\ user'[h].pc # "abandon"
              /\ \A x \in Slots : x # s => node'[x] = node[x]
              /\ user'[h].pc = "out" => node'[s].handle = NoHandle
              /\ user'[h].pc # "out" => /\ node'[s].handle = node[s].handle
                                        /\ node'[s].remove <=> user'[h].pc = "leave"
  BY <1>2, <1>5, <1>8, <1>10, <1>11
<1>12. QED BY <1>1, <1>2, <1>4, <1>6, <1>7, <1>9, <1>11, UserGoesOn

LEMMA WaitRemoveKept ==
  ASSUME Inv, Inv', Base, NEW h \in Handles, WaitRemove(h)
  PROVE  Kept
<1>1. PICK s \in Slots : s = user[h].slot BY DEF Inv, Pointers, WaitRemove
<1>2. /\ UNCHANGED <<tcb, queue, tcb_index, run_signal, core, dispatch, daemon, canceller,
                     cancel_found>>
      /\ user[h].pc = "remove"
      /\ MarkRemoved(s) /\ user' = [user EXCEPT ![h].pc = "leave"]
  BY <1>1 DEF WaitRemove, UserGoes, hwVars, history
<1>3. user \in [Handles -> Users] /\ node \in [Slots -> Nodes] BY DEF Inv, TypeOK
<1>4. SameTasks BY <1>2 DEF SameTasks
<1>5. HandlesFall BY <1>2, MarkRemovedNodes DEF Inv
<1>6. /\ user'[h].pc = "leave" /\ user'[h].slot = s
      /\ \A g \in Handles : g # h => user'[g] = user[g]
  BY <1>1, <1>2, <1>3 DEF Users
<1>7. UsersGoOn BY <1>1, <1>2, <1>6 DEF UsersGoOn, Waiting
<1>8. ASSUME Exact
      PROVE  /\ \A x \in Slots : x # s => node'[x] = node[x]
             /\ node'[s].handle = node[s].handle /\ node'[s].remove
             /\ node'[s].ref = node[s].ref
             /\ \A x \in Slots : Carried(x) => ~tcb[x].wake
             /\ ~Carried(s)
  <2>1. Exact BY <1>8
  <2>2. Used(s) /\ node[s].handle = h BY <2>1, <1>1, <1>2, UserSlot
  <2>3. UserHolds(s) BY <1>1, <1>2 DEF UserHolds, Holding
  <2>4. node[s].ref # 0 BY <2>1, <2>3 DEF Exact, RefsCounted, One
  <2>5. node' = [node EXCEPT ![s] = [@ EXCEPT !.remove = TRUE]]
    BY <1>2, <2>2, <2>4 DEF MarkRemoved
  <2>6. \A x \in Slots : Carried(x) => ~tcb[x].wake BY <2>1 DEF Exact, TasksAwaited
  <2>7. ASSUME Carried(s) PROVE FALSE
    <3>1. /\ tcb[s].task \in Handles /\ user[tcb[s].task].slot = s
          /\ user[tcb[s].task].pc \in Waiting
      BY <2>1, <2>7, CarriedInUse DEF Base
    <3>2. tcb[s].task = h BY <3>1, <1>1, <1>2 DEF Base, Owners, Waiting
    <3>3. QED BY <3>1, <3>2, <1>2 DEF Waiting
  <2>8. QED BY <2>5, <2>6, <2>7, <1>3 DEF Nodes
<1>9. ASSUME Exact
      PROVE  node'[s].ref = node[s].ref + One(user'[h].pc \in Holding) - One(user[h].pc \in Holding)
  <2>1. node[s].ref \in Int BY DEF Inv, TypeOK, Nodes
  <2>2. QED BY <2>1, <1>2, <1>6, <1>8, <1>9 DEF One, Holding
<1>10. QED BY <1>1, <1>2, <1>4, <1>5, <1>6, <1>7, <1>8, <1>9, UserGoesOn

(* The user's is the last reference, so the slot is free when it returns. *)
LEMMA WaitLeaveKept ==
  ASSUME Inv, Inv', Base, NEW h \in Handles, WaitLeave(h)
  PROVE  Kept
<1>1. PICK s \in Slots : s = user[h].slot BY DEF Inv, Pointers, WaitLeave
<1>2. /\ UNCHANGED <<queue, tcb_index, run_signal, core, dispatch, daemon, canceller, cancel_found>>
      /\ user[h].pc = "leave"
      /\ Unuse(s, FALSE) /\ user' = [user EXCEPT ![h].pc = "out"]
  BY <1>1 DEF WaitLeave, UserGoes, hwVars, history
<1>3. user \in [Handles -> Users] /\ node \in [Slots -> Nodes] BY DEF Inv, TypeOK
<1>4. /\ HandlesFall /\ SameTasks
      /\ \A x \in Slots : /\ tcb'[x].status = tcb[x].status /\ tcb'[x].v2 = tcb[x].v2
                          /\ tcb'[x].wake = tcb[x].wake
      /\ Used(s) /\ node[s].remove /\ node[s].ref = 1 =>
           \A x \in Slots : /\ node'[x].handle = IF x = s THEN NoHandle ELSE node[x].handle
                            /\ node'[x].remove = (x # s /\ node[x].remove)
                            /\ node'[x].ref = IF x = s THEN 0 ELSE node[x].ref
  BY <1>2, UnuseNodes DEF Inv
<1>5. /\ user'[h].pc = "out" /\ user'[h].slot = s
      /\ \A g \in Handles : g # h => user'[g] = user[g]
  BY <1>1, <1>2, <1>3 DEF Users
<1>6. UsersGoOn BY <1>1, <1>2, <1>5 DEF UsersGoOn, Waiting
<1>7. \A x \in Slots : x # s => node'[x] = node[x] BY <1>2, <1>3 DEF Unuse
<1>8. ASSUME Exact
      PROVE  /\ ~Carried(s)
             /\ node'[s].handle = NoHandle
             /\ node'[s].ref = node[s].ref + One(user'[h].pc \in Holding) - One(user[h].pc \in Holding)
             /\ \A x \in Slots : Carried(x) => ~tcb'[x].wake
  <2>1. Exact BY <1>8
  <2>2. Used(s) /\ node[s].remove BY <2>1, <1>1, <1>2, UserSlot
  <2>3. ~Carried(s)
    <3> SUFFICES ASSUME Carried(s) PROVE FALSE OBVIOUS
    <3>1. /\ tcb[s].task \in Handles /\ user[tcb[s].task].slot = s
          /\ user[tcb[s].task].pc \in Waiting
      BY <2>1, CarriedInUse DEF Base
    <3>2. tcb[s].task = h BY <3>1, <1>1, <1>2 DEF Base, Owners, Waiting
    <3>3. QED BY <3>1, <3>2, <1>2 DEF Waiting
  <2>4. UserHolds(s) BY <1>1, <1>2 DEF UserHolds, Holding
  <2>5. ~DaemonHolds(s) BY <2>3 DEF Carried, AtDaemon, DaemonHolds
  <2>6. ~Handed(s) BY <2>3 DEF Carried, CoreHas, Handed
  <2>7. ~CoreHolds(s)
    <3> SUFFICES ASSUME NEW d \in Cores, core[d].slot = s,
                        core[d].pc \notin {"sleep", "get", "signal"}
                 PROVE  FALSE
      BY DEF CoreHolds
    <3>1. core[d].pc \in CorePcs BY DEF Inv, TypeOK, CoreThreads
    <3>2. CoreHas(d, s) BY <3>1 DEF CoreHas, HandedTo, WorksOn, Base, Placed, CoreSlots
    <3>3. QED BY <3>2, <2>3 DEF Carried
  <2>8. node[s].ref = 1 BY <2>1, <2>4, <2>5, <2>6, <2>7 DEF Exact, RefsCounted, One
  <2>9. node'[s].handle = NoHandle /\ node'[s].ref = 0 BY <2>2, <2>8, <1>4
  <2>10. node'[s].ref = node[s].ref + One(user'[h].pc \in Holding) - One(user[h].pc \in Holding)
    BY <2>8, <2>9, <1>2, <1>5 DEF One, Holding
  <2>11. \A x \in Slots : Carried(x) => ~tcb'[x].wake BY <2>1, <1>4 DEF Exact, TasksAwaited
  <2>12. QED BY <2>3, <2>9, <2>10, <2>11
<1>9. QED BY <1>1, <1>2, <1>4, <1>5, <1>6, <1>7, <1>8, UserGoesOn

-----------------------------------------------------------------------------
(* A submission that takes a slot: the slot was idle, so no task is in it, *)
(* and the user had returned, so no task of its own is anywhere.           *)
LEMMA SubmitInsertSteady ==
  ASSUME Inv, Inv', Steady, Tame, NEW h \in Handles, SubmitInsert(h)
  PROVE  Steady'
<1>1. cancel_found = {} /\ Exact /\ Owners BY DEF Tame, SubmitInsert, Steady, Base
<1>2. user[h].pc = "out" /\ \A x \in Slots : node[x].handle # h
  BY <1>1 DEF SubmitInsert, Exact, SlotsInUse
<1>3. PICK s \in Idle :
        /\ node' = [node EXCEPT ![s].handle = h, ![s].remove = FALSE]
        /\ user' = [user EXCEPT ![h].left = @ - 1, ![h].pc = "get", ![h].slot = s]
  BY <1>2 DEF SubmitInsert, SlotsOf, Idle
<1>4. s \in Slots /\ node[s].handle = NoHandle BY DEF Idle
<1>5. UNCHANGED <<tcb, queue, tcb_index, run_signal, core, dispatch, daemon, canceller,
                  cancel_found>>
  BY DEF SubmitInsert, hwVars, history
<1>6. user \in [Handles -> Users] /\ node \in [Slots -> Nodes] BY DEF Inv, TypeOK
<1>7. /\ user'[h].pc = "get" /\ user'[h].slot = s
      /\ \A g \in Handles : g # h => user'[g] = user[g]
  BY <1>3, <1>6 DEF Users
<1>8. /\ node'[s].handle = h /\ ~node'[s].remove /\ node'[s].ref = node[s].ref
      /\ \A x \in Slots : x # s => node'[x] = node[x]
  BY <1>3, <1>4, <1>6 DEF Nodes
<1>9. SameTasks BY <1>5 DEF SameTasks
<1>10. Placed' /\ Flags' /\ \A x \in Slots : Carried(x)' <=> Carried(x)
  BY <1>5, <1>9, PlacesUntouched DEF Steady, Base
<1>11. ASSUME NEW x \in Slots, Carried(x)
       PROVE  /\ x # s /\ tcb[x].task # h /\ tcb[x].task \in Handles
              /\ user'[tcb[x].task] = user[tcb[x].task]
  <2>1. /\ Used(x) /\ tcb[x].task \in Handles
        /\ user[tcb[x].task].pc \in Waiting
    BY <1>1, <1>11, CarriedInUse
  <2>2. x # s BY <2>1, <1>4 DEF Used
  <2>3. tcb[x].task # h BY <2>1, <1>2 DEF Waiting
  <2>4. QED BY <2>1, <2>2, <2>3, <1>7
<1>12. ASSUME NEW g \in Handles, g # h, user[g].pc # "out"
       PROVE  user[g].slot \in Slots /\ user[g].slot # s /\ node[user[g].slot].handle = g
  <2>1. user[g].slot \in Slots /\ node[user[g].slot].handle = g
    BY <1>1, <1>12 DEF Inv, Pointers, Exact, SlotsInUse
  <2>2. QED BY <2>1, <1>4, DispatchAssumption DEF DispatchAssumption
<1>13. Owners'
  <2>1. \A g, k \in Handles :
          user'[g].pc # "out" /\ user'[k].pc # "out" /\ g # k => user'[g].slot # user'[k].slot
    BY <1>1, <1>7, <1>12 DEF Owners
  <2>2. ASSUME NEW g \in Handles, user'[g].pc # "out", NEW x \in Slots, node'[x].handle = g
        PROVE  x = user'[g].slot
    <3>1. CASE g = h BY <3>1, <2>2, <1>2, <1>7, <1>8
    <3>2. CASE g # h
      <4>1. x # s BY <3>2, <2>2, <1>8
      <4>2. QED BY <4>1, <3>2, <2>2, <1>1, <1>7, <1>8 DEF Owners
    <3>3. QED BY <3>1, <3>2
  <2>3. \A g \in Handles : user'[g].pc \in {"get", "enqueue"} =>
          \A x \in Slots : Carried(x)' => x # user'[g].slot /\ tcb'[x].task # g
    BY <1>1, <1>5, <1>7, <1>10, <1>11 DEF Owners
  <2>4. \A g \in Handles :
          user'[g].pc \in Waiting \cup {"remove", "leave"} => tcb'[user'[g].slot].task = g
    BY <1>1, <1>5, <1>7 DEF Owners, Waiting
  <2>5. /\ \A x \in Slots : Carried(x)' => tcb'[x].task \in Handles
        /\ \A x, y \in Slots : Carried(x)' /\ Carried(y)' /\ x # y => tcb'[x].task # tcb'[y].task
    BY <1>1, <1>5, <1>10 DEF Owners
  <2>6. QED BY <2>1, <2>2, <2>3, <2>4, <2>5 DEF Owners
<1>14. SlotsInUse'
  <2>1. \A g \in Handles : canceller'[g].pc = "out" BY <1>1, <1>5 DEF Exact, SlotsInUse
  <2>2. \A g \in Handles : user'[g].pc = "out" => \A x \in Slots : node'[x].handle # g
    BY <1>1, <1>7, <1>8 DEF Exact, SlotsInUse
  <2>3. ASSUME NEW g \in Handles, user'[g].pc # "out"
        PROVE  /\ user'[g].pc # "abandon"
               /\ node'[user'[g].slot].handle = g
               /\ node'[user'[g].slot].remove <=> user'[g].pc = "leave"
    <3>1. CASE g = h BY <3>1, <1>7, <1>8
    <3>2. CASE g # h BY <3>2, <2>3, <1>1, <1>7, <1>8, <1>12 DEF Exact, SlotsInUse
    <3>3. QED BY <3>1, <3>2
  <2>4. QED BY <2>1, <2>2, <2>3 DEF SlotsInUse
<1>15. TasksAwaited' BY <1>1, <1>5, <1>10, <1>11 DEF Exact, TasksAwaited, Waiting
<1>16. NoneCancelled'
  BY <1>1, <1>5 DEF Exact, NoneCancelled, InQueue, AtDaemon, HandedTo
<1>17. RefsCounted'
  <2>1. \A x \in Slots : UserHolds(x)' <=> UserHolds(x)
    BY <1>2, <1>7 DEF UserHolds, Holding
  <2>2. \A x \in Slots : /\ DaemonHolds(x)' <=> DaemonHolds(x)
                         /\ Handed(x)' <=> Handed(x)
                         /\ CoreHolds(x)' <=> CoreHolds(x)
    BY <1>5 DEF DaemonHolds, Handed, HandedTo, CoreHolds
  <2>3. \A x \in Slots : node'[x].ref = node[x].ref BY <1>8
  <2>4. QED BY <2>1, <2>2, <2>3, <1>1, CountsKept
<1>18. MarksOwned' BY <1>1, <1>5, <1>9, MarksKept DEF Owns, HandedTo, WorksOn
<1>19. QED BY <1>10, <1>13, <1>14, <1>15, <1>16, <1>17, <1>18 DEF Steady, Base, Exact

(* A submission that queues its task, or finds it cancelled meanwhile.     *)
LEMMA SubmitEnqueueKept ==
  ASSUME Inv, Inv', Base, NEW h \in Handles, SubmitEnqueue(h)
  PROVE  Kept
<1>1. PICK s \in Slots : s = user[h].slot BY DEF Inv, Pointers, SubmitEnqueue
<1>2. /\ UNCHANGED <<node, tcb_index, run_signal, core, dispatch, daemon, canceller, cancel_found>>
      /\ user[h].pc = "enqueue"
  BY DEF SubmitEnqueue, hwVars, history
<1>3. user \in [Handles -> Users] /\ tcb \in [Slots -> TCBs] /\ queue \in [Slots -> Nat]
  BY DEF Inv, TypeOK
<1>4. CASE node[s].remove
  <2>1. UNCHANGED <<tcb, queue>> /\ user' = [user EXCEPT ![h].pc = "abandon"]
    BY <1>1, <1>4 DEF SubmitEnqueue, UserGoes
  <2>2. /\ user'[h].pc = "abandon" /\ user'[h].slot = s
        /\ \A g \in Handles : g # h => user'[g] = user[g]
    BY <1>1, <1>3, <2>1 DEF Users
  <2>3. UsersGoOn BY <1>1, <1>2, <2>2 DEF UsersGoOn, Waiting
  <2>4. HandlesFall /\ SameTasks BY <1>2, <2>1 DEF HandlesFall, SameTasks
  <2>5. ~Exact BY <1>1, <1>2, <1>4, UserSlot DEF Base
  <2>6. QED BY <1>1, <1>2, <2>1, <2>2, <2>3, <2>4, <2>5, UserGoesOn
<1>5. CASE ~node[s].remove
  <2>1. PICK need \in CoresOf[h] :
          tcb' = [tcb EXCEPT ![s] = [status |-> "READY", v2 |-> "FAILURE",
                                     task |-> h, cores |-> need, wake |-> FALSE]]
    BY <1>1, <1>5 DEF SubmitEnqueue
  <2>2. queue' = [queue EXCEPT ![s] = @ + 1] /\ user' = [user EXCEPT ![h].pc = "unuse"]
    BY <1>1, <1>5 DEF SubmitEnqueue, UserGoes
  <2>3. need # {} BY DispatchAssumption DEF DispatchAssumption
  <2>4. /\ user'[h].pc = "unuse" /\ user'[h].slot = s
        /\ \A g \in Handles : g # h => user'[g] = user[g]
    BY <1>1, <1>3, <2>2 DEF Users
  <2>5. /\ tcb'[s].status = "READY" /\ tcb'[s].v2 = "FAILURE" /\ tcb'[s].task = h
        /\ tcb'[s].cores = need /\ ~tcb'[s].wake
        /\ \A x \in Slots : x # s => tcb'[x] = tcb[x]
    BY <1>3, <2>1
  <2>6. Owners BY DEF Base
  <2>7. ~Carried(s) /\ \A x \in Slots : Carried(x) => tcb[x].task # h
    BY <1>1, <1>2, <2>6 DEF Owners
  <2>8. queue'[s] = 1 /\ \A x \in Slots : x # s => queue'[x] = queue[x]
    <3>1. queue[s] \in Nat /\ ~(queue[s] > 0) BY <1>3, <2>7 DEF Carried, InQueue
    <3>2. queue[s] = 0 BY <3>1
    <3>3. QED BY <1>3, <2>2, <3>2
  <2>9. /\ InQueue(s)'
        /\ \A x \in Slots :
             /\ x # s => (InQueue(x)' <=> InQueue(x))
             /\ AtDaemon(x)' <=> AtDaemon(x)
             /\ \A c \in Cores : /\ HandedTo(c, x)' <=> HandedTo(c, x)
                                 /\ WorksOn(c, x)' <=> WorksOn(c, x)
                                 /\ Owns(c, x)' <=> Owns(c, x)
    BY <1>2, <2>8 DEF InQueue, AtDaemon, HandedTo, WorksOn, Owns
  <2>10. \A x \in Slots, c \in Cores : CoreHas(c, x)' <=> CoreHas(c, x) BY <2>9 DEF CoreHas
  <2>11. \A x \in Slots : Carried(x)' => x = s \/ Carried(x) BY <2>9, <2>10 DEF Carried
  <2>12. \A c \in Cores : ~CoreHas(c, s) /\ ~Owns(c, s) BY <2>7 DEF Carried, CoreHas, Owns
  <2>13. Placed'
    <3>1. OnePlace(s)'
      <4>1. ~AtDaemon(s)' /\ \A c \in Cores : ~CoreHas(c, s)'
        BY <2>7, <2>9, <2>10, <2>12 DEF Carried
      <4>2. \A c \in Cores : ~(HandedTo(c, s) /\ WorksOn(c, s))'
        BY <4>1 DEF CoreHas
      <4>3. QED BY <2>8, <4>1, <4>2 DEF OnePlace
    <3>2. ASSUME NEW x \in Slots, x # s PROVE OnePlace(x)'
      <4>1. OnePlace(x) BY DEF Base, Placed
      <4>2. QED BY <3>2, <4>1, <2>8, <2>9, <2>10 DEF OnePlace
    <3>3. \A c \in Cores : CoreSlots(c)' BY <1>2 DEF Base, Placed, CoreSlots
    <3>4. QED BY <3>1, <3>2, <3>3 DEF Placed
  <2>14. CoresMarked'
    <3>1. CoresMarked BY DEF Base, Flags
    <3>2. \A x \in Slots : Carried(x)' => tcb'[x].cores # {}
      BY <3>1, <2>3, <2>5, <2>11 DEF CoresMarked
    <3>3. \A x \in Slots, c \in Cores : CoreHas(c, x)' => c = FirstCore(tcb'[x].cores)
      BY <3>1, <2>5, <2>10, <2>12 DEF CoresMarked
    <3>4. \A x \in Slots, c \in Cores : Owns(c, x)' => \A y \in tcb'[x].cores : dispatch'[y]
      BY <3>1, <1>2, <2>5, <2>9, <2>12 DEF CoresMarked
    <3>5. \A x, y \in Slots, c, d \in Cores :
            Owns(c, x)' /\ Owns(d, y)' /\ x # y => tcb'[x].cores \cap tcb'[y].cores = {}
      BY <3>1, <2>5, <2>9, <2>12 DEF CoresMarked
    <3>6. QED BY <3>2, <3>3, <3>4, <3>5 DEF CoresMarked
  <2>15. FlagFree'
    <3>1. ~AtDaemon(s) BY <2>7 DEF Carried
    <3>2. QED BY <3>1, <1>2, <2>5, <2>9 DEF Base, Flags, FlagFree
  <2>16. Owners'
    <3>1. \A g, k \in Handles :
            user'[g].pc # "out" /\ user'[k].pc # "out" /\ g # k => user'[g].slot # user'[k].slot
      BY <1>1, <1>2, <2>4, <2>6 DEF Owners
    <3>2. \A g \in Handles : user'[g].pc # "out" =>
            \A x \in Slots : node'[x].handle = g => x = user'[g].slot
      BY <1>1, <1>2, <2>4, <2>6 DEF Owners
    <3>3. ASSUME NEW g \in Handles, user'[g].pc \in {"get", "enqueue"}, NEW x \in Slots, Carried(x)'
          PROVE  x # user'[g].slot /\ tcb'[x].task # g
      <4>1. g # h /\ user'[g] = user[g] BY <3>3, <2>4
      <4>2. CASE x = s BY <4>1, <4>2, <3>3, <1>1, <1>2, <2>5, <2>6 DEF Owners
      <4>3. CASE x # s BY <4>1, <4>3, <3>3, <2>5, <2>6, <2>11 DEF Owners
      <4>4. QED BY <4>2, <4>3
    <3>4. ASSUME NEW g \in Handles, user'[g].pc \in Waiting \cup {"remove", "leave"}
          PROVE  tcb'[user'[g].slot].task = g
      <4>1. CASE g = h BY <4>1, <2>4, <2>5
      <4>2. CASE g # h
        <5>1. user'[g] = user[g] /\ user[g].pc # "out" BY <4>2, <3>4, <2>4 DEF Waiting
        <5>2. user[g].slot \in Slots /\ user[g].slot # s
          BY <5>1, <4>2, <1>1, <1>2, <2>6 DEF Inv, Pointers, Owners
        <5>3. QED BY <5>1, <5>2, <3>4, <2>5, <2>6 DEF Owners
      <4>3. QED BY <4>1, <4>2
    <3>5. \A x \in Slots : Carried(x)' => tcb'[x].task \in Handles
      BY <2>5, <2>6, <2>11 DEF Owners
    <3>6. \A x, y \in Slots : Carried(x)' /\ Carried(y)' /\ x # y => tcb'[x].task # tcb'[y].task
      BY <2>5, <2>6, <2>7, <2>11 DEF Owners
    <3>7. QED BY <3>1, <3>2, <3>3, <3>4, <3>5, <3>6 DEF Owners
  <2>17. ASSUME Exact PROVE Exact'
    <3>1. Exact BY <2>17
    <3>2. SlotsInUse'
      BY <3>1, <1>1, <1>2, <2>4 DEF Exact, SlotsInUse
    <3>3. TasksAwaited'
      <4> SUFFICES ASSUME NEW x \in Slots, Carried(x)'
                   PROVE  /\ ~tcb'[x].wake /\ user'[tcb'[x].task].slot = x
                          /\ user'[tcb'[x].task].pc \in Waiting
        BY DEF TasksAwaited, Waiting
      <4>1. CASE x = s BY <4>1, <2>4, <2>5 DEF Waiting
      <4>2. CASE x # s
        <5>1. Carried(x) /\ tcb[x].task # h /\ tcb[x].task \in Handles
          BY <4>2, <2>6, <2>7, <2>11 DEF Owners
        <5>2. ~tcb[x].wake /\ user[tcb[x].task].slot = x /\ user[tcb[x].task].pc \in Waiting
          BY <5>1, <3>1 DEF Exact, TasksAwaited
        <5>3. QED BY <4>2, <5>1, <5>2, <2>4, <2>5
      <4>3. QED BY <4>1, <4>2
    <3>4. NoneCancelled'
      <4>1. \A x \in Slots : InQueue(x)' \/ AtDaemon(x)' => tcb'[x].status = "READY"
        BY <3>1, <2>5, <2>9 DEF Exact, NoneCancelled
      <4>2. \A c \in Cores, x \in Slots : HandedTo(c, x)' => tcb'[x].status = "READY"
        BY <3>1, <2>5, <2>9 DEF Exact, NoneCancelled
      <4>3. ASSUME NEW c \in Cores, core[c].pc = "submit"
            PROVE  tcb'[core[c].slot].status = "READY"
        <5>1. core[c].slot \in Slots BY <4>3 DEF Inv, Pointers
        <5>2. QED BY <4>3, <5>1, <3>1, <2>5 DEF Exact, NoneCancelled
      <4>4. \A x \in Slots : tcb'[x].v2 # "CANCELED" BY <3>1, <2>5 DEF Exact, NoneCancelled
      <4>5. QED BY <4>1, <4>2, <4>3, <4>4, <3>1, <1>2 DEF Exact, NoneCancelled
    <3>5. RefsCounted'
      <4>1. \A x \in Slots : UserHolds(x)' <=> UserHolds(x)
        BY <1>1, <1>2, <2>4, <2>6, UserMoves DEF Holding
      <4>2. \A x \in Slots : /\ DaemonHolds(x)' <=> DaemonHolds(x)
                             /\ Handed(x)' <=> Handed(x)
                             /\ CoreHolds(x)' <=> CoreHolds(x)
        BY <1>2 DEF DaemonHolds, Handed, HandedTo, CoreHolds
      <4>3. QED BY <4>1, <4>2, <3>1, <1>2, CountsKept
    <3>6. MarksOwned'
      <4> SUFFICES ASSUME NEW y \in Cores, dispatch[y]
                   PROVE  \E c \in Cores, x \in Slots : Owns(c, x)' /\ y \in tcb'[x].cores
        BY <1>2 DEF MarksOwned
      <4>1. PICK c \in Cores, x \in Slots : Owns(c, x) /\ y \in tcb[x].cores
        BY <3>1 DEF Exact, MarksOwned
      <4>2. x # s BY <4>1, <2>12
      <4>3. Owns(c, x)' /\ y \in tcb'[x].cores BY <4>1, <4>2, <2>5, <2>9
      <4>4. QED BY <4>3
    <3>7. QED BY <3>2, <3>3, <3>4, <3>5, <3>6 DEF Exact
  <2>18. QED BY <2>13, <2>14, <2>15, <2>16, <2>17 DEF Kept, Base, Flags
<1>6. QED BY <1>4, <1>5

-----------------------------------------------------------------------------
(* The steps of the hardware, and those that change nothing. *)
LEMMA KeptUnchanged ==
  ASSUME Inv, Inv', Base,
         UNCHANGED <<node, tcb, queue, daemon, dispatch, tcb_index, run_signal, core, user,
                     canceller, cancel_found>>
  PROVE  Kept
<1>1. SameTasks /\ HandlesFall /\ UsersGoOn BY DEF SameTasks, HandlesFall, UsersGoOn
<1>2. Placed' /\ Flags' /\ \A s \in Slots : Carried(s)' <=> Carried(s)
  BY <1>1, PlacesUntouched DEF Base
<1>3. Owners' BY <1>1, <1>2, OwnersKept DEF Base
<1>4. ASSUME Exact PROVE Exact'
  <2>1. Exact BY <1>4
  <2>2. SlotsInUse' BY <2>1 DEF Exact, SlotsInUse
  <2>3. TasksAwaited' BY <2>1, <1>2 DEF Exact, TasksAwaited
  <2>4. NoneCancelled'
    BY <2>1 DEF Exact, NoneCancelled, InQueue, AtDaemon, HandedTo
  <2>5. RefsCounted'
    BY <2>1, CountsKept DEF UserHolds, DaemonHolds, Handed, HandedTo, CoreHolds
  <2>6. MarksOwned' BY <2>1, <1>1, MarksKept DEF Owns, HandedTo, WorksOn
  <2>7. QED BY <2>2, <2>3, <2>4, <2>5, <2>6 DEF Exact
<1>5. QED BY <1>2, <1>3, <1>4 DEF Kept, Base

-----------------------------------------------------------------------------
LEMMA InitSteady == Init => Steady
<1> SUFFICES ASSUME Init PROVE Steady OBVIOUS
<1>1. /\ \A s \in Slots : queue[s] = 0 /\ node[s].handle = NoHandle /\ node[s].ref = 0
      /\ \A s \in Slots : tcb[s].v2 = "SUCCESS"
      /\ daemon.pc = "sleep"
      /\ \A c \in Cores : /\ core[c].pc = "sleep" /\ core[c].status = "SUCCESS"
                          /\ ~run_signal[c] /\ ~dispatch[c]
      /\ \A h \in Handles : user[h].pc = "out" /\ canceller[h].pc = "out"
  BY DEF Init
<1>2. \A s \in Slots : /\ ~InQueue(s) /\ ~AtDaemon(s)
                       /\ \A c \in Cores : ~HandedTo(c, s) /\ ~WorksOn(c, s)
  BY <1>1 DEF InQueue, AtDaemon, HandedTo, WorksOn
<1>3. \A s \in Slots : /\ ~Carried(s)
                       /\ \A c \in Cores : ~CoreHas(c, s) /\ ~Owns(c, s)
  BY <1>2 DEF Carried, CoreHas, Owns
<1>4. Placed BY <1>1, <1>2, <1>3 DEF Placed, OnePlace, CoreSlots
<1>5. Flags BY <1>1, <1>2, <1>3 DEF Flags, CoresMarked, FlagFree
<1>6. Owners BY <1>1, <1>3 DEF Owners, Waiting
<1>7. SlotsInUse BY <1>1, DispatchAssumption DEF SlotsInUse, DispatchAssumption
<1>8. TasksAwaited BY <1>3 DEF TasksAwaited
<1>9. NoneCancelled BY <1>1, <1>2 DEF NoneCancelled
<1>10. RefsCounted
  <2>1. \A s \in Slots : ~UserHolds(s) /\ ~DaemonHolds(s) /\ ~Handed(s) /\ ~CoreHolds(s)
    BY <1>1, <1>2 DEF UserHolds, DaemonHolds, Handed, CoreHolds, Holding
  <2>2. QED BY <2>1, <1>1 DEF RefsCounted, One
<1>11. MarksOwned BY <1>1 DEF MarksOwned
<1>12. QED BY <1>4, <1>5, <1>6, <1>7, <1>8, <1>9, <1>10, <1>11 DEF Steady, Base, Exact

(* The steps that are not part of a cancel and begin no submission. *)
GoesOn ==
  \/ \E h \in Handles : Submit(h) \/ Wait(h) \/ HardwareDone(h)
  \/ Daemon
  \/ \E c \in Cores : CoreThread(c)

LEMMA GoesOnKept ==
  ASSUME Inv, Inv', Base, GoesOn
  PROVE  Kept
<1>1. CASE \E h \in Handles : Submit(h)
  <2>1. PICK h \in Handles : Submit(h) BY <1>1
  <2>2. CASE SubmitGet(h) BY <2>2, SubmitGetKept
  <2>3. CASE SubmitEnqueue(h) BY <2>3, SubmitEnqueueKept
  <2>4. CASE SubmitUnuse(h) BY <2>4, SubmitUnuseKept
  <2>5. CASE SubmitSignal(h) BY <2>5, UserOnlyKept
  <2>6. QED BY <2>1, <2>2, <2>3, <2>4, <2>5 DEF Submit
<1>2. CASE \E h \in Handles : Wait(h)
  <2>1. PICK h \in Handles : Wait(h) BY <1>2
  <2>2. CASE WaitFind(h) \/ WaitCheck(h) BY <2>2, UserOnlyKept
  <2>3. CASE WaitRef(h) BY <2>3, WaitRefKept
  <2>4. CASE WaitWoken(h) BY <2>4, WaitWokenKept
  <2>5. CASE WaitRemove(h) BY <2>5, WaitRemoveKept
  <2>6. CASE WaitLeave(h) BY <2>6, WaitLeaveKept
  <2>7. QED BY <2>1, <2>2, <2>3, <2>4, <2>5, <2>6 DEF Wait
<1>3. CASE Daemon
  BY <1>3, DaemonWakesKept, DaemonReadKept, DaemonGetKept, DaemonCheckKept,
     DaemonDropsKept, DaemonDispatchKept
     DEF Daemon
<1>4. CASE \E c \in Cores : CoreThread(c)
  <2>1. PICK c \in Cores : CoreThread(c) BY <1>4
  <2>2. CASE CoreAwake(c) BY <2>2, CoreAwakeKept
  <2>3. CASE CoreGet(c) BY <2>3, CoreGetKept
  <2>4. CASE CoreInherit(c) BY <2>4, CoreInheritKept
  <2>5. CASE CoreSubmit(c) BY <2>5, CoreSubmitKept
  <2>6. CASE CoreSkip(c) \/ CoreRemove(c) BY <2>6, CoreDropsKept
  <2>7. CASE CoreIrq(c) \/ CoreTimeOut(c) BY <2>7, CoreIrqKept
  <2>8. CASE CoreResult(c) BY <2>8, CoreResultKept
  <2>9. CASE CoreEnd(c) BY <2>9, CoreEndKept
  <2>10. CASE CoreFree(c) BY <2>10, CoreFreeKept
  <2>11. CASE CoreUnuse(c) BY <2>11, CoreUnuseKept
  <2>12. CASE CoreSignal(c) BY <2>12, CoreSignalKept
  <2>13. QED
    BY <2>1, <2>2, <2>3, <2>4, <2>5, <2>6, <2>7, <2>8, <2>9, <2>10, <2>11, <2>12 DEF CoreThread
<1>5. CASE \E h \in Handles : HardwareDone(h)
  BY <1>5, KeptUnchanged DEF HardwareDone, table
<1>6. QED BY <1>1, <1>2, <1>3, <1>4, <1>5 DEF GoesOn

LEMMA GoesOnFinds == ASSUME GoesOn PROVE cancel_found' = cancel_found
<1>1. CASE \E h \in Handles : Submit(h)
  BY <1>1 DEF Submit, SubmitGet, SubmitEnqueue, SubmitUnuse, SubmitSignal, history
<1>2. CASE \E h \in Handles : Wait(h)
  BY <1>2 DEF Wait, WaitFind, WaitRef, WaitCheck, WaitWoken, WaitRemove, WaitLeave, history
<1>3. CASE Daemon
  BY <1>3 DEF Daemon, DaemonAwake, DaemonQuery, DaemonRead, DaemonGet, DaemonCheck,
              DaemonRemove, DaemonUnuse, DaemonDispatch, history
<1>4. CASE \E c \in Cores : CoreThread(c)
  BY <1>4 DEF CoreThread, CoreAwake, CoreGet, CoreInherit, CoreSubmit, CoreSkip, CoreRemove,
              CoreIrq, CoreTimeOut, CoreResult, CoreEnd, CoreFree, CoreUnuse, CoreSignal, history
<1>5. CASE \E h \in Handles : HardwareDone(h) BY <1>5 DEF HardwareDone
<1>6. QED BY <1>1, <1>2, <1>3, <1>4, <1>5 DEF GoesOn

(* A task that a cancel found stays found, so a state with no late         *)
(* submission comes after such states only.                                *)
LEMMA CancelFoundGrows ==
  ASSUME [Next]_vars
  PROVE  cancel_found \subseteq cancel_found'
<1>1. CASE UNCHANGED vars BY <1>1 DEF vars
<1>2. CASE \E h \in Handles : SubmitInsert(h) BY <1>2 DEF SubmitInsert, history
<1>3. CASE GoesOn BY <1>3, GoesOnFinds
<1>4. CASE \E h \in Handles : CancelFind(h) \/ Cancel(h)
  BY <1>4 DEF Cancel, CancelFind, CancelRef, CancelReady, CancelClean, CancelRunning,
              CancelWaited, CancelHardware, CancelAwait, CancelWoken, CancelOther, CancelRemove,
              CancelUnuse, history
<1>5. QED BY <1>1, <1>2, <1>3, <1>4 DEF Next, GoesOn

LEMMA NextSteady ==
  ASSUME Inv, Inv', Tame, Steady, [Next]_vars
  PROVE  Steady'
<1>1. CASE UNCHANGED vars BY <1>1, KeptUnchanged DEF vars, Kept, Steady
<1>2. CASE \E h \in Handles : SubmitInsert(h) BY <1>2, SubmitInsertSteady
<1>3. CASE GoesOn BY <1>3, GoesOnKept, GoesOnFinds DEF Kept, Steady
<1>4. CASE \E h \in Handles : CancelFind(h) \/ Cancel(h)
  <2>1. PICK h \in Handles : CancelFind(h) \/ Cancel(h) BY <1>4
  <2>2. CASE CancelFind(h) BY <2>2, CancelFindSteady
  <2>3. CASE CancelReady(h) BY <2>3, CancelReadySteady
  <2>4. CASE CancelClean(h) BY <2>4, CancelCleanSteady
  <2>5. CASE \/ CancelRunning(h) \/ CancelWaited(h) \/ CancelHardware(h)
             \/ CancelAwait(h) \/ CancelWoken(h) \/ CancelOther(h)
    BY <2>5, CancelOtherSteady
  <2>6. CASE CancelRef(h) \/ CancelRemove(h) \/ CancelUnuse(h) BY <2>6, CancelTableSteady
  <2>7. QED BY <2>1, <2>2, <2>3, <2>4, <2>5, <2>6 DEF Cancel
<1>5. QED BY <1>1, <1>2, <1>3, <1>4 DEF Next, GoesOn

LEMMA NextSafe == Safe /\ [Next]_vars => Safe'
<1> SUFFICES ASSUME Safe, [Next]_vars PROVE Safe' OBVIOUS
<1>1. Inv /\ Inv' BY NextInv DEF Safe
<1>2. Tame' => Tame BY CancelFoundGrows DEF Tame
<1>3. ASSUME Tame' PROVE Steady' BY <1>1, <1>2, <1>3, NextSteady DEF Safe
<1>4. QED BY <1>1, <1>3 DEF Safe

(* In every reachable state, until a submission may follow a cancel that   *)
(* found a task: a task is in one place, no two tasks that core threads    *)
(* have share a core, and every slot has its user.                         *)
THEOREM SafeInvariant == Spec => []Safe
<1>1. Init => Safe BY InitInv, InitSteady DEF Safe
<1>2. QED BY <1>1, NextSafe, PTL DEF Spec

-----------------------------------------------------------------------------
(* The reference counts. *)
LEMMA AtMostOne ==
  ASSUME NEW S, \A x, y \in S : x = y
  PROVE  Cardinality(S) = One(S # {})
<1>1. CASE S = {} BY <1>1, FS_EmptySet DEF One
<1>2. CASE S # {}
  <2>1. PICK x \in S : S = {x} BY <1>2
  <2>2. Cardinality({x}) = 1 BY FS_Singleton
  <2>3. QED BY <1>2, <2>1, <2>2 DEF One
<1>3. QED BY <1>1, <1>2

LEMMA HoldersCounted ==
  ASSUME Inv, Steady, Exact, NEW s \in Slots
  PROVE  /\ Holders(s) = One(UserHolds(s)) + One(DaemonHolds(s)) + One(Handed(s))
                           + One(CoreHolds(s))
         /\ UserHolds(s) \/ DaemonHolds(s) \/ Handed(s) \/ CoreHolds(s) => Used(s)
<1> DEFINE Us == {h \in Handles : user[h].slot = s /\ user[h].pc \in
                    {"enqueue", "abandon", "unuse", "check", "block", "remove", "leave"}}
           Xs == {h \in Handles : canceller[h].slot = s /\ canceller[h].pc \notin {"out", "ref"}}
           Hs == {c \in Cores : tcb_index[c] = s /\
                     (run_signal[c] \/ core[c].pc \in {"get", "inherit"})}
           Cs == {c \in Cores : core[c].slot = s /\ core[c].pc \notin {"sleep", "get", "signal"}}
<1>1. Cardinality(Us) = One(UserHolds(s))
  <2>1. \A g, h \in Us : g = h BY DEF Steady, Base, Owners
  <2>2. Us # {} <=> UserHolds(s) BY DEF UserHolds, Holding
  <2>3. QED BY <2>1, <2>2, AtMostOne DEF One
<1>2. Cardinality(Xs) = 0
  <2>1. Xs = {} BY DEF Exact, SlotsInUse
  <2>2. QED BY <2>1, FS_EmptySet
<1>3. \A c, d \in Cores : CoreHas(c, s) /\ CoreHas(d, s) => c = d
  BY DEF Steady, Base, Placed, OnePlace
<1>4. Cardinality(Hs) = One(Handed(s))
  <2>1. \A c \in Hs : c \in Cores /\ CoreHas(c, s) BY DEF CoreHas, HandedTo
  <2>2. \A c, d \in Hs : c = d BY <1>3, <2>1
  <2>3. Hs # {} <=> Handed(s) BY DEF Handed, HandedTo
  <2>4. QED BY <2>2, <2>3, AtMostOne DEF One
<1>5. \A c \in Cs : c \in Cores /\ CoreHas(c, s)
  <2> SUFFICES ASSUME NEW c \in Cores, core[c].slot = s, core[c].pc \notin {"sleep", "get", "signal"}
               PROVE  CoreHas(c, s)
    OBVIOUS
  <2>1. core[c].pc \in CorePcs BY DEF Inv, TypeOK, CoreThreads
  <2>2. core[c].pc = "inherit" => tcb_index[c] = s BY DEF Steady, Base, Placed, CoreSlots
  <2>3. QED BY <2>1, <2>2 DEF CoreHas, HandedTo, WorksOn
<1>6. Cardinality(Cs) = One(CoreHolds(s))
  <2>1. \A c, d \in Cs : c = d BY <1>3, <1>5
  <2>2. Cs # {} <=> CoreHolds(s) BY DEF CoreHolds
  <2>3. QED BY <2>1, <2>2, AtMostOne DEF One
<1>7. Holders(s) = Cardinality(Us) + Cardinality(Xs) + One(DaemonHolds(s)) + Cardinality(Hs)
                     + Cardinality(Cs)
  BY DEF Holders, DaemonHolds, One
<1>8. UserHolds(s) => Used(s)
  <2>1. \A h \in Handles : user[h].pc \in Holding => Used(user[h].slot)
    BY UserSlot DEF Holding
  <2>2. QED BY <2>1 DEF UserHolds
<1>9. DaemonHolds(s) \/ Handed(s) \/ CoreHolds(s) => Used(s)
  <2>1. DaemonHolds(s) => Carried(s) BY DEF DaemonHolds, Carried, AtDaemon
  <2>2. Handed(s) => Carried(s) BY DEF Handed, Carried, CoreHas
  <2>3. CoreHolds(s) => Carried(s) BY <1>5 DEF CoreHolds, Carried
  <2>4. QED BY <2>1, <2>2, <2>3, CarriedInUse DEF Steady, Base
<1> HIDE DEF Us, Xs, Hs, Cs
<1>10. Holders(s) = One(UserHolds(s)) + One(DaemonHolds(s)) + One(Handed(s)) + One(CoreHolds(s))
  BY <1>1, <1>2, <1>4, <1>6, <1>7 DEF One
<1>11. QED BY <1>8, <1>9, <1>10

(* While no cancel has found a task, the reference count of every slot is  *)
(* the number of threads that hold it, whichever way submissions, waits,   *)
(* the daemon thread and the core threads interleave, and a slot that is   *)
(* held is in use: no thread works on a TCB that belongs to another task.  *)
THEOREM ReferencesCounted == Spec => []ReferencesExact
<1>1. Safe => ReferencesExact
  <2> SUFFICES ASSUME Safe, cancel_found = {}, NEW s \in Slots
               PROVE  node[s].ref = Holders(s) /\ (Holders(s) > 0 => Used(s))
    BY DEF ReferencesExact
  <2>1. Inv /\ Steady /\ Exact BY DEF Safe, Tame, Steady, Base
  <2>2. /\ Holders(s) = One(UserHolds(s)) + One(DaemonHolds(s)) + One(Handed(s))
                          + One(CoreHolds(s))
        /\ UserHolds(s) \/ DaemonHolds(s) \/ Handed(s) \/ CoreHolds(s) => Used(s)
    BY <2>1, HoldersCounted
  <2>3. node[s].ref = Holders(s) BY <2>1, <2>2 DEF Exact, RefsCounted
  <2>4. Holders(s) > 0 => Used(s)
    <3>1. CASE ~(UserHolds(s) \/ DaemonHolds(s) \/ Handed(s) \/ CoreHolds(s))
      BY <2>2, <3>1 DEF One
    <3>2. QED BY <2>2, <3>1
  <2>5. QED BY <2>3, <2>4
<1>2. QED BY <1>1, SafeInvariant, PTL

-----------------------------------------------------------------------------
(* The jobs of the hardware.  While no wait times out and the hardware     *)
(* cancels nothing, a core executes exactly the jobs of the core threads   *)
(* that wait for an interrupt, and whoever reports success has one that    *)
(* the hardware finished.                                                  *)
Running(c) == core[c].pc = "irq" /\ ~irq[c]
JobOf(c) == Job(tcb[core[c].slot].task)

JobsRun ==
  /\ \A x \in Cores : \A j \in jobs[x] :
       \E c \in Cores : Running(c) /\ x \in tcb[core[c].slot].cores /\ j = JobOf(c)
  /\ \A c \in Cores : Running(c) => \A x \in tcb[core[c].slot].cores : JobOf(c) \in jobs[x]

Reports(h) ==
  \/ user[h].pc \in Waiting /\ tcb[user[h].slot].v2 = "SUCCESS"
  \/ user[h].pc \in {"remove", "leave", "out"} /\ user[h].result = "SUCCESS"

DoneOnly ==
  /\ \A c \in Cores : irq[c] => core[c].pc = "irq" /\ finished[tcb[core[c].slot].task]
  /\ \A c \in Cores : core[c].pc = "result" /\ core[c].status = "SUCCESS" =>
       finished[tcb[core[c].slot].task]
  /\ \A h \in Handles : Reports(h) => finished[h]

Jobs == JobsRun /\ DoneOnly

(* The conditions: see SafeWithoutHardwareCancel. *)
Calm == Tame /\ (hw_cancel => cancel_found = {}) /\ TimeOuts = {}

LEMMA JobsKept ==
  ASSUME Inv, Jobs, UNCHANGED <<jobs, irq, core>>,
         \A s \in Slots : Carried(s) =>
           /\ tcb'[s].task = tcb[s].task /\ tcb'[s].cores = tcb[s].cores
           /\ user'[tcb[s].task].left = user[tcb[s].task].left
           /\ finished'[tcb[s].task] = finished[tcb[s].task],
         \A h \in Handles : Reports(h)' => finished'[h]
  PROVE  Jobs'
<1>1. \A c \in Cores : core[c].pc \in {"irq", "result"} =>
        core[c].slot \in Slots /\ Carried(core[c].slot)
  BY DEF Inv, Pointers, Carried, CoreHas, WorksOn
<1>2. ASSUME NEW c \in Cores, core[c].pc \in {"irq", "result"}
      PROVE  /\ tcb'[core[c].slot].task = tcb[core[c].slot].task
             /\ tcb'[core[c].slot].cores = tcb[core[c].slot].cores
             /\ JobOf(c)' = JobOf(c)
             /\ finished'[tcb[core[c].slot].task] = finished[tcb[core[c].slot].task]
  BY <1>1, <1>2 DEF JobOf, Job
<1>3. \A c \in Cores : Running(c)' <=> Running(c) BY DEF Running
<1>4. JobsRun'
  <2>1. ASSUME NEW x \in Cores, NEW j \in jobs[x]
        PROVE  \E c \in Cores : Running(c)' /\ x \in tcb'[core[c].slot].cores /\ j = JobOf(c)'
    <3>1. PICK c \in Cores : Running(c) /\ x \in tcb[core[c].slot].cores /\ j = JobOf(c)
      BY DEF Jobs, JobsRun
    <3>2. QED BY <3>1, <1>2, <1>3 DEF Running
  <2>2. ASSUME NEW c \in Cores, Running(c)', NEW x \in tcb'[core[c].slot].cores
        PROVE  JobOf(c)' \in jobs[x]
    BY <2>2, <1>2, <1>3 DEF Jobs, JobsRun, Running
  <2>3. QED BY <2>1, <2>2 DEF JobsRun
<1>5. DoneOnly'
  <2>1. \A c \in Cores : irq'[c] => core'[c].pc = "irq" /\ finished'[tcb'[core'[c].slot].task]
    BY <1>2 DEF Jobs, DoneOnly
  <2>2. \A c \in Cores : core'[c].pc = "result" /\ core'[c].status = "SUCCESS" =>
          finished'[tcb'[core'[c].slot].task]
    BY <1>2 DEF Jobs, DoneOnly
  <2>3. QED BY <2>1, <2>2 DEF DoneOnly
<1>6. QED BY <1>4, <1>5 DEF Jobs

LEMMA ReportsKept ==
  ASSUME Inv, Jobs, UNCHANGED <<user, finished>>,
         \A s \in Slots : tcb'[s].v2 = "SUCCESS" => tcb[s].v2 = "SUCCESS"
  PROVE  \A h \in Handles : Reports(h)' => finished'[h]
<1>1. \A h \in Handles : user[h].pc \in Waiting => user[h].slot \in Slots
  BY DEF Inv, Pointers, Waiting
<1>2. \A h \in Handles : Reports(h)' => Reports(h) BY <1>1 DEF Reports, Waiting
<1>3. QED BY <1>2 DEF Jobs, DoneOnly

(* The steps of the daemon thread and of a cancel, but for the one that    *)
(* raises the interrupt flag.                                              *)
LEMMA OthersJobs ==
  ASSUME Inv, Jobs, SameTasks, UNCHANGED <<jobs, irq, core, user, finished>>,
         \A s \in Slots : tcb'[s].v2 = "SUCCESS" => tcb[s].v2 = "SUCCESS"
  PROVE  Jobs'
BY JobsKept, ReportsKept DEF SameTasks

LEMMA DaemonJobs ==
  ASSUME Inv, Jobs, Daemon
  PROVE  Jobs'
<1>1. UNCHANGED <<jobs, irq, core, user, finished>>
  BY DEF Daemon, DaemonAwake, DaemonQuery, DaemonRead, DaemonGet, DaemonCheck, DaemonRemove,
         DaemonUnuse, DaemonDispatch, hwVars, history
<1>2. SameTasks /\ \A s \in Slots : tcb'[s].v2 = tcb[s].v2
  <2>1. CASE DaemonUnuse
    <3>1. daemon.slot \in Slots BY <2>1 DEF DaemonUnuse, Inv, Pointers
    <3>2. QED BY <2>1, <3>1, UnuseNodes DEF DaemonUnuse, Inv
  <2>2. CASE ~DaemonUnuse
    <3>1. tcb' = tcb
      BY <2>2 DEF Daemon, DaemonAwake, DaemonQuery, DaemonRead, DaemonGet, DaemonCheck,
                  DaemonRemove, DaemonDispatch, table
    <3>2. QED BY <3>1 DEF SameTasks
  <2>3. QED BY <2>1, <2>2
<1>3. QED BY <1>1, <1>2, OthersJobs

LEMMA CancelJobs ==
  ASSUME Inv, Steady, Jobs, Calm, NEW h \in Handles, CancelFind(h) \/ Cancel(h)
  PROVE  Jobs'
<1>1. ~CancelHardware(h)
  <2>1. CancelHardware(h) => hw_cancel /\ canceller[h].pc # "out" BY DEF CancelHardware
  <2>2. QED BY <2>1 DEF Calm, Steady, Base, Exact, SlotsInUse
<1>2. UNCHANGED <<jobs, irq, core, user, finished>>
  BY <1>1 DEF Cancel, CancelFind, CancelRef, CancelReady, CancelClean, CancelRunning,
              CancelWaited, CancelAwait, CancelWoken, CancelOther, CancelRemove, CancelUnuse,
              hwVars, history
<1>3. SameTasks /\ \A s \in Slots : tcb'[s].v2 = "SUCCESS" => tcb[s].v2 = "SUCCESS"
  <2>1. CASE CancelReady(h)
    <3>1. tcb \in [Slots -> TCBs] BY DEF Inv, TypeOK
    <3>2. QED BY <2>1, <3>1 DEF SameTasks, CancelReady, TCBs
  <2>2. CASE CancelUnuse(h)
    <3>1. canceller[h].slot \in Slots BY <2>2 DEF CancelUnuse, Inv, Pointers
    <3>2. (canceller[h].pc = "unuse_wake") \in BOOLEAN OBVIOUS
    <3>3. QED BY <2>2, <3>1, <3>2, UnuseNodes DEF CancelUnuse, Inv
  <2>3. CASE ~CancelReady(h) /\ ~CancelUnuse(h)
    <3>1. tcb' = tcb
      BY <1>1, <2>3 DEF Cancel, CancelFind, CancelRef, CancelClean, CancelRunning,
                  CancelWaited, CancelAwait, CancelWoken, CancelOther, CancelRemove, table
    <3>2. QED BY <3>1 DEF SameTasks
  <2>4. QED BY <2>1, <2>2, <2>3
<1>4. QED BY <1>2, <1>3, OthersJobs

(* A user that goes on, and leaves its TCB as it is but for the wake-up.   *)
LEMMA UserJobs ==
  ASSUME Inv, Steady, Jobs, NEW h \in Handles,
         UNCHANGED <<jobs, irq, core, finished>>, SameTasks,
         \A s \in Slots : tcb'[s].v2 = tcb[s].v2,
         user'[h].left = user[h].left,
         \A g \in Handles : g # h => user'[g] = user[g],
         Reports(h)' => finished[h]
  PROVE  Jobs'
<1>1. \A s \in Slots : Carried(s) => user'[tcb[s].task].left = user[tcb[s].task].left
  BY DEF Steady, Base, Owners
<1>2. ASSUME NEW g \in Handles, g # h, Reports(g)' PROVE finished[g]
  <2>1. user[g].pc \in Waiting => user[g].slot \in Slots BY DEF Inv, Pointers, Waiting
  <2>2. Reports(g) BY <1>2, <2>1 DEF Reports, Waiting
  <2>3. QED BY <2>2 DEF Jobs, DoneOnly
<1>3. \A g \in Handles : Reports(g)' => finished'[g] BY <1>2
<1>4. QED BY <1>1, <1>3, JobsKept DEF SameTasks

(* Where a user goes that only goes on: it reports success only when it    *)
(* did before.                                                             *)
LEMMA UserGoesJobs ==
  ASSUME Inv, Steady, Jobs, NEW h \in Handles,
         \/ SubmitGet(h) \/ SubmitUnuse(h) \/ SubmitSignal(h) \/ WaitFind(h) \/ WaitRef(h)
         \/ WaitCheck(h) \/ WaitRemove(h) \/ WaitLeave(h)
  PROVE  Jobs'
<1>1. PICK s \in Slots : s = user[h].slot
  BY DEF Inv, Pointers, SubmitGet, SubmitUnuse, SubmitSignal, WaitFind, WaitRef, WaitCheck,
         WaitRemove, WaitLeave
<1>2. UNCHANGED <<jobs, irq, core, finished>>
  BY DEF SubmitGet, SubmitUnuse, SubmitSignal, WaitFind, WaitRef, WaitCheck, WaitRemove,
         WaitLeave, hwVars, history
<1>3. tcb' = tcb
  BY DEF SubmitGet, SubmitUnuse, SubmitSignal, WaitFind, WaitRef, WaitCheck, WaitRemove,
         WaitLeave, Unuse, table
<1>4. user \in [Handles -> Users] BY DEF Inv, TypeOK
<1>5. /\ user'[h].left = user[h].left
      /\ \A g \in Handles : g # h => user'[g] = user[g]
      /\ user'[h].pc \in Waiting => user'[h].slot = s /\ user[h].pc \in Waiting \cup {"get"}
      /\ user'[h].pc \in {"remove", "leave", "out"} =>
           \/ user'[h].result \in {"FAILURE", "CANCELED"}
           \/ user'[h].result = user[h].result /\ user[h].pc \in {"remove", "leave"}
      /\ user[h].pc = "get" => user'[h].pc \in {"enqueue", "out"}
  <2>1. CASE SubmitGet(h)
    BY <2>1, <1>1, <1>4 DEF SubmitGet, UserGoes, UserReturns, Users, Waiting
  <2>2. CASE SubmitUnuse(h)
    BY <2>2, <1>1, <1>4 DEF SubmitUnuse, UserGoes, UserReturns, Users, Waiting
  <2>3. CASE SubmitSignal(h) BY <2>3, <1>1, <1>4 DEF SubmitSignal, UserGoes, Users, Waiting
  <2>4. CASE WaitFind(h)
    <3>1. CASE SlotsOf(h) = {}
      BY <2>4, <3>1, <1>1, <1>4 DEF WaitFind, UserReturns, Users, Waiting
    <3>2. CASE SlotsOf(h) # {}
      <4>1. PICK x \in SlotsOf(h) : user' = [user EXCEPT ![h].pc = "ref", ![h].slot = x]
        BY <2>4, <3>2 DEF WaitFind
      <4>2. x = s BY <2>4, <1>1, <4>1 DEF SlotsOf, Steady, Base, Owners, WaitFind
      <4>3. QED BY <2>4, <4>1, <4>2, <1>4 DEF WaitFind, Users, Waiting
    <3>3. QED BY <3>1, <3>2
  <2>5. CASE WaitRef(h) BY <2>5, <1>1, <1>4 DEF WaitRef, UserGoes, Users, Waiting
  <2>6. CASE WaitCheck(h) BY <2>6, <1>1, <1>4 DEF WaitCheck, Users, Waiting
  <2>7. CASE WaitRemove(h) BY <2>7, <1>1, <1>4 DEF WaitRemove, UserGoes, Users, Waiting
  <2>8. CASE WaitLeave(h) BY <2>8, <1>1, <1>4 DEF WaitLeave, UserGoes, Users, Waiting
  <2>9. QED BY <2>1, <2>2, <2>3, <2>4, <2>5, <2>6, <2>7, <2>8
<1>6. Reports(h)' => Reports(h) BY <1>1, <1>3, <1>5 DEF Reports, Waiting
<1>7. Reports(h)' => finished[h] BY <1>6 DEF Jobs, DoneOnly
<1>8. QED BY <1>2, <1>3, <1>5, <1>7, UserJobs DEF SameTasks

(* The user that is woken returns what its core thread left in the TCB.    *)
LEMMA WaitWokenJobs ==
  ASSUME Inv, Steady, Jobs, NEW h \in Handles, WaitWoken(h)
  PROVE  Jobs'
<1>1. PICK s \in Slots : s = user[h].slot BY DEF Inv, Pointers, WaitWoken
<1>2. /\ UNCHANGED <<jobs, irq, core, finished>>
      /\ user[h].pc = "block"
      /\ tcb' = [tcb EXCEPT ![s].wake = FALSE, ![s].status = "EMPTY"]
      /\ user' = [user EXCEPT ![h].pc = "remove", ![h].result = tcb[s].v2]
  BY <1>1 DEF WaitWoken, hwVars, history
<1>3. user \in [Handles -> Users] /\ tcb \in [Slots -> TCBs] BY DEF Inv, TypeOK
<1>4. /\ user'[h].pc = "remove" /\ user'[h].result = tcb[s].v2 /\ user'[h].left = user[h].left
      /\ \A g \in Handles : g # h => user'[g] = user[g]
  BY <1>2, <1>3 DEF Users
<1>5. SameTasks /\ \A x \in Slots : tcb'[x].v2 = tcb[x].v2
  BY <1>2, <1>3 DEF SameTasks, TCBs
<1>6. Reports(h)' => Reports(h) BY <1>1, <1>2, <1>4 DEF Reports, Waiting
<1>7. Reports(h)' => finished[h] BY <1>6 DEF Jobs, DoneOnly
<1>8. QED BY <1>2, <1>4, <1>5, <1>7, UserJobs

(* A new submission is a new job, and no thread has one of that user.      *)
LEMMA SubmitInsertJobs ==
  ASSUME Inv, Steady, Tame, Jobs, NEW h \in Handles, SubmitInsert(h)
  PROVE  Jobs'
<1>1. cancel_found = {} /\ Exact /\ Owners BY DEF Tame, SubmitInsert, Steady, Base
<1>2. user[h].pc = "out" /\ \A x \in Slots : node[x].handle # h
  BY <1>1 DEF SubmitInsert, Exact, SlotsInUse
<1>3. PICK s \in Idle :
        user' = [user EXCEPT ![h].left = @ - 1, ![h].pc = "get", ![h].slot = s]
  BY <1>2 DEF SubmitInsert, SlotsOf, Idle
<1>4. UNCHANGED <<tcb, jobs, irq, core, finished>> BY DEF SubmitInsert, hwVars, history
<1>5. user \in [Handles -> Users] BY DEF Inv, TypeOK
<1>6. user'[h].pc = "get" /\ \A g \in Handles : g # h => user'[g] = user[g]
  BY <1>3, <1>5 DEF Users
<1>7. \A x \in Slots : Carried(x) => user'[tcb[x].task].left = user[tcb[x].task].left
  <2> SUFFICES ASSUME NEW x \in Slots, Carried(x)
               PROVE  user'[tcb[x].task].left = user[tcb[x].task].left
    OBVIOUS
  <2>1. tcb[x].task \in Handles /\ user[tcb[x].task].pc \in Waiting BY <1>1, CarriedInUse
  <2>2. tcb[x].task # h BY <2>1, <1>2 DEF Waiting
  <2>3. QED BY <2>1, <2>2, <1>6
<1>8. \A g \in Handles : Reports(g)' => finished'[g]
  <2>1. \A g \in Handles : Reports(g)' => Reports(g) BY <1>4, <1>6 DEF Reports, Waiting
  <2>2. QED BY <2>1, <1>4 DEF Jobs, DoneOnly
<1>9. QED BY <1>4, <1>7, <1>8, JobsKept

LEMMA SubmitEnqueueJobs ==
  ASSUME Inv, Steady, Jobs, NEW h \in Handles, SubmitEnqueue(h)
  PROVE  Jobs'
<1>1. PICK s \in Slots : s = user[h].slot BY DEF Inv, Pointers, SubmitEnqueue
<1>2. UNCHANGED <<jobs, irq, core>> /\ user[h].pc = "enqueue" BY DEF SubmitEnqueue, hwVars
<1>3. user \in [Handles -> Users] /\ tcb \in [Slots -> TCBs] /\ finished \in [Handles -> BOOLEAN]
  BY DEF Inv, TypeOK
<1>4. CASE node[s].remove
  <2>1. UNCHANGED <<tcb, finished>> /\ user' = [user EXCEPT ![h].pc = "abandon"]
    BY <1>1, <1>4 DEF SubmitEnqueue, UserGoes, history
  <2>2. /\ user'[h].pc = "abandon" /\ user'[h].left = user[h].left
        /\ \A g \in Handles : g # h => user'[g] = user[g]
    BY <1>3, <2>1 DEF Users
  <2>3. ~Reports(h)' BY <2>2 DEF Reports, Waiting
  <2>4. QED BY <1>2, <2>1, <2>2, <2>3, UserJobs DEF SameTasks
<1>5. CASE ~node[s].remove
  <2>1. PICK need \in CoresOf[h] :
          tcb' = [tcb EXCEPT ![s] = [status |-> "READY", v2 |-> "FAILURE",
                                     task |-> h, cores |-> need, wake |-> FALSE]]
    BY <1>1, <1>5 DEF SubmitEnqueue
  <2>2. user' = [user EXCEPT ![h].pc = "unuse"] /\ finished' = [finished EXCEPT ![h] = FALSE]
    BY <1>1, <1>5 DEF SubmitEnqueue, UserGoes
  <2>3. /\ user'[h].pc = "unuse" /\ user'[h].slot = s /\ user'[h].left = user[h].left
        /\ \A g \in Handles : g # h => user'[g] = user[g] /\ finished'[g] = finished[g]
    BY <1>1, <1>3, <2>2 DEF Users
  <2>4. tcb'[s].v2 = "FAILURE" /\ \A x \in Slots : x # s => tcb'[x] = tcb[x] BY <1>3, <2>1
  <2>5. Owners BY DEF Steady, Base
  <2>6. ASSUME NEW x \in Slots, Carried(x)
        PROVE  x # s /\ tcb[x].task # h /\ tcb[x].task \in Handles
    BY <2>6, <1>1, <1>2, <2>5 DEF Owners
  <2>7. ASSUME NEW g \in Handles, Reports(g)' PROVE finished'[g]
    <3>1. CASE g = h BY <3>1, <2>3, <2>4, <2>7 DEF Reports, Waiting
    <3>2. CASE g # h
      <4>1. user[g].pc \in Waiting => user[g].slot \in Slots /\ user[g].slot # s
        BY <3>2, <1>1, <1>2, <2>5 DEF Inv, Pointers, Owners, Waiting
      <4>2. Reports(g) BY <3>2, <4>1, <2>3, <2>4, <2>7 DEF Reports, Waiting
      <4>3. QED BY <3>2, <4>2, <2>3 DEF Jobs, DoneOnly
    <3>3. QED BY <3>1, <3>2
  <2>8. QED BY <1>2, <2>3, <2>4, <2>6, <2>7, JobsKept
<1>6. QED BY <1>4, <1>5

(* The steps of a core thread that does not wait for the hardware, or does *)
(* not any more.                                                           *)
LEMMA CoreJobsKept ==
  ASSUME Inv, Jobs, NEW c \in Cores, SameTasks, UNCHANGED <<jobs, user, finished>>,
         \A d \in Cores : d # c => core'[d] = core[d] /\ irq'[d] = irq[d],
         ~Running(c), core'[c].pc # "irq", ~irq'[c],
         core'[c].pc = "result" /\ core'[c].status = "SUCCESS" =>
           core'[c].slot \in Slots /\ finished[tcb[core'[c].slot].task],
         \A h \in Handles : Reports(h)' => finished'[h]
  PROVE  Jobs'
<1>1. ASSUME NEW d \in Cores, d # c, core[d].pc \in {"irq", "result"}
      PROVE  /\ tcb'[core[d].slot].task = tcb[core[d].slot].task
             /\ tcb'[core[d].slot].cores = tcb[core[d].slot].cores
             /\ JobOf(d)' = JobOf(d)
  <2>1. core[d].slot \in Slots BY <1>1 DEF Inv, Pointers
  <2>2. QED BY <1>1, <2>1 DEF SameTasks, JobOf, Job
<1>2. \A d \in Cores : Running(d)' <=> Running(d) BY DEF Running
<1>3. \A d \in Cores : Running(d) => d # c /\ core[d].pc = "irq" BY DEF Running
<1>4. JobsRun'
  <2>1. ASSUME NEW x \in Cores, NEW j \in jobs[x]
        PROVE  \E d \in Cores : Running(d)' /\ x \in tcb'[core'[d].slot].cores /\ j = JobOf(d)'
    <3>1. PICK d \in Cores : Running(d) /\ x \in tcb[core[d].slot].cores /\ j = JobOf(d)
      BY DEF Jobs, JobsRun
    <3>2. QED BY <3>1, <1>1, <1>2, <1>3
  <2>2. ASSUME NEW d \in Cores, Running(d)', NEW x \in tcb'[core'[d].slot].cores
        PROVE  JobOf(d)' \in jobs[x]
    <3>1. Running(d) /\ d # c /\ core[d].pc = "irq" BY <2>2, <1>2, <1>3
    <3>2. QED BY <3>1, <1>1 DEF Jobs, JobsRun
  <2>3. QED BY <2>1, <2>2 DEF JobsRun
<1>5. DoneOnly'
  <2>1. \A d \in Cores : irq'[d] => core'[d].pc = "irq" /\ finished'[tcb'[core'[d].slot].task]
    BY <1>1 DEF Jobs, DoneOnly
  <2>2. \A d \in Cores : core'[d].pc = "result" /\ core'[d].status = "SUCCESS" =>
          finished'[tcb'[core'[d].slot].task]
    BY <1>1 DEF Jobs, DoneOnly, SameTasks
  <2>3. QED BY <2>1, <2>2 DEF DoneOnly
<1>6. QED BY <1>4, <1>5 DEF Jobs

LEMMA CoreIdleJobs ==
  ASSUME Inv, Jobs, NEW c \in Cores,
         \/ CoreAwake(c) \/ CoreGet(c) \/ CoreInherit(c) \/ CoreSkip(c) \/ CoreRemove(c)
         \/ CoreEnd(c) \/ CoreFree(c) \/ CoreUnuse(c) \/ CoreSignal(c)
  PROVE  Jobs'
<1>1. /\ UNCHANGED <<jobs, user, finished>>
      /\ core[c].pc \in {"sleep", "get", "inherit", "submit", "remove", "end", "free", "unuse",
                         "signal"}
      /\ irq' = irq \/ irq' = [irq EXCEPT ![c] = FALSE]
  BY DEF CoreAwake, CoreGet, CoreInherit, CoreSkip, CoreRemove, CoreEnd, CoreFree, CoreUnuse,
         CoreSignal, history
<1>2. /\ core \in [Cores -> CoreThreads] /\ irq \in [Cores -> BOOLEAN] /\ tcb \in [Slots -> TCBs]
      /\ core[c].wake \in BOOLEAN
  BY DEF Inv, TypeOK, CoreThreads
<1>3. /\ core'[c].pc \notin {"irq", "result"}
      /\ \A d \in Cores : d # c => core'[d] = core[d]
  <2>1. CASE CoreAwake(c) BY <2>1, <1>2 DEF CoreAwake, CoreGoes, CoreThreads
  <2>2. CASE CoreGet(c)
    <3>1. \/ core' = [core EXCEPT ![c].pc = "inherit", ![c].slot = tcb_index[c]]
          \/ core' = [core EXCEPT ![c].pc = "sleep"]
      BY <2>2, CoreGetTakes
    <3>2. QED BY <3>1, <1>2 DEF CoreThreads
  <2>3. CASE CoreInherit(c) BY <2>3, <1>2 DEF CoreInherit, CoreGoes, CoreThreads
  <2>4. CASE CoreSkip(c) BY <2>4, <1>2 DEF CoreSkip, CoreThreads
  <2>5. CASE CoreRemove(c) BY <2>5, <1>2 DEF CoreRemove, CoreGoes, CoreThreads
  <2>6. CASE CoreEnd(c) BY <2>6, <1>2 DEF CoreEnd, CoreThreads
  <2>7. CASE CoreFree(c) BY <2>7, <1>2 DEF CoreFree, CoreGoes, CoreThreads
  <2>8. CASE CoreUnuse(c) BY <2>8, <1>2 DEF CoreUnuse, CoreGoes, CoreThreads
  <2>9. CASE CoreSignal(c) BY <2>9, <1>2 DEF CoreSignal, CoreGoes, CoreThreads
  <2>10. QED BY <2>1, <2>2, <2>3, <2>4, <2>5, <2>6, <2>7, <2>8, <2>9
<1>4. SameTasks /\ \A s \in Slots : tcb'[s].v2 = tcb[s].v2
  <2>1. CASE CoreInherit(c) \/ CoreUnuse(c)
    <3>1. core[c].pc \in {"inherit", "unuse"} BY <2>1 DEF CoreInherit, CoreUnuse
    <3>2. tcb' = tcb \/ \E s \in {tcb_index[c], core[c].slot} : tcb' = [tcb EXCEPT ![s].wake = TRUE]
      BY <2>1 DEF CoreInherit, CoreUnuse, Unuse
    <3>3. QED BY <3>2, <1>2 DEF SameTasks, TCBs
  <2>2. CASE CoreEnd(c) BY <2>2, <1>2 DEF CoreEnd, SameTasks, TCBs
  <2>3. CASE ~CoreInherit(c) /\ ~CoreUnuse(c) /\ ~CoreEnd(c)
    <3>1. tcb' = tcb
      BY <2>3, CoreGetTakes DEF CoreAwake, CoreSkip, CoreRemove, CoreFree, CoreSignal, table
    <3>2. QED BY <3>1 DEF SameTasks
  <2>4. QED BY <2>1, <2>2, <2>3
<1>5. ~irq[c] /\ ~Running(c) BY <1>1 DEF Jobs, DoneOnly, Running
<1>6. ~irq'[c] /\ \A d \in Cores : d # c => irq'[d] = irq[d] BY <1>1, <1>2, <1>5
<1>7. \A h \in Handles : Reports(h)' => finished'[h] BY <1>1, <1>4, ReportsKept
<1>8. QED BY <1>1, <1>3, <1>4, <1>5, <1>6, <1>7, CoreJobsKept

(* The interrupt flag of a core is raised for a job that finished. *)
LEMMA CoreIrqJobs ==
  ASSUME Inv, Jobs, NEW c \in Cores, CoreIrq(c)
  PROVE  Jobs'
<1>1. /\ UNCHANGED <<tcb, jobs, user, finished>> /\ core[c].pc = "irq" /\ irq[c]
      /\ irq' = [irq EXCEPT ![c] = FALSE]
      /\ core' = [core EXCEPT ![c].pc = "result", ![c].status = "SUCCESS"]
  BY DEF CoreIrq, table, history
<1>2. core \in [Cores -> CoreThreads] /\ irq \in [Cores -> BOOLEAN] BY DEF Inv, TypeOK
<1>3. /\ core'[c].pc = "result" /\ core'[c].slot = core[c].slot /\ ~irq'[c]
      /\ \A d \in Cores : d # c => core'[d] = core[d] /\ irq'[d] = irq[d]
  BY <1>1, <1>2 DEF CoreThreads
<1>4. core[c].slot \in Slots /\ finished[tcb[core[c].slot].task]
  BY <1>1 DEF Inv, Pointers, Jobs, DoneOnly
<1>5. SameTasks /\ ~Running(c) BY <1>1 DEF SameTasks, Running
<1>6. \A h \in Handles : Reports(h)' => finished'[h] BY <1>1, ReportsKept
<1>7. QED BY <1>1, <1>3, <1>4, <1>5, <1>6, CoreJobsKept

(* The status is written into the TCB of the user that waits for the task. *)
LEMMA CoreResultJobs ==
  ASSUME Inv, Steady, Jobs, NEW c \in Cores, CoreResult(c)
  PROVE  Jobs'
<1>1. PICK s \in Slots : s = core[c].slot BY DEF Inv, Pointers, CoreResult
<1>2. /\ UNCHANGED <<irq, jobs, user, finished>> /\ core[c].pc = "result"
      /\ tcb' = [tcb EXCEPT ![s].v2 = core[c].status]
      /\ core' = [core EXCEPT ![c].pc = "end"]
  BY <1>1 DEF CoreResult, CoreGoes, history
<1>3. core \in [Cores -> CoreThreads] /\ tcb \in [Slots -> TCBs] /\ irq \in [Cores -> BOOLEAN]
  BY DEF Inv, TypeOK
<1>4. /\ core'[c].pc = "end" /\ \A d \in Cores : d # c => core'[d] = core[d]
      /\ SameTasks
      /\ tcb'[s].v2 = core[c].status /\ \A x \in Slots : x # s => tcb'[x] = tcb[x]
  BY <1>2, <1>3 DEF CoreThreads, SameTasks, TCBs
<1>5. ~irq[c] /\ ~Running(c) BY <1>2 DEF Jobs, DoneOnly, Running
<1>6. ASSUME NEW h \in Handles, Reports(h)' PROVE finished[h]
  <2>1. CASE user[h].pc \in Waiting /\ user[h].slot = s
    <3>1. tcb[s].task = h BY <2>1 DEF Steady, Base, Owners
    <3>2. core[c].status = "SUCCESS" BY <2>1, <1>2, <1>4, <1>6 DEF Reports, Waiting
    <3>3. QED BY <3>1, <3>2, <1>1, <1>2 DEF Jobs, DoneOnly
  <2>2. CASE ~(user[h].pc \in Waiting /\ user[h].slot = s)
    <3>1. user[h].pc \in Waiting => user[h].slot \in Slots BY DEF Inv, Pointers, Waiting
    <3>2. Reports(h) BY <2>2, <3>1, <1>2, <1>4, <1>6 DEF Reports, Waiting
    <3>3. QED BY <3>2 DEF Jobs, DoneOnly
  <2>3. QED BY <2>1, <2>2
<1>7. QED BY <1>2, <1>4, <1>5, <1>6, CoreJobsKept

LEMMA CoreSubmitJobs ==
  ASSUME Inv, Jobs, NEW c \in Cores, CoreSubmit(c)
  PROVE  Jobs'
<1>1. PICK s \in Slots : s = core[c].slot BY DEF Inv, Pointers, CoreSubmit
<1>2. /\ UNCHANGED <<irq, user, finished>> /\ core[c].pc = "submit"
      /\ tcb' = [tcb EXCEPT ![s].status = "INFER_START"]
  BY <1>1 DEF CoreSubmit
<1>3. core \in [Cores -> CoreThreads] /\ tcb \in [Slots -> TCBs] BY DEF Inv, TypeOK
<1>4. SameTasks /\ \A x \in Slots : tcb'[x].v2 = tcb[x].v2 BY <1>2, <1>3 DEF SameTasks, TCBs
<1>5. ~irq[c] /\ ~Running(c) BY <1>2 DEF Jobs, DoneOnly, Running
<1>6. \A h \in Handles : Reports(h)' => finished'[h] BY <1>2, <1>4, ReportsKept
<1>7. CASE UNCHANGED jobs /\ core' = [core EXCEPT ![c].pc = "result", ![c].status = "FAILURE"]
  <2>1. /\ core'[c].pc = "result" /\ core'[c].status = "FAILURE"
        /\ \A d \in Cores : d # c => core'[d] = core[d]
    BY <1>3, <1>7 DEF CoreThreads
  <2>2. QED BY <2>1, <1>2, <1>4, <1>5, <1>6, <1>7, CoreJobsKept
<1>8. CASE /\ jobs' = [d \in Cores |-> IF d \in tcb[s].cores THEN jobs[d] \cup {JobOf(c)}
                                       ELSE jobs[d]]
           /\ core' = [core EXCEPT ![c].pc = "irq"]
  <2>1. /\ core'[c].pc = "irq" /\ core'[c].slot = s
        /\ \A d \in Cores : d # c => core'[d] = core[d]
    BY <1>1, <1>3, <1>8 DEF CoreThreads
  <2>2. ASSUME NEW d \in Cores, core'[d].pc \in {"irq", "result"}
        PROVE  /\ core'[d].slot = core[d].slot
               /\ tcb'[core[d].slot].task = tcb[core[d].slot].task
               /\ tcb'[core[d].slot].cores = tcb[core[d].slot].cores
               /\ JobOf(d)' = JobOf(d)
    <3>1. core'[d].slot = core[d].slot BY <2>1, <1>1
    <3>2. core[d].slot \in Slots BY <2>1, <2>2, <1>1 DEF Inv, Pointers
    <3>3. QED BY <3>1, <3>2, <1>2, <1>4 DEF SameTasks, JobOf, Job
  <2>3. Running(c)' /\ \A d \in Cores : d # c => (Running(d)' <=> Running(d))
    BY <2>1, <1>2, <1>5 DEF Running
  <2>4. JobsRun'
    <3>1. ASSUME NEW x \in Cores, NEW j \in jobs'[x]
          PROVE  \E d \in Cores : Running(d)' /\ x \in tcb'[core'[d].slot].cores /\ j = JobOf(d)'
      <4>1. CASE j \in jobs[x]
        <5>1. PICK d \in Cores : Running(d) /\ x \in tcb[core[d].slot].cores /\ j = JobOf(d)
          BY <4>1 DEF Jobs, JobsRun
        <5>2. d # c /\ core'[d].pc = "irq" BY <5>1, <1>5, <2>1 DEF Running
        <5>3. QED BY <5>1, <5>2, <2>2, <2>3
      <4>2. CASE j \notin jobs[x]
        <5>1. j = JobOf(c) /\ x \in tcb[s].cores BY <4>2, <3>1, <1>8
        <5>2. QED BY <5>1, <1>1, <2>1, <2>2, <2>3
      <4>3. QED BY <4>1, <4>2
    <3>2. ASSUME NEW d \in Cores, Running(d)', NEW x \in Cores, x \in tcb'[core'[d].slot].cores
          PROVE  JobOf(d)' \in jobs'[x]
      <4>1. core'[d].pc = "irq" BY <3>2 DEF Running
      <4>2. JobOf(d)' = JobOf(d) /\ x \in tcb[core[d].slot].cores BY <3>2, <4>1, <2>2
      <4>3. CASE d = c BY <4>2, <4>3, <1>1, <1>8
      <4>4. CASE d # c
        <5>1. JobOf(d) \in jobs[x] BY <4>2, <4>4, <3>2, <2>3 DEF Jobs, JobsRun
        <5>2. QED BY <4>2, <5>1, <1>8
      <4>5. QED BY <4>3, <4>4
    <3>3. \A d \in Cores : Running(d)' => tcb'[core'[d].slot].cores \subseteq Cores
      <4>1. \A d \in Cores : Running(d)' => core'[d].slot \in Slots
        BY <2>1, <1>1 DEF Running, Inv, Pointers
      <4>2. tcb' \in [Slots -> TCBs] BY <1>2, <1>3 DEF TCBs
      <4>3. QED BY <4>1, <4>2 DEF TCBs
    <3>4. QED BY <3>1, <3>2, <3>3 DEF JobsRun
  <2>5. DoneOnly'
    <3>1. \A d \in Cores : irq'[d] => core'[d].pc = "irq" /\ finished'[tcb'[core'[d].slot].task]
      BY <1>2, <1>5, <2>1, <2>2 DEF Jobs, DoneOnly
    <3>2. \A d \in Cores : core'[d].pc = "result" /\ core'[d].status = "SUCCESS" =>
            finished'[tcb'[core'[d].slot].task]
      BY <1>2, <2>1, <2>2 DEF Jobs, DoneOnly
    <3>3. QED BY <3>1, <3>2, <1>6 DEF DoneOnly
  <2>6. QED BY <2>4, <2>5 DEF Jobs
<1>9. QED BY <1>1, <1>7, <1>8 DEF CoreSubmit, JobOf, CoreGoes

(* The hardware finishes the job of one core thread, on all cores of its   *)
(* task, and raises the interrupt flag of that thread.                     *)
LEMMA OneRuns ==
  ASSUME Inv, Steady, NEW c \in Cores, NEW d \in Cores, Running(c), Running(d),
         tcb[core[c].slot].task = tcb[core[d].slot].task
  PROVE  c = d
<1>1. core[c].slot \in Slots /\ core[d].slot \in Slots BY DEF Running, Inv, Pointers
<1>2. CoreHas(c, core[c].slot) /\ CoreHas(d, core[d].slot) BY DEF Running, CoreHas, WorksOn
<1>3. Carried(core[c].slot) /\ Carried(core[d].slot) BY <1>2 DEF Carried
<1>4. core[c].slot = core[d].slot BY <1>1, <1>3 DEF Steady, Base, Owners
<1>5. QED BY <1>1, <1>2, <1>4 DEF Steady, Base, Placed, OnePlace

LEMMA HardwareDoneJobs ==
  ASSUME Inv, Steady, Jobs, NEW h \in Handles, HardwareDone(h)
  PROVE  Jobs'
<1>1. PICK j \in UNION {jobs[x] : x \in Cores} :
        /\ j[1] = h
        /\ jobs' = [x \in Cores |-> jobs[x] \ {j}]
        /\ irq' = [irq EXCEPT ![FirstCore({x \in Cores : j \in jobs[x]})] = TRUE]
        /\ finished' = [finished EXCEPT ![h] = @ \/ j = Job(h)]
        /\ UNCHANGED <<table, core, user>>
  BY DEF HardwareDone
<1>2. UNCHANGED <<tcb, core, user>> BY <1>1 DEF table
<1>3. PICK c \in Cores : Running(c) /\ j = JobOf(c) BY DEF Jobs, JobsRun
<1>4. PICK s \in Slots : s = core[c].slot BY <1>3 DEF Running, Inv, Pointers
<1>5. tcb[s].task = h /\ j = Job(h)
  <2>1. j = <<tcb[s].task, user[tcb[s].task].left>> BY <1>3, <1>4 DEF JobOf, Job
  <2>2. tcb[s].task = h BY <2>1, <1>1
  <2>3. QED BY <2>1, <2>2 DEF Job
<1>6. ASSUME NEW d \in Cores, Running(d), JobOf(d) = j PROVE d = c
  <2>1. j[1] = tcb[core[d].slot].task BY <1>6 DEF JobOf, Job
  <2>2. QED BY <2>1, <1>1, <1>3, <1>4, <1>5, <1>6, OneRuns
<1>7. tcb[s].cores \subseteq Cores /\ c = FirstCore(tcb[s].cores)
  <2>1. CoreHas(c, s) BY <1>3, <1>4 DEF Running, CoreHas, WorksOn
  <2>2. QED BY <2>1 DEF Steady, Base, Flags, CoresMarked, Inv, TypeOK, TCBs
<1>8. {x \in Cores : j \in jobs[x]} = tcb[s].cores
  <2>1. ASSUME NEW x \in Cores, j \in jobs[x] PROVE x \in tcb[s].cores
    <3>1. PICK d \in Cores : Running(d) /\ x \in tcb[core[d].slot].cores /\ j = JobOf(d)
      BY <2>1 DEF Jobs, JobsRun
    <3>2. QED BY <3>1, <1>4, <1>6
  <2>2. \A x \in tcb[s].cores : j \in jobs[x] BY <1>3, <1>4 DEF Jobs, JobsRun
  <2>3. QED BY <2>1, <2>2, <1>7
<1>9. irq' = [irq EXCEPT ![c] = TRUE] BY <1>1, <1>7, <1>8
<1>10. irq \in [Cores -> BOOLEAN] /\ finished \in [Handles -> BOOLEAN] BY DEF Inv, TypeOK
<1>11. irq'[c] /\ \A d \in Cores : d # c => irq'[d] = irq[d] BY <1>9, <1>10
<1>12. finished'[h] /\ \A g \in Handles : g # h => finished'[g] = finished[g]
  BY <1>1, <1>5, <1>10
<1>13. ~Running(c)' /\ \A d \in Cores : d # c => (Running(d)' <=> Running(d))
  BY <1>2, <1>11 DEF Running
<1>14. \A d \in Cores : JobOf(d)' = JobOf(d) BY <1>2 DEF JobOf, Job
<1>15. JobsRun'
  <2>1. ASSUME NEW x \in Cores, NEW k \in jobs'[x]
        PROVE  \E d \in Cores : Running(d)' /\ x \in tcb'[core'[d].slot].cores /\ k = JobOf(d)'
    <3>1. k \in jobs[x] /\ k # j BY <2>1, <1>1
    <3>2. PICK d \in Cores : Running(d) /\ x \in tcb[core[d].slot].cores /\ k = JobOf(d)
      BY <3>1 DEF Jobs, JobsRun
    <3>3. d # c BY <3>1, <3>2, <1>3
    <3>4. QED BY <3>2, <3>3, <1>2, <1>13, <1>14
  <2>2. ASSUME NEW d \in Cores, Running(d)', NEW x \in tcb'[core'[d].slot].cores
        PROVE  JobOf(d)' \in jobs'[x]
    <3>1. d # c /\ Running(d) BY <2>2, <1>13
    <3>2. JobOf(d) \in jobs[x] BY <3>1, <2>2, <1>2 DEF Jobs, JobsRun
    <3>3. JobOf(d) # j BY <3>1, <1>6
    <3>4. x \in Cores
      <4>1. core[d].slot \in Slots BY <3>1 DEF Running, Inv, Pointers
      <4>2. QED BY <4>1, <2>2, <1>2 DEF Inv, TypeOK, TCBs
    <3>5. QED BY <3>2, <3>3, <3>4, <1>1, <1>14
  <2>3. QED BY <2>1, <2>2 DEF JobsRun
<1>16. DoneOnly'
  <2>1. \A d \in Cores : core[d].pc \in {"irq", "result"} => tcb[core[d].slot].task \in Handles
    <3>1. \A d \in Cores : core[d].pc \in {"irq", "result"} =>
            core[d].slot \in Slots /\ Carried(core[d].slot)
      BY DEF Inv, Pointers, Carried, CoreHas, WorksOn
    <3>2. QED BY <3>1 DEF Steady, Base, Owners
  <2>2. \A g \in Handles : finished[g] => finished'[g] BY <1>12
  <2>3. ASSUME NEW d \in Cores, irq'[d]
        PROVE  core'[d].pc = "irq" /\ finished'[tcb'[core'[d].slot].task]
    <3>1. CASE d = c BY <3>1, <1>2, <1>3, <1>4, <1>5, <1>12 DEF Running
    <3>2. CASE d # c
      <4>1. core[d].pc = "irq" /\ finished[tcb[core[d].slot].task]
        BY <3>2, <2>3, <1>11 DEF Jobs, DoneOnly
      <4>2. QED BY <4>1, <2>1, <2>2, <1>2
    <3>3. QED BY <3>1, <3>2
  <2>4. \A d \in Cores : core'[d].pc = "result" /\ core'[d].status = "SUCCESS" =>
          finished'[tcb'[core'[d].slot].task]
    BY <2>1, <2>2, <1>2 DEF Jobs, DoneOnly
  <2>5. \A g \in Handles : Reports(g)' => finished'[g]
    <3>1. \A g \in Handles : Reports(g)' => Reports(g) BY <1>2 DEF Reports
    <3>2. QED BY <3>1, <2>2 DEF Jobs, DoneOnly
  <2>6. QED BY <2>3, <2>4, <2>5 DEF DoneOnly
<1>17. QED BY <1>15, <1>16 DEF Jobs

-----------------------------------------------------------------------------
LEMMA HwCancelKept == ASSUME [Next]_vars PROVE hw_cancel' = hw_cancel
<1>1. CASE UNCHANGED vars BY <1>1 DEF vars
<1>2. CASE \E h \in Handles : SubmitInsert(h) \/ Submit(h)
  BY <1>2 DEF Submit, SubmitInsert, SubmitGet, SubmitEnqueue, SubmitUnuse, SubmitSignal
<1>3. CASE \E h \in Handles : Wait(h)
  BY <1>3 DEF Wait, WaitFind, WaitRef, WaitCheck, WaitWoken, WaitRemove, WaitLeave
<1>4. CASE Daemon
  BY <1>4 DEF Daemon, DaemonAwake, DaemonQuery, DaemonRead, DaemonGet, DaemonCheck,
              DaemonRemove, DaemonUnuse, DaemonDispatch
<1>5. CASE \E c \in Cores : CoreThread(c)
  BY <1>5 DEF CoreThread, CoreAwake, CoreGet, CoreInherit, CoreSubmit, CoreSkip, CoreRemove,
              CoreIrq, CoreTimeOut, CoreResult, CoreEnd, CoreFree, CoreUnuse, CoreSignal
<1>6. CASE \E h \in Handles : HardwareDone(h) BY <1>6 DEF HardwareDone
<1>7. CASE \E h \in Handles : CancelFind(h) \/ Cancel(h)
  BY <1>7 DEF Cancel, CancelFind, CancelRef, CancelReady, CancelClean, CancelRunning,
              CancelWaited, CancelHardware, CancelAwait, CancelWoken, CancelOther, CancelRemove,
              CancelUnuse
<1>8. QED BY <1>1, <1>2, <1>3, <1>4, <1>5, <1>6, <1>7 DEF Next

LEMMA InitJobs == Init => Jobs
<1> SUFFICES ASSUME Init PROVE Jobs OBVIOUS
<1>1. /\ \A c \in Cores : core[c].pc = "sleep" /\ ~irq[c] /\ jobs[c] = {}
      /\ \A h \in Handles : finished[h]
  BY DEF Init
<1>2. JobsRun BY <1>1 DEF JobsRun, Running
<1>3. DoneOnly BY <1>1 DEF DoneOnly
<1>4. QED BY <1>2, <1>3 DEF Jobs

LEMMA NextJobs ==
  ASSUME Inv, Calm, Steady, Jobs, [Next]_vars
  PROVE  Jobs'
<1>1. Tame /\ TimeOuts = {} BY DEF Calm
<1>2. CASE UNCHANGED vars BY <1>2, OthersJobs DEF vars, SameTasks
<1>3. CASE \E h \in Handles : SubmitInsert(h) \/ Submit(h)
  BY <1>1, <1>3, SubmitInsertJobs, SubmitEnqueueJobs, UserGoesJobs DEF Submit
<1>4. CASE \E h \in Handles : Wait(h) BY <1>4, WaitWokenJobs, UserGoesJobs DEF Wait
<1>5. CASE Daemon BY <1>5, DaemonJobs
<1>6. CASE \E c \in Cores : CoreThread(c)
  <2>1. PICK c \in Cores : CoreThread(c) BY <1>6
  <2>2. ~CoreTimeOut(c) BY <1>1 DEF CoreTimeOut
  <2>3. CASE CoreSubmit(c) BY <2>3, CoreSubmitJobs
  <2>4. CASE CoreIrq(c) BY <2>4, CoreIrqJobs
  <2>5. CASE CoreResult(c) BY <2>5, CoreResultJobs
  <2>6. CASE \/ CoreAwake(c) \/ CoreGet(c) \/ CoreInherit(c) \/ CoreSkip(c) \/ CoreRemove(c)
             \/ CoreEnd(c) \/ CoreFree(c) \/ CoreUnuse(c) \/ CoreSignal(c)
    BY <2>6, CoreIdleJobs
  <2>7. QED BY <2>1, <2>2, <2>3, <2>4, <2>5, <2>6 DEF CoreThread
<1>7. CASE \E h \in Handles : HardwareDone(h) BY <1>7, HardwareDoneJobs
<1>8. CASE \E h \in Handles : CancelFind(h) \/ Cancel(h) BY <1>8, CancelJobs
<1>9. QED BY <1>2, <1>3, <1>4, <1>5, <1>6, <1>7, <1>8 DEF Next

(* Calm looks at the cancels so far, and only ever ends. *)
JobsSafe == Safe /\ (Calm => Jobs)

LEMMA JobsInvariant == Spec => []JobsSafe
<1>1. Init => JobsSafe BY InitInv, InitSteady, InitJobs DEF JobsSafe, Safe
<1>2. JobsSafe /\ [Next]_vars => JobsSafe'
  <2> SUFFICES ASSUME JobsSafe, [Next]_vars PROVE JobsSafe' OBVIOUS
  <2>1. Safe' BY NextSafe DEF JobsSafe
  <2>2. Calm' => Calm BY CancelFoundGrows, HwCancelKept DEF Calm, Tame
  <2>3. ASSUME Calm' PROVE Jobs'
    <3>1. Inv /\ Steady /\ Jobs /\ Calm BY <2>2, <2>3 DEF JobsSafe, Safe, Calm
    <3>2. QED BY <3>1, NextJobs
  <2>4. QED BY <2>1, <2>3 DEF JobsSafe
<1>3. QED BY <1>1, <1>2, PTL DEF Spec

-----------------------------------------------------------------------------
(* The dispatch is safe in all three respects in every state in which no   *)
(* submission can follow a cancel that found a task, no wait times out,    *)
(* and no cancel has found a task that the hardware could cancel.          *)
LEMMA CalmIsSafe ==
  ASSUME Inv, Steady, Jobs
  PROVE  CoreExclusive /\ BusyCoreDispatched /\ SuccessMeansFinished
<1>1. \A c \in Cores : Running(c) =>
        core[c].slot \in Slots /\ Owns(c, core[c].slot)
  BY DEF Running, Inv, Pointers, Owns, WorksOn
<1>2. CoreExclusive
  <2> SUFFICES ASSUME NEW x \in Cores PROVE Cardinality(jobs[x]) <= 1 BY DEF CoreExclusive
  <2>1. ASSUME NEW j \in jobs[x], NEW k \in jobs[x] PROVE j = k
    <3>1. PICK c \in Cores : Running(c) /\ x \in tcb[core[c].slot].cores /\ j = JobOf(c)
      BY DEF Jobs, JobsRun
    <3>2. PICK d \in Cores : Running(d) /\ x \in tcb[core[d].slot].cores /\ k = JobOf(d)
      BY DEF Jobs, JobsRun
    <3>3. core[c].slot = core[d].slot BY <3>1, <3>2, <1>1 DEF Steady, Base, Flags, CoresMarked
    <3>4. QED BY <3>1, <3>2, <3>3 DEF JobOf
  <2>2. Cardinality(jobs[x]) = One(jobs[x] # {}) BY <2>1, AtMostOne
  <2>3. QED BY <2>2 DEF One
<1>3. BusyCoreDispatched
  <2> SUFFICES ASSUME NEW x \in Cores, jobs[x] # {} PROVE dispatch[x] BY DEF BusyCoreDispatched
  <2>1. PICK c \in Cores : Running(c) /\ x \in tcb[core[c].slot].cores BY DEF Jobs, JobsRun
  <2>2. QED BY <2>1, <1>1 DEF Steady, Base, Flags, CoresMarked
<1>4. SuccessMeansFinished BY DEF SuccessMeansFinished, Jobs, DoneOnly, Reports
<1>5. QED BY <1>2, <1>3, <1>4

CalmDispatch == Calm => CoreExclusive /\ BusyCoreDispatched /\ SuccessMeansFinished

(* One job at a time on a core, no job on a core that the daemon thread    *)
(* may hand out, and success only for what the hardware finished: as long  *)
(* as no wait may time out, no submission may follow a cancel that found a *)
(* task, and no cancel found one that the hardware could cancel.           *)
THEOREM CalmDispatchSafe == Spec => []CalmDispatch
<1>1. JobsSafe => CalmDispatch BY CalmIsSafe DEF JobsSafe, Safe, Calm, CalmDispatch
<1>2. QED BY <1>1, JobsInvariant, PTL

(* Without the hardware's cancel the same holds whatever is cancelled, if  *)
(* no wait times out (nothing stops the job of one that does, and its      *)
(* cores are given back) and no submission begins after a cancel found a   *)
(* task (it would revive a slot that the cancel has marked for removal).   *)
THEOREM DispatchSafe ==
  ASSUME TimeOuts = {}, ~LateSubmit
  PROVE  Spec => []SafeWithoutHardwareCancel
<1>1. CalmDispatch => SafeWithoutHardwareCancel
  BY DEF CalmDispatch, Calm, Tame, SafeWithoutHardwareCancel
<1>2. QED BY <1>1, CalmDispatchSafe, PTL

-----------------------------------------------------------------------------
(* When every call returned and every thread sleeps, and no cancel found a *)
(* task, no task is queued, no slot is in use, no core marked dispatched,  *)
(* even after waits that timed out.                                        *)
GivenBack ==
  Quiet /\ cancel_found = {} =>
    /\ \A s \in Slots : queue[s] = 0 /\ ~Used(s)
    /\ \A c \in Cores : ~dispatch[c]

THEOREM EverythingGivenBack == Spec => []GivenBack
<1>1. Safe => GivenBack
  <2> SUFFICES ASSUME Safe, Quiet, cancel_found = {}
               PROVE  /\ \A s \in Slots : queue[s] = 0 /\ ~Used(s)
                      /\ \A c \in Cores : ~dispatch[c]
    BY DEF GivenBack
  <2>1. Inv /\ Owners /\ Exact BY DEF Safe, Tame, Steady, Base
  <2>2. \A h \in Handles : user[h].pc = "out" BY DEF Quiet
  <2>3. \A s \in Slots : ~Carried(s) BY <2>1, <2>2, CarriedInUse DEF Waiting
  <2>4. ASSUME NEW s \in Slots PROVE queue[s] = 0
    <3>1. queue[s] \in Nat /\ ~(queue[s] > 0)
      BY <2>1, <2>3 DEF Inv, TypeOK, Carried, InQueue
    <3>2. QED BY <3>1
  <2>5. ASSUME NEW s \in Slots PROVE ~Used(s)
    <3>1. node[s].handle \in Handles \cup {NoHandle} BY <2>1 DEF Inv, TypeOK, Nodes
    <3>2. QED BY <3>1, <2>1, <2>2 DEF Exact, SlotsInUse, Used
  <2>6. \A c \in Cores : ~dispatch[c]
    <3>1. \A c \in Cores, s \in Slots : ~Owns(c, s) BY <2>3 DEF Carried, CoreHas, Owns
    <3>2. QED BY <3>1, <2>1 DEF Exact, MarksOwned
  <2>7. QED BY <2>4, <2>5, <2>6
<1>2. QED BY <1>1, SafeInvariant, PTL

(* Where no wait times out, no core executes a job then either; a job that *)
(* outlives its wait is what a time-out leaves behind.                     *)
THEOREM NothingIsLeftBehind ==
  ASSUME TimeOuts = {}
  PROVE  Spec => []NothingLeftBehind
<1>1. JobsSafe /\ GivenBack => NothingLeftBehind
  <2> SUFFICES ASSUME JobsSafe, Quiet, cancel_found = {} PROVE \A x \in Cores : jobs[x] = {}
    BY DEF GivenBack, NothingLeftBehind
  <2>1. Jobs BY DEF JobsSafe, Calm, Tame
  <2>2. \A c \in Cores : ~Running(c) BY DEF Quiet, Running
  <2>3. QED BY <2>1, <2>2 DEF Jobs, JobsRun
<1>2. QED BY <1>1, JobsInvariant, EverythingGivenBack, PTL

=============================================================================
