------------------------ MODULE HandleTable_proofs -------------------------
(***************************************************************************)
(* Proofs about HandleTable.tla for every number of processes, handles and *)
(* slots, every growth and both kinds of table.  The invariant Inv joins   *)
(* the types, the two counts as upper bounds of what is out (which holds   *)
(* always), the idle list, the lock, and, for the slots that no window     *)
(* exposed, the counts as exact and the entry as kept by its holders.      *)
(***************************************************************************)
EXTENDS HandleTable, TLAPS, FiniteSetTheorems, SequenceTheorems

(* The two halves of TypeOK: the table, and what the processes are doing.  *)
(* A process that inserts has a handle, one that works on a slot a slot.   *)
Store ==
  /\ table \in Tables
  /\ capacity \in 0 .. MaxCapacity
  /\ handle \in [Slots -> Handle \cup {None}]
  /\ used \in [Slots -> BOOLEAN] /\ remove \in [Slots -> BOOLEAN]
  /\ refCount \in [Slots -> Nat]
  /\ idle \in Seq(1 .. capacity)
  /\ freePos \in 1 .. MaxCapacity + 1
  /\ readers \in Nat /\ writing \in BOOLEAN
  /\ exposed \subseteq Slots

Calling == {"ask", "grow", "growing", "insert"}
OnSlot == Inside \cup {"get"}

Threads ==
  /\ pc \in [Process -> Places] /\ at \in [Process -> 0 .. MaxCapacity]
  /\ mine \in [Process -> Handle \cup {None}]
  /\ \A p \in Process : pc[p] \in Calling => mine[p] # None
  /\ \A p \in Process : pc[p] \in OnSlot => at[p] \in 1 .. capacity

(* Nobody gives back a lock or a reference it does not have.               *)
AtLeast ==
  /\ readers >= Cardinality(Insiders)
  /\ \A s \in Slots : refCount[s] >= Cardinality(Referring(s))

-----------------------------------------------------------------------------
(* The places of the processes keep their types.                           *)
LEMMA WorkThreads ==
  ASSUME Store, Threads, NEW p \in Process, NEW place \in Places, NEW s \in 0 .. MaxCapacity,
         NEW h \in Handle \cup {None}, Work(p, place, s, h),
         capacity' = capacity,
         place \in Calling => h # None, place \in OnSlot => s \in 1 .. capacity
  PROVE  Threads'
BY DEF Threads, Work

LEMMA GotoThreads ==
  ASSUME Store, Threads, NEW p \in Process, NEW place \in Places, Goto(p, place),
         capacity' \in Nat, capacity' >= capacity,
         place \in Calling => mine[p] # None, place \in OnSlot => at[p] \in 1 .. capacity
  PROVE  Threads'
<1>1. capacity \in Nat BY TableAssumption DEF Store
<1>2. 1 .. capacity \subseteq 1 .. capacity' BY <1>1
<1>3. QED BY <1>2 DEF Threads, Goto

LEMMA ReturnThreads ==
  ASSUME Store, Threads, NEW p \in Process, Return(p), capacity' = capacity
  PROVE  Threads'
BY TableAssumption, WorkThreads DEF Return, Places, Calling, OnSlot, Inside

(* A slot a process works on, found or took is a slot of the table.        *)
LEMMA SlotsBelow ==
  ASSUME Store
  PROVE  1 .. capacity \subseteq Slots /\ Slots \subseteq 0 .. MaxCapacity
BY TableAssumption DEF Store, Slots

LEMMA FirstIdle ==
  ASSUME Store, idle # <<>>
  PROVE  Head(idle) \in 1 .. capacity /\ Head(idle) \in Slots /\ Tail(idle) \in Seq(1 .. capacity)
BY SlotsBelow, HeadTailProperties DEF Store

LEMMA ThreadsStep == Store /\ Threads /\ [Next]_vars => Threads'
<1> SUFFICES ASSUME Store, Threads, [Next]_vars PROVE Threads' OBVIOUS
<1>a. 1 .. capacity \subseteq 0 .. MaxCapacity /\ 0 \in 0 .. MaxCapacity /\ capacity \in Nat
  BY SlotsBelow, TableAssumption DEF Store
<1>b. Handle \subseteq Handle \cup {None} /\ None \in Handle \cup {None} /\ None \notin Handle
  BY TableAssumption
<1>c. \A p \in Process : at[p] \in 0 .. MaxCapacity /\ mine[p] \in Handle \cup {None} BY DEF Threads
<1> USE DEF Places, Calling, OnSlot, Inside
<1>1. CASE UNCHANGED vars BY <1>1 DEF vars, lists, Threads
<1>2. ASSUME NEW p \in Process, NEW h \in Handle, Submit(p, h) PROVE Threads'
  BY <1>2, <1>a, <1>b, WorkThreads DEF Submit, lists
<1>3. ASSUME NEW p \in Process, Full(p) PROVE Threads'
  <2>1. Goto(p, "insert") \/ Goto(p, "grow") BY <1>3 DEF Full
  <2>2. mine[p] # None /\ capacity' = capacity BY <1>3 DEF Full, lists, Threads
  <2>3. QED BY <2>1, <2>2, <1>a, GotoThreads
<1>4. ASSUME NEW p \in Process, LockWrite(p) PROVE Threads'
  <2>1. mine[p] # None /\ capacity' = capacity BY <1>4 DEF LockWrite, lists, Threads
  <2>2. QED BY <1>4, <2>1, <1>a, GotoThreads DEF LockWrite
<1>5. ASSUME NEW p \in Process, Expand(p) PROVE Threads'
  <2>1. mine[p] # None BY <1>5 DEF Expand, Threads
  <2>2. CASE Return(p) /\ capacity' = capacity BY <2>2, ReturnThreads
  <2>3. CASE Goto(p, "insert") /\ (capacity' = capacity \/ capacity' = capacity + Growth)
    BY <2>1, <2>3, <1>a, GotoThreads, TableAssumption
  <2>4. QED BY <1>5, <2>2, <2>3 DEF Expand, lists
<1>6. ASSUME NEW p \in Process, pc[p] = "insert", TakeIdle(p) PROVE Threads'
  BY <1>6, <1>a, <1>b, <1>c, FirstIdle, WorkThreads DEF TakeIdle
<1>7. ASSUME NEW p \in Process, pc[p] = "insert", NoRoom(p) PROVE Threads'
  <2>1. mine[p] # None /\ capacity' = capacity BY <1>7 DEF NoRoom, lists, Threads
  <2>2. CASE Return(p) BY <2>1, <2>2, ReturnThreads
  <2>3. CASE Goto(p, "ask") BY <2>1, <2>3, <1>a, GotoThreads
  <2>4. QED BY <1>7, <2>2, <2>3 DEF NoRoom
<1>8. ASSUME NEW p \in Process, Insert(p) PROVE Threads'
  <2>1. CASE With(mine[p]) = {} /\ (TakeIdle(p) \/ NoRoom(p)) BY <1>6, <1>7, <1>8, <2>1 DEF Insert
  <2>2. CASE \E s \in With(mine[p]) : (Work(p, "get", s, mine[p]) \/ Return(p)) /\ UNCHANGED lists
    <3>1. PICK s \in With(mine[p]) : Work(p, "get", s, mine[p]) \/ Return(p) BY <2>2
    <3>2. s \in 1 .. capacity /\ capacity' = capacity BY <2>2, <3>1 DEF With, lists
    <3>3. QED BY <3>1, <3>2, <1>a, <1>b, <1>c, WorkThreads, ReturnThreads
  <2>3. QED BY <1>8, <2>1, <2>2 DEF Insert
<1>9. ASSUME NEW p \in Process, Create(p) PROVE Threads'
  BY <1>6, <1>7, <1>9 DEF Create
<1>10. ASSUME NEW p \in Process, GetInserted(p) PROVE Threads'
  <2>1. at[p] \in 1 .. capacity /\ capacity' = capacity BY <1>10 DEF GetInserted, lists, Threads
  <2>2. Work(p, "hold", at[p], mine[p]) \/ Return(p) BY <1>10 DEF GetInserted, Reference
  <2>3. QED BY <2>1, <2>2, <1>a, <1>b, <1>c, WorkThreads, ReturnThreads
<1>11. ASSUME NEW p \in Process, NEW s \in Slots, GetByIndex(p, s) PROVE Threads'
  <2>1. s \in 1 .. capacity /\ capacity' = capacity /\ handle[s] \in Handle \cup {None}
    BY <1>11 DEF GetByIndex, lists, Store
  <2>2. QED BY <1>11, <2>1, <1>a, WorkThreads DEF GetByIndex, Reference
<1>12. ASSUME NEW p \in Process, NEW h \in Handle, NEW place \in {"count", "mark"}, Find(p, h, place)
       PROVE  Threads'
  <2>1. PICK s \in With(h) : Work(p, place, s, h) BY <1>12 DEF Find
  <2>2. s \in 1 .. capacity /\ capacity' = capacity BY <1>12 DEF With, Find, lists
  <2>3. QED BY <2>1, <2>2, <1>a, <1>b, WorkThreads
<1>13. ASSUME NEW p \in Process, Count(p) PROVE Threads'
  <2>1. at[p] \in 1 .. capacity /\ capacity' = capacity BY <1>13 DEF Count, lists, Threads
  <2>2. QED BY <1>13, <2>1, <1>a, <1>c, WorkThreads DEF Count, Reference
<1>14. ASSUME NEW p \in Process, MarkFound(p) PROVE Threads'
  <2>1. at[p] \in 1 .. capacity /\ capacity' = capacity BY <1>14 DEF MarkFound, lists, Threads
  <2>2. QED BY <1>14, <2>1, <1>a, <1>c, WorkThreads DEF MarkFound, Mark
<1>15. ASSUME NEW p \in Process, RemoveHeld(p) PROVE Threads'
  <2>1. at[p] \in 1 .. capacity /\ capacity' = capacity BY <1>15 DEF RemoveHeld, lists, Threads
  <2>2. QED BY <1>15, <2>1, <1>a, <1>c, WorkThreads DEF RemoveHeld, Mark
<1>16. ASSUME NEW p \in Process, NEW s \in Slots, RemoveByIndex(p, s) PROVE Threads'
  <2>1. s \in 1 .. capacity /\ capacity' = capacity /\ handle[s] \in Handle \cup {None}
    BY <1>16 DEF RemoveByIndex, lists, Store
  <2>2. QED BY <1>16, <2>1, <1>a, WorkThreads DEF RemoveByIndex, Mark
<1>17. ASSUME NEW p \in Process, Release(p) PROVE Threads'
  <2>1. at[p] \in 1 .. capacity /\ capacity' = capacity BY <1>17 DEF Release, lists, Threads
  <2>2. Goto(p, "drop") \/ Goto(p, "leave") BY <1>17 DEF Release
  <2>3. QED BY <2>1, <2>2, <1>a, GotoThreads
<1>18. ASSUME NEW p \in Process, ReleaseRefused(p) PROVE Threads'
  BY <1>18, ReturnThreads DEF ReleaseRefused, lists
<1>19. ASSUME NEW p \in Process, Drop(p) PROVE Threads'
  <2>1. at[p] \in 1 .. capacity /\ capacity' = capacity BY <1>19 DEF Drop, lists, Threads
  <2>2. QED BY <1>19, <2>1, <1>a, GotoThreads DEF Drop
<1>20. ASSUME NEW p \in Process, Leave(p) PROVE Threads'
  BY <1>20, ReturnThreads DEF Leave, lists
<1>21. QED
  BY <1>1, <1>2, <1>3, <1>4, <1>5, <1>8, <1>9, <1>10, <1>11, <1>12, <1>13, <1>14, <1>15, <1>16,
     <1>17, <1>18, <1>19, <1>20 DEF Next

-----------------------------------------------------------------------------
(* What a step does to the read locks and to the references: nothing, one  *)
(* more, one less, or a process leaves without giving back what it has,    *)
(* which it does only when its slot is no longer in use.                   *)
LockMoves ==
  \/ Insiders' = Insiders /\ readers' = readers
  \/ \E p \in Process \ Insiders :
       Insiders' = Insiders \cup {p} /\ readers' = readers + 1 /\ ~writing
  \/ \E p \in Insiders : Insiders' = Insiders \ {p} /\ readers' = readers - 1
  \/ \E p \in Insiders :
       /\ Insiders' = Insiders \ {p} /\ readers' = readers
       /\ pc[p] = "hold" /\ ~used[at[p]]

ReferenceMoves(s) ==
  \/ Referring(s)' = Referring(s) /\ refCount'[s] = refCount[s]
  \/ \E p \in Process \ Referring(s) :
       Referring(s)' = Referring(s) \cup {p} /\ refCount'[s] = refCount[s] + 1
  \/ \E p \in Referring(s) : Referring(s)' = Referring(s) \ {p} /\ refCount'[s] = refCount[s] - 1
  \/ \E p \in Referring(s) :
       Referring(s)' = Referring(s) \ {p} /\ refCount'[s] = refCount[s] /\ ~used[s]

LEMMA WorkMoves ==
  ASSUME Threads, NEW p \in Process, NEW place, NEW s, NEW h, Work(p, place, s, h)
  PROVE  /\ Insiders' = IF place \in Inside THEN Insiders \cup {p} ELSE Insiders \ {p}
         /\ \A t \in Slots :
              Referring(t)' = IF place = "hold" /\ s = t THEN Referring(t) \cup {p}
                              ELSE Referring(t) \ {p}
BY DEF Threads, Work, Insiders, Referring

LEMMA GotoMoves ==
  ASSUME Threads, NEW p \in Process, NEW place, Goto(p, place)
  PROVE  /\ Insiders' = IF place \in Inside THEN Insiders \cup {p} ELSE Insiders \ {p}
         /\ \A t \in Slots :
              Referring(t)' = IF place = "hold" /\ at[p] = t THEN Referring(t) \cup {p}
                              ELSE Referring(t) \ {p}
BY DEF Threads, Goto, Insiders, Referring

LEMMA LockMove == Store /\ Threads /\ [Next]_vars => LockMoves
<1> SUFFICES ASSUME Store, Threads, [Next]_vars PROVE LockMoves OBVIOUS
<1> USE DEF Inside
<1>a. \A p \in Process : p \in Insiders <=> pc[p] \in Inside BY DEF Insiders
<1>b. \A p \in Process : /\ p \in Insiders => Insiders \cup {p} = Insiders
                         /\ p \notin Insiders => Insiders \ {p} = Insiders
  OBVIOUS
<1>1. CASE UNCHANGED vars
  <2>1. pc' = pc /\ readers' = readers BY <1>1 DEF vars
  <2>2. QED BY <2>1 DEF Insiders, LockMoves
<1>2. ASSUME NEW p \in Process, NEW h \in Handle, Submit(p, h) PROVE LockMoves
  BY <1>2, <1>a, WorkMoves DEF Submit, LockMoves
<1>3. ASSUME NEW p \in Process, Full(p) PROVE LockMoves
  <2>1. Goto(p, "insert") \/ Goto(p, "grow") BY <1>3 DEF Full
  <2>2. p \notin Insiders /\ readers' = readers BY <1>3, <1>a DEF Full
  <2>3. QED BY <2>1, <2>2, GotoMoves DEF LockMoves
<1>4. ASSUME NEW p \in Process, LockWrite(p) PROVE LockMoves
  BY <1>4, <1>a, <1>b, GotoMoves DEF LockWrite, LockMoves
<1>5. ASSUME NEW p \in Process, Expand(p) PROVE LockMoves
  <2>1. /\ p \notin Insiders /\ readers' = readers
        /\ Goto(p, "insert") \/ Return(p)
    BY <1>5, <1>a DEF Expand
  <2>2. QED BY <2>1, GotoMoves, WorkMoves DEF Return, LockMoves
<1>6. ASSUME NEW p \in Process, Insert(p) PROVE LockMoves
  <2>1. /\ p \notin Insiders /\ readers' = readers
        /\ Goto(p, "ask") \/ Return(p) \/ \E s \in Slots : Work(p, "get", s, mine[p])
    BY <1>6, <1>a, FirstIdle, SlotsBelow DEF Insert, TakeIdle, NoRoom, With
  <2>2. QED BY <2>1, GotoMoves, WorkMoves DEF Return, LockMoves
<1>7. ASSUME NEW p \in Process, Create(p) PROVE LockMoves
  <2>1. /\ p \notin Insiders /\ readers' = readers
        /\ Goto(p, "ask") \/ Return(p) \/ \E s \in Slots : Work(p, "get", s, mine[p])
    BY <1>7, <1>a, FirstIdle DEF Create, TakeIdle, NoRoom
  <2>2. QED BY <2>1, GotoMoves, WorkMoves DEF Return, LockMoves
<1>8. ASSUME NEW p \in Process, GetInserted(p) PROVE LockMoves
  <2>1. p \notin Insiders BY <1>8, <1>a DEF GetInserted
  <2>2. CASE readers' = readers + 1 /\ ~writing /\ Work(p, "hold", at[p], mine[p])
    BY <2>1, <2>2, WorkMoves DEF LockMoves
  <2>3. CASE readers' = readers /\ Return(p) BY <2>1, <2>3, WorkMoves DEF Return, LockMoves
  <2>4. QED BY <1>8, <2>2, <2>3 DEF GetInserted, ReadLock, Reference
<1>9. ASSUME NEW p \in Process, NEW s \in Slots, GetByIndex(p, s) PROVE LockMoves
  BY <1>9, <1>a, WorkMoves DEF GetByIndex, ReadLock, Reference, LockMoves
<1>10. ASSUME NEW p \in Process, NEW h \in Handle, NEW place \in {"count", "mark"}, Find(p, h, place)
       PROVE  LockMoves
  <2>1. PICK s \in With(h) : Work(p, place, s, h) BY <1>10 DEF Find
  <2>2. QED BY <1>10, <2>1, <1>a, WorkMoves DEF Find, ReadLock, LockMoves
<1>11. ASSUME NEW p \in Process, Count(p) PROVE LockMoves
  BY <1>11, <1>a, <1>b, WorkMoves DEF Count, Reference, LockMoves
<1>12. ASSUME NEW p \in Process, MarkFound(p) PROVE LockMoves
  <2>1. p \in Insiders /\ readers' = readers BY <1>12, <1>a DEF MarkFound
  <2>2. Work(p, "leave", at[p], mine[p]) \/ Work(p, "drop", at[p], mine[p]) BY <1>12 DEF MarkFound, Mark
  <2>3. QED BY <2>1, <2>2, <1>b, WorkMoves DEF LockMoves
<1>13. ASSUME NEW p \in Process, RemoveHeld(p) PROVE LockMoves
  <2>1. p \in Insiders /\ readers' = readers /\ Work(p, "hold", at[p], mine[p])
    BY <1>13, <1>a DEF RemoveHeld, Mark
  <2>2. QED BY <2>1, <1>b, WorkMoves DEF LockMoves
<1>14. ASSUME NEW p \in Process, NEW s \in Slots, RemoveByIndex(p, s) PROVE LockMoves
  BY <1>14, <1>a, WorkMoves DEF RemoveByIndex, ReadLock, Mark, LockMoves
<1>15. ASSUME NEW p \in Process, Release(p) PROVE LockMoves
  <2>1. Goto(p, "drop") \/ Goto(p, "leave") BY <1>15 DEF Release
  <2>2. QED BY <1>15, <2>1, <1>a, GotoMoves DEF Release, LockMoves
<1>16. ASSUME NEW p \in Process, ReleaseRefused(p) PROVE LockMoves
  BY <1>16, <1>a, WorkMoves DEF ReleaseRefused, Return, LockMoves
<1>17. ASSUME NEW p \in Process, Drop(p) PROVE LockMoves
  BY <1>17, <1>a, <1>b, GotoMoves DEF Drop, LockMoves
<1>18. ASSUME NEW p \in Process, Leave(p) PROVE LockMoves
  BY <1>18, <1>a, WorkMoves DEF Leave, ReadUnlock, Return, LockMoves
<1>19. QED
  BY <1>1, <1>2, <1>3, <1>4, <1>5, <1>6, <1>7, <1>8, <1>9, <1>10, <1>11, <1>12, <1>13, <1>14,
     <1>15, <1>16, <1>17, <1>18 DEF Next

LEMMA Unmoved ==
  ASSUME Threads, NEW p \in Process, pc[p] # "hold", pc'[p] # "hold",
         pc' = [pc EXCEPT ![p] = pc'[p]], \A q \in Process \ {p} : at'[q] = at[q],
         NEW s \in Slots, refCount'[s] = refCount[s]
  PROVE  ReferenceMoves(s)
<1>1. Referring(s)' = Referring(s) BY DEF Referring, Threads
<1>2. QED BY <1>1 DEF ReferenceMoves

LEMMA WorkUnmoved ==
  ASSUME Threads, NEW p \in Process, pc[p] # "hold", NEW place, place # "hold",
         Goto(p, place) \/ \E s, h : Work(p, place, s, h),
         refCount' = refCount
  PROVE  \A s \in Slots : ReferenceMoves(s)
<1>1. pc' = [pc EXCEPT ![p] = place] /\ pc'[p] = place BY DEF Goto, Work, Threads
<1>2. \A q \in Process \ {p} : at'[q] = at[q] BY DEF Goto, Work, Threads
<1>3. QED BY <1>1, <1>2, Unmoved

LEMMA Referenced ==
  ASSUME Store, Threads, NEW p \in Process, pc[p] # "hold", NEW s \in Slots, NEW h, Reference(p, s, h)
  PROVE  \A t \in Slots : ReferenceMoves(t)
<1> SUFFICES ASSUME NEW t \in Slots PROVE ReferenceMoves(t) OBVIOUS
<1>1. p \notin Referring(t) BY DEF Referring
<1>2. Referring(t)' = IF s = t THEN Referring(t) \cup {p} ELSE Referring(t) \ {p}
  BY WorkMoves DEF Reference
<1>3. refCount'[t] = IF s = t THEN refCount[t] + 1 ELSE refCount[t] BY DEF Reference, Store
<1>4. QED BY <1>1, <1>2, <1>3 DEF ReferenceMoves

LEMMA ReferenceMove == Store /\ Threads /\ [Next]_vars => \A s \in Slots : ReferenceMoves(s)
<1> DEFINE Moved == \A s \in Slots : ReferenceMoves(s)
<1> SUFFICES ASSUME Store, Threads, [Next]_vars PROVE Moved OBVIOUS
<1>1. CASE UNCHANGED vars
  <2>1. pc' = pc /\ at' = at /\ refCount' = refCount BY <1>1 DEF vars, node
  <2>2. QED BY <2>1 DEF Referring, ReferenceMoves
<1>2. ASSUME NEW p \in Process, NEW h \in Handle, Submit(p, h) PROVE Moved
  BY <1>2, WorkUnmoved DEF Submit, node
<1>3. ASSUME NEW p \in Process, Full(p) PROVE Moved
  <2>1. Goto(p, "insert") \/ Goto(p, "grow") BY <1>3 DEF Full
  <2>2. QED BY <1>3, <2>1, WorkUnmoved DEF Full, node
<1>4. ASSUME NEW p \in Process, LockWrite(p) PROVE Moved
  BY <1>4, WorkUnmoved DEF LockWrite, node
<1>5. ASSUME NEW p \in Process, Expand(p) PROVE Moved
  BY <1>5, WorkUnmoved DEF Expand, Return, node
<1>6. ASSUME NEW p \in Process, Insert(p) PROVE Moved
  <2>1. /\ pc[p] # "hold" /\ refCount' = refCount
        /\ Goto(p, "ask") \/ Return(p) \/ \E s : Work(p, "get", s, mine[p])
    BY <1>6 DEF Insert, TakeIdle, NoRoom, node
  <2>2. QED BY <2>1, WorkUnmoved DEF Return
<1>7. ASSUME NEW p \in Process, Create(p) PROVE Moved
  <2>1. /\ pc[p] # "hold" /\ refCount' = refCount
        /\ Goto(p, "ask") \/ Return(p) \/ \E s : Work(p, "get", s, mine[p])
    BY <1>7 DEF Create, TakeIdle, NoRoom, node
  <2>2. QED BY <2>1, WorkUnmoved DEF Return
<1>8. ASSUME NEW p \in Process, GetInserted(p) PROVE Moved
  <2>1. pc[p] # "hold" /\ at[p] \in Slots
    BY <1>8, SlotsBelow DEF GetInserted, Threads, OnSlot
  <2>2. CASE Reference(p, at[p], mine[p]) BY <2>1, <2>2, Referenced
  <2>3. CASE Return(p) /\ UNCHANGED node BY <2>1, <2>3, WorkUnmoved DEF Return, node
  <2>4. QED BY <1>8, <2>2, <2>3 DEF GetInserted
<1>9. ASSUME NEW p \in Process, NEW s \in Slots, GetByIndex(p, s) PROVE Moved
  BY <1>9, Referenced DEF GetByIndex
<1>10. ASSUME NEW p \in Process, NEW h \in Handle, NEW place \in {"count", "mark"}, Find(p, h, place)
       PROVE  Moved
  <2>1. pc[p] # "hold" /\ refCount' = refCount /\ \E s : Work(p, place, s, h) BY <1>10 DEF Find, node
  <2>2. QED BY <2>1, WorkUnmoved
<1>11. ASSUME NEW p \in Process, Count(p) PROVE Moved
  <2>1. pc[p] # "hold" /\ at[p] \in Slots BY <1>11, SlotsBelow DEF Count, Threads, OnSlot, Inside
  <2>2. QED BY <1>11, <2>1, Referenced DEF Count
<1>12. ASSUME NEW p \in Process, MarkFound(p) PROVE Moved
  BY <1>12, WorkUnmoved DEF MarkFound, Mark
<1>13. ASSUME NEW p \in Process, RemoveHeld(p) PROVE Moved
  <2>1. Work(p, "hold", at[p], mine[p]) /\ refCount' = refCount BY <1>13 DEF RemoveHeld, Mark
  <2>2. \A s \in Slots : Referring(s)' = Referring(s)
    BY <1>13, <2>1 DEF RemoveHeld, Work, Referring, Threads
  <2>3. QED BY <2>1, <2>2 DEF ReferenceMoves
<1>14. ASSUME NEW p \in Process, NEW s \in Slots, RemoveByIndex(p, s) PROVE Moved
  BY <1>14, WorkUnmoved DEF RemoveByIndex, Mark
<1>15. ASSUME NEW p \in Process, Release(p) PROVE Moved
  <2> SUFFICES ASSUME NEW t \in Slots PROVE ReferenceMoves(t) OBVIOUS
  <2>1. Referring(t)' = Referring(t) \ {p}
    <3>1. Goto(p, "drop") \/ Goto(p, "leave") BY <1>15 DEF Release
    <3>2. QED BY <3>1, GotoMoves
  <2>2. refCount'[t] = IF at[p] = t THEN refCount[t] - 1 ELSE refCount[t]
    BY <1>15 DEF Release, Store
  <2>3. p \in Referring(t) <=> at[p] = t BY <1>15 DEF Release, Referring
  <2>4. QED BY <2>1, <2>2, <2>3 DEF ReferenceMoves
<1>16. ASSUME NEW p \in Process, ReleaseRefused(p) PROVE Moved
  <2> SUFFICES ASSUME NEW t \in Slots PROVE ReferenceMoves(t) OBVIOUS
  <2>1. Referring(t)' = Referring(t) \ {p} /\ refCount' = refCount
    BY <1>16, WorkMoves DEF ReleaseRefused, Return, node
  <2>2. p \in Referring(t) <=> at[p] = t BY <1>16 DEF ReleaseRefused, Referring
  <2>3. ~used[at[p]] BY <1>16 DEF ReleaseRefused
  <2>4. QED BY <2>1, <2>2, <2>3 DEF ReferenceMoves
<1>17. ASSUME NEW p \in Process, Drop(p) PROVE Moved
  BY <1>17, WorkUnmoved DEF Drop, node
<1>18. ASSUME NEW p \in Process, Leave(p) PROVE Moved
  BY <1>18, WorkUnmoved DEF Leave, Return, node
<1>19. QED
  BY <1>1, <1>2, <1>3, <1>4, <1>5, <1>6, <1>7, <1>8, <1>9, <1>10, <1>11, <1>12, <1>13, <1>14,
     <1>15, <1>16, <1>17, <1>18 DEF Next

-----------------------------------------------------------------------------
(* Nobody gives back what it does not have, and the table is well typed.   *)
LEMMA Counting ==
  ASSUME NEW S \in SUBSET Process
  PROVE  /\ Cardinality(S) \in Nat
         /\ \A p \in Process \ S : Cardinality(S \cup {p}) = Cardinality(S) + 1
         /\ \A p \in S : Cardinality(S \ {p}) = Cardinality(S) - 1 /\ Cardinality(S) >= 1
<1>1. IsFiniteSet(S) BY TableAssumption, FS_Subset
<1>2. Cardinality(S) \in Nat BY <1>1, FS_CardinalityType
<1>3. \A p \in Process \ S : Cardinality(S \cup {p}) = Cardinality(S) + 1 BY <1>1, FS_AddElement
<1>4. \A p \in S : Cardinality(S \ {p}) = Cardinality(S) - 1 BY <1>1, FS_RemoveElement
<1>5. ASSUME NEW p \in S PROVE Cardinality(S) >= 1
  <2>1. IsFiniteSet(S \ {p}) BY <1>1, FS_RemoveElement
  <2>2. Cardinality(S \ {p}) \in Nat BY <2>1, FS_CardinalityType
  <2>3. QED BY <1>2, <1>4, <2>2
<1>6. QED BY <1>2, <1>3, <1>4, <1>5

LEMMA AtLeastStep == Store /\ Threads /\ AtLeast /\ [Next]_vars => AtLeast'
<1> SUFFICES ASSUME Store, Threads, AtLeast, [Next]_vars PROVE AtLeast' OBVIOUS
<1>1. readers' >= Cardinality(Insiders')
  <2>1. LockMoves BY LockMove
  <2>2. Insiders \in SUBSET Process BY DEF Insiders
  <2>3. readers \in Nat /\ readers >= Cardinality(Insiders) BY DEF Store, AtLeast
  <2>4. QED BY <2>1, <2>2, <2>3, Counting DEF LockMoves
<1>2. ASSUME NEW s \in Slots PROVE refCount'[s] >= Cardinality(Referring(s)')
  <2>1. ReferenceMoves(s) BY ReferenceMove
  <2>2. Referring(s) \in SUBSET Process BY DEF Referring
  <2>3. refCount[s] \in Nat /\ refCount[s] >= Cardinality(Referring(s)) BY DEF Store, AtLeast
  <2>4. QED BY <2>1, <2>2, <2>3, Counting DEF ReferenceMoves
<1>3. QED BY <1>1, <1>2 DEF AtLeast

LEMMA TakeIdleStore ==
  ASSUME Store, Threads, NEW p \in Process, TakeIdle(p),
         UNCHANGED <<table, readers, writing, exposed>>
  PROVE  Store'
<1>1. Head(idle) \in Slots /\ Tail(idle) \in Seq(1 .. capacity) BY FirstIdle DEF TakeIdle
<1>2. mine[p] \in Handle \cup {None} BY DEF Threads
<1>3. freePos' \in 1 .. MaxCapacity + 1
  <2>1. freePos \in 1 .. MaxCapacity + 1 /\ MaxCapacity \in Nat BY TableAssumption DEF Store
  <2>2. Head(idle) \in 1 .. MaxCapacity BY <1>1 DEF Slots
  <2>3. freePos' = IF Head(idle) >= freePos THEN Head(idle) + 1 ELSE freePos BY DEF TakeIdle, Raised
  <2>4. QED BY <2>1, <2>2, <2>3
<1>4. QED BY <1>1, <1>2, <1>3 DEF TakeIdle, Store

LEMMA StoreStep == Store /\ Threads /\ AtLeast /\ [Next]_vars => Store'
<1> SUFFICES ASSUME Store, Threads, AtLeast, [Next]_vars PROVE Store' OBVIOUS
<1>1. CASE UNCHANGED vars BY <1>1 DEF vars, node, lists, Store
<1>2. ASSUME NEW p \in Process, NEW h \in Handle, Submit(p, h) PROVE Store'
  BY <1>2 DEF Submit, node, lists, Store
<1>3. ASSUME NEW p \in Process, Full(p) PROVE Store' BY <1>3 DEF Full, node, lists, Store
<1>4. ASSUME NEW p \in Process, LockWrite(p) PROVE Store' BY <1>4 DEF LockWrite, node, lists, Store
<1>5. ASSUME NEW p \in Process, Expand(p) PROVE Store'
  <2>1. CASE UNCHANGED lists BY <1>5, <2>1 DEF Expand, node, lists, Store
  <2>2. CASE capacity + Growth <= MaxCapacity /\ capacity' = capacity + Growth /\ idle' = NewSlots
             /\ UNCHANGED freePos
    <3>1. capacity \in Nat /\ Growth \in Nat /\ MaxCapacity \in Nat BY TableAssumption DEF Store
    <3>2. NewSlots \in [1 .. Growth -> 1 .. capacity + Growth] BY <3>1 DEF NewSlots
    <3>3. NewSlots \in Seq(1 .. capacity + Growth) BY <3>1, <3>2, SeqDef
    <3>4. capacity' \in 0 .. MaxCapacity /\ idle' \in Seq(1 .. capacity') BY <2>2, <3>1, <3>3
    <3>5. QED BY <1>5, <2>2, <3>4 DEF Expand, node, Store
  <2>3. QED BY <1>5, <2>1, <2>2 DEF Expand
<1>6. ASSUME NEW p \in Process, Insert(p) PROVE Store'
  <2>1. CASE With(mine[p]) = {} /\ TakeIdle(p) BY <1>6, <2>1, TakeIdleStore DEF Insert
  <2>2. CASE With(mine[p]) = {} /\ NoRoom(p) BY <1>6, <2>2 DEF Insert, NoRoom, node, lists, Store
  <2>3. CASE With(mine[p]) # {} BY <1>6, <2>3 DEF Insert, node, lists, Store
  <2>4. QED BY <1>6, <2>1, <2>2, <2>3 DEF Insert
<1>7. ASSUME NEW p \in Process, Create(p) PROVE Store'
  <2>1. CASE TakeIdle(p) BY <1>7, <2>1, TakeIdleStore DEF Create
  <2>2. CASE NoRoom(p) BY <1>7, <2>2 DEF Create, NoRoom, node, lists, Store
  <2>3. QED BY <1>7, <2>1, <2>2 DEF Create
<1>8. ASSUME NEW p \in Process, GetInserted(p) PROVE Store'
  <2>1. at[p] \in Slots BY <1>8, SlotsBelow DEF GetInserted, Threads, OnSlot
  <2>2. QED BY <1>8, <2>1 DEF GetInserted, ReadLock, Reference, node, lists, Store
<1>9. ASSUME NEW p \in Process, NEW s \in Slots, GetByIndex(p, s) PROVE Store'
  BY <1>9 DEF GetByIndex, ReadLock, Reference, lists, Store
<1>10. ASSUME NEW p \in Process, NEW h \in Handle, NEW place \in {"count", "mark"}, Find(p, h, place)
       PROVE  Store'
  BY <1>10 DEF Find, ReadLock, node, lists, Store
<1>11. ASSUME NEW p \in Process, Count(p) PROVE Store'
  <2>1. at[p] \in Slots BY <1>11, SlotsBelow DEF Count, Threads, OnSlot, Inside
  <2>2. QED BY <1>11, <2>1 DEF Count, Reference, lists, Store
<1>12. ASSUME NEW p \in Process, MarkFound(p) PROVE Store'
  <2>1. at[p] \in Slots BY <1>12, SlotsBelow DEF MarkFound, Threads, OnSlot, Inside
  <2>2. QED BY <1>12, <2>1 DEF MarkFound, Mark, lists, Store
<1>13. ASSUME NEW p \in Process, RemoveHeld(p) PROVE Store'
  <2>1. at[p] \in Slots BY <1>13, SlotsBelow DEF RemoveHeld, Threads, OnSlot, Inside
  <2>2. QED BY <1>13, <2>1 DEF RemoveHeld, Mark, MarksDropped, lists, Store
<1>14. ASSUME NEW p \in Process, NEW s \in Slots, RemoveByIndex(p, s) PROVE Store'
  <2>1. /\ used' \in [Slots -> BOOLEAN] /\ remove' \in [Slots -> BOOLEAN]
        /\ UNCHANGED <<handle, refCount>>
    BY <1>14 DEF RemoveByIndex, Mark, Store
  <2>2. readers' \in Nat BY <1>14 DEF RemoveByIndex, ReadLock, Store
  <2>a. exposed' = exposed \cup {t \in {s} : Dropping(t)} BY <1>14 DEF RemoveByIndex, MarksDropped
  <2>b. exposed' \subseteq Slots BY <2>a DEF Store
  <2>3. QED BY <1>14, <2>1, <2>2, <2>b DEF RemoveByIndex, lists, Store
<1>15. ASSUME NEW p \in Process, Release(p) PROVE Store'
  <2>1. at[p] \in Slots BY <1>15, SlotsBelow DEF Release, Threads, OnSlot, Inside
  <2>a. pc[p] = "hold" BY <1>15 DEF Release
  <2>2. p \in Referring(at[p]) /\ Referring(at[p]) \in SUBSET Process BY <2>a DEF Referring
  <2>b. Cardinality(Referring(at[p])) \in Nat /\ Cardinality(Referring(at[p])) >= 1 BY <2>2, Counting
  <2>3. refCount[at[p]] - 1 \in Nat BY <2>1, <2>b DEF AtLeast, Store
  <2>c. refCount' = [refCount EXCEPT ![at[p]] = refCount[at[p]] - 1] BY <1>15 DEF Release
  <2>4. refCount' \in [Slots -> Nat] BY <2>c, <2>3 DEF Store
  <2>5. QED BY <1>15, <2>4 DEF Release, lists, Store
<1>16. ASSUME NEW p \in Process, ReleaseRefused(p) PROVE Store'
  BY <1>16 DEF ReleaseRefused, node, lists, Store
<1>17. ASSUME NEW p \in Process, Drop(p) PROVE Store'
  <2>1. CASE UNCHANGED <<node, lists>> BY <1>17, <2>1 DEF Drop, node, lists, Store
  <2>2. CASE ~UNCHANGED <<node, lists>>
    <3>1. at[p] \in 1 .. capacity BY <1>17 DEF Drop, Threads, OnSlot, Inside
    <3>2. <<at[p]>> \o idle \in Seq(1 .. capacity) BY <3>1 DEF Store
    <3>3. freePos' \in 1 .. MaxCapacity + 1
      BY <1>17, <2>2, TableAssumption DEF Drop, Lower, Store
    <3>4. QED BY <1>17, <2>2, <3>2, <3>3 DEF Drop, Store
  <2>3. QED BY <2>1, <2>2
<1>18. ASSUME NEW p \in Process, Leave(p) PROVE Store'
  <2>a. pc[p] = "leave" BY <1>18 DEF Leave
  <2>1. p \in Insiders /\ Insiders \in SUBSET Process BY <2>a DEF Insiders, Inside
  <2>b. Cardinality(Insiders) \in Nat /\ Cardinality(Insiders) >= 1 BY <2>1, Counting
  <2>2. readers \in Nat /\ readers >= 1 BY <2>b DEF AtLeast, Store
  <2>3. readers' \in Nat BY <1>18, <2>2 DEF Leave, ReadUnlock
  <2>4. QED BY <1>18, <2>3 DEF Leave, node, lists, Store
<1>19. QED
  BY <1>1, <1>2, <1>3, <1>4, <1>5, <1>6, <1>7, <1>8, <1>9, <1>10, <1>11, <1>12, <1>13, <1>14,
     <1>15, <1>16, <1>17, <1>18 DEF Next

-----------------------------------------------------------------------------
(* The idle list has exactly the slots without a handle.  What makes this  *)
(* inductive is that the slots not yet added have no handle either.        *)
Listed ==
  /\ \A s \in 1 .. capacity : handle[s] = None <=> s \in ToSet(idle)
  /\ IsInjective(idle)
  /\ \A s, t \in Slots : handle[s] = handle[t] /\ s # t => handle[s] = None
  /\ \A s \in Slots : s > capacity => handle[s] = None

LEMMA TailIdle ==
  ASSUME NEW S, NEW list \in Seq(S), list # <<>>, IsInjective(list)
  PROVE  /\ ToSet(Tail(list)) = ToSet(list) \ {Head(list)}
         /\ Head(list) \in ToSet(list)
         /\ IsInjective(Tail(list))
<1>1. /\ Len(list) \in Nat \ {0} /\ DOMAIN list = 1 .. Len(list) /\ Head(list) = list[1]
      /\ DOMAIN Tail(list) = 1 .. Len(list) - 1
      /\ \A i \in 1 .. Len(list) - 1 : Tail(list)[i] = list[i + 1]
  BY HeadTailProperties, LenProperties, EmptySeq
<1>2. \A i, j \in 1 .. Len(list) : list[i] = list[j] => i = j BY <1>1 DEF IsInjective
<1>3. IsInjective(Tail(list))
  <2>1. ASSUME NEW i \in 1 .. Len(list) - 1, NEW j \in 1 .. Len(list) - 1,
               Tail(list)[i] = Tail(list)[j]
        PROVE  i = j
    <3>1. i + 1 \in 1 .. Len(list) /\ j + 1 \in 1 .. Len(list) BY <1>1
    <3>2. list[i + 1] = list[j + 1] BY <1>1, <2>1
    <3>3. i + 1 = j + 1 BY <1>2, <3>1, <3>2
    <3>4. QED BY <3>3
  <2>2. QED BY <1>1, <2>1 DEF IsInjective
<1>4. ToSet(Tail(list)) = ToSet(list) \ {Head(list)}
  <2>1. ASSUME NEW x \in ToSet(Tail(list)) PROVE x \in ToSet(list) \ {Head(list)}
    <3>1. PICK i \in 1 .. Len(list) - 1 : x = Tail(list)[i] BY <1>1 DEF ToSet
    <3>2. x = list[i + 1] /\ i + 1 \in 1 .. Len(list) /\ 1 \in 1 .. Len(list) /\ i + 1 # 1
      BY <1>1, <3>1
    <3>3. x # list[1] BY <1>2, <3>2
    <3>4. QED BY <1>1, <3>2, <3>3 DEF ToSet
  <2>2. ASSUME NEW x \in ToSet(list) \ {Head(list)} PROVE x \in ToSet(Tail(list))
    <3>1. PICK i \in 1 .. Len(list) : x = list[i] BY <1>1 DEF ToSet
    <3>2. i # 1 BY <1>1, <2>2, <3>1
    <3>3. i - 1 \in 1 .. Len(list) - 1 /\ (i - 1) + 1 = i BY <1>1, <3>2
    <3>4. x = Tail(list)[i - 1] BY <1>1, <3>1, <3>3
    <3>5. QED BY <1>1, <3>3, <3>4 DEF ToSet
  <2>3. QED BY <2>1, <2>2
<1>5. Head(list) \in ToSet(list) BY <1>1 DEF ToSet
<1>6. QED BY <1>3, <1>4, <1>5

LEMMA PushIdle ==
  ASSUME NEW S, NEW list \in Seq(S), NEW x \in S, x \notin ToSet(list), IsInjective(list)
  PROVE  /\ ToSet(<<x>> \o list) = ToSet(list) \cup {x}
         /\ IsInjective(<<x>> \o list)
<1> DEFINE longer == <<x>> \o list
<1>1. /\ Len(list) \in Nat /\ DOMAIN list = 1 .. Len(list)
      /\ DOMAIN longer = 1 .. Len(list) + 1 /\ longer[1] = x
      /\ \A i \in 1 .. Len(list) : longer[i + 1] = list[i]
  OBVIOUS
<1>2. \A i \in 1 .. Len(list) + 1 : i = 1 \/ (i - 1 \in 1 .. Len(list) /\ (i - 1) + 1 = i) BY <1>1
<1>3. ToSet(longer) = ToSet(list) \cup {x}
  <2>1. ASSUME NEW y \in ToSet(longer) PROVE y \in ToSet(list) \cup {x}
    <3>1. PICK i \in 1 .. Len(list) + 1 : y = longer[i] BY <1>1 DEF ToSet
    <3>2. QED BY <1>1, <1>2, <3>1 DEF ToSet
  <2>2. ASSUME NEW y \in ToSet(list) PROVE y \in ToSet(longer)
    <3>1. PICK i \in 1 .. Len(list) : y = list[i] BY <1>1 DEF ToSet
    <3>2. i + 1 \in 1 .. Len(list) + 1 /\ y = longer[i + 1] BY <1>1, <3>1
    <3>3. QED BY <1>1, <3>2 DEF ToSet
  <2>3. x \in ToSet(longer) BY <1>1 DEF ToSet
  <2>4. QED BY <2>1, <2>2, <2>3
<1>4. ASSUME NEW i \in 1 .. Len(list) + 1, NEW j \in 1 .. Len(list) + 1, longer[i] = longer[j]
      PROVE  i = j
  <2>1. \A k \in 1 .. Len(list) : list[k] # x BY <1>1 DEF ToSet
  <2>2. i = 1 <=> j = 1 BY <1>1, <1>2, <1>4, <2>1
  <2>3. CASE i # 1 /\ j # 1
    <3>1. list[i - 1] = list[j - 1] BY <1>1, <1>2, <1>4, <2>3
    <3>2. i - 1 = j - 1 BY <1>1, <1>2, <2>3, <3>1 DEF IsInjective
    <3>3. QED BY <3>2
  <2>4. QED BY <2>2, <2>3
<1>5. QED BY <1>1, <1>3, <1>4 DEF IsInjective

LEMMA TakeIdleListed ==
  ASSUME Store, Threads, Listed, NEW p \in Process, pc[p] = "insert", With(mine[p]) = {}, TakeIdle(p)
  PROVE  Listed'
<1> DEFINE s == Head(idle)
<1>1. /\ s \in 1 .. capacity /\ s \in Slots /\ capacity' = capacity /\ mine[p] # None
      /\ handle' = [handle EXCEPT ![s] = mine[p]] /\ idle' = Tail(idle)
  BY FirstIdle DEF TakeIdle, Threads, Calling
<1>2. ToSet(idle') = ToSet(idle) \ {s} /\ IsInjective(idle')
  BY <1>1, TailIdle DEF TakeIdle, Listed, Store
<1>3. \A t \in Slots : handle'[t] = IF t = s THEN mine[p] ELSE handle[t] BY <1>1 DEF Store
<1>4. \A t \in Slots : handle[t] # mine[p]
  <2> SUFFICES ASSUME NEW t \in Slots, handle[t] = mine[p] PROVE FALSE OBVIOUS
  <2>a. t \in Nat /\ t >= 1 /\ capacity \in Nat BY TableAssumption DEF Store, Slots
  <2>b. ~(t > capacity) BY <1>1 DEF Listed
  <2>1. t \in 1 .. capacity BY <2>a, <2>b
  <2>2. QED BY <2>1 DEF With
<1>5. 1 .. capacity \subseteq Slots BY SlotsBelow
<1>6. \A t \in 1 .. capacity' : handle'[t] = None <=> t \in ToSet(idle')
  BY <1>1, <1>2, <1>3, <1>5 DEF Listed
<1>7. \A t, u \in Slots : handle'[t] = handle'[u] /\ t # u => handle'[t] = None
  BY <1>3, <1>4 DEF Listed
<1>8. \A t \in Slots : t > capacity' => handle'[t] = None
  BY <1>1, <1>3, TableAssumption DEF Listed, Store, Slots
<1>9. QED BY <1>2, <1>6, <1>7, <1>8 DEF Listed

LEMMA ExpandListed ==
  ASSUME Store, Listed, idle = <<>>, capacity + Growth <= MaxCapacity,
         capacity' = capacity + Growth, idle' = NewSlots, handle' = handle
  PROVE  Listed'
<1>1. capacity \in Nat /\ Growth \in Nat /\ MaxCapacity \in Nat BY TableAssumption DEF Store
<1>2. DOMAIN NewSlots = 1 .. Growth /\ \A i \in 1 .. Growth : NewSlots[i] = capacity + i
  BY DEF NewSlots
<1>3. IsInjective(NewSlots) BY <1>1, <1>2 DEF IsInjective
<1>4. \A s \in 1 .. capacity + Growth : s \in ToSet(NewSlots) <=> s > capacity
  <2>1. ASSUME NEW s \in 1 .. capacity + Growth, s > capacity PROVE s \in ToSet(NewSlots)
    <3>1. s - capacity \in 1 .. Growth /\ NewSlots[s - capacity] = s BY <1>1, <1>2, <2>1
    <3>2. QED BY <1>2, <3>1 DEF ToSet
  <2>2. ASSUME NEW s \in ToSet(NewSlots) PROVE s > capacity BY <1>1, <1>2 DEF ToSet
  <2>3. QED BY <2>1, <2>2
<1>5. \A s \in 1 .. capacity : handle[s] # None BY DEF Listed, ToSet
<1>6. \A s \in 1 .. capacity' : handle'[s] = None <=> s \in ToSet(idle')
  <2> SUFFICES ASSUME NEW s \in 1 .. capacity + Growth
               PROVE  handle[s] = None <=> s > capacity
    BY <1>4
  <2>1. CASE s <= capacity BY <1>1, <1>5, <2>1
  <2>2. CASE s > capacity
    <3>1. s \in Slots BY <1>1 DEF Slots
    <3>2. QED BY <2>2, <3>1 DEF Listed
  <2>3. QED BY <1>1, <2>1, <2>2
<1>7. QED BY <1>1, <1>3, <1>6 DEF Listed, Slots

LEMMA DropListed ==
  ASSUME Store, Threads, Listed, NEW p \in Process, Drop(p)
  PROVE  Listed'
<1> DEFINE s == at[p]
<1>1. CASE UNCHANGED <<node, lists>> BY <1>1 DEF node, lists, Listed
<1>2. CASE /\ handle[s] # None /\ handle' = [handle EXCEPT ![s] = None]
           /\ idle' = <<s>> \o idle /\ capacity' = capacity
  <2>1. s \in 1 .. capacity /\ s \in Slots BY SlotsBelow DEF Drop, Threads, OnSlot, Inside
  <2>2. s \notin ToSet(idle) BY <1>2, <2>1 DEF Listed
  <2>3. ToSet(idle') = ToSet(idle) \cup {s} /\ IsInjective(idle')
    BY <1>2, <2>1, <2>2, PushIdle DEF Listed, Store
  <2>4. \A t \in Slots : handle'[t] = IF t = s THEN None ELSE handle[t] BY <1>2, <2>1 DEF Store
  <2>5. 1 .. capacity \subseteq Slots BY SlotsBelow
  <2>6. QED BY <1>2, <2>1, <2>3, <2>4, <2>5 DEF Listed
<1>3. QED BY <1>1, <1>2 DEF Drop

LEMMA ListedStep == Store /\ Threads /\ Listed /\ [Next]_vars => Listed'
<1> SUFFICES ASSUME Store, Threads, Listed, [Next]_vars PROVE Listed' OBVIOUS
<1>0. handle' = handle /\ UNCHANGED lists => Listed' BY DEF lists, Listed
<1>1. CASE UNCHANGED vars BY <1>0, <1>1 DEF vars, node
<1>2. ASSUME NEW p \in Process, NEW h \in Handle, Submit(p, h) PROVE Listed'
  BY <1>0, <1>2 DEF Submit, node
<1>3. ASSUME NEW p \in Process, Full(p) PROVE Listed' BY <1>0, <1>3 DEF Full, node
<1>4. ASSUME NEW p \in Process, LockWrite(p) PROVE Listed' BY <1>0, <1>4 DEF LockWrite, node
<1>5. ASSUME NEW p \in Process, Expand(p) PROVE Listed'
  <2>1. handle' = handle BY <1>5 DEF Expand, node
  <2>2. QED BY <1>0, <1>5, <2>1, ExpandListed DEF Expand
<1>6. ASSUME NEW p \in Process, Insert(p) PROVE Listed'
  <2>1. CASE With(mine[p]) = {} /\ TakeIdle(p) BY <1>6, <2>1, TakeIdleListed DEF Insert
  <2>2. CASE With(mine[p]) = {} /\ NoRoom(p) BY <1>0, <2>2 DEF NoRoom, node
  <2>3. CASE With(mine[p]) # {} BY <1>0, <1>6, <2>3 DEF Insert, node
  <2>4. QED BY <1>6, <2>1, <2>2, <2>3 DEF Insert
<1>7. ASSUME NEW p \in Process, Create(p) PROVE Listed'
  <2>1. CASE TakeIdle(p) BY <1>7, <2>1, TakeIdleListed DEF Create
  <2>2. CASE NoRoom(p) BY <1>0, <2>2 DEF NoRoom, node
  <2>3. QED BY <1>7, <2>1, <2>2 DEF Create
<1>8. ASSUME NEW p \in Process, GetInserted(p) PROVE Listed'
  BY <1>0, <1>8 DEF GetInserted, Reference, node
<1>9. ASSUME NEW p \in Process, NEW s \in Slots, GetByIndex(p, s) PROVE Listed'
  BY <1>0, <1>9 DEF GetByIndex, Reference
<1>10. ASSUME NEW p \in Process, NEW h \in Handle, NEW place \in {"count", "mark"}, Find(p, h, place)
       PROVE  Listed'
  BY <1>0, <1>10 DEF Find, node
<1>11. ASSUME NEW p \in Process, Count(p) PROVE Listed' BY <1>0, <1>11 DEF Count, Reference
<1>12. ASSUME NEW p \in Process, MarkFound(p) PROVE Listed' BY <1>0, <1>12 DEF MarkFound, Mark
<1>13. ASSUME NEW p \in Process, RemoveHeld(p) PROVE Listed' BY <1>0, <1>13 DEF RemoveHeld, Mark
<1>14. ASSUME NEW p \in Process, NEW s \in Slots, RemoveByIndex(p, s) PROVE Listed'
  BY <1>0, <1>14 DEF RemoveByIndex, Mark
<1>15. ASSUME NEW p \in Process, Release(p) PROVE Listed' BY <1>0, <1>15 DEF Release
<1>16. ASSUME NEW p \in Process, ReleaseRefused(p) PROVE Listed'
  BY <1>0, <1>16 DEF ReleaseRefused, node
<1>17. ASSUME NEW p \in Process, Drop(p) PROVE Listed' BY <1>17, DropListed
<1>18. ASSUME NEW p \in Process, Leave(p) PROVE Listed' BY <1>0, <1>18 DEF Leave, node
<1>19. QED
  BY <1>1, <1>2, <1>3, <1>4, <1>5, <1>6, <1>7, <1>8, <1>9, <1>10, <1>11, <1>12, <1>13, <1>14,
     <1>15, <1>16, <1>17, <1>18 DEF Next

-----------------------------------------------------------------------------
(* Scans cover every entry: an entry is added at or below free_pos, and    *)
(* free_pos falls only past slots without one.                             *)
Entered(s) == IF table = "hashmap" THEN handle[s] # None ELSE used[s]

LEMMA ScanStep == Store /\ Threads /\ ScanCovers /\ [Next]_vars => ScanCovers'
<1> SUFFICES ASSUME Store, Threads, ScanCovers, [Next]_vars PROVE ScanCovers' OBVIOUS
<1>a. \A s \in Slots : Entered(s) => s < freePos BY DEF ScanCovers, Entered
<1>b. (\A s \in Slots : Entered(s)' => s < freePos') => ScanCovers' BY DEF ScanCovers, Entered
<1>c. table' = table /\ handle' = handle /\ freePos' = freePos
      /\ (\A s \in Slots : used'[s] => used[s] \/ table = "hashmap") => ScanCovers'
  BY <1>a, <1>b DEF Entered
<1>d. used' = used => \A s \in Slots : used'[s] => used[s] OBVIOUS
<1>1. CASE UNCHANGED vars BY <1>1, <1>c, <1>d DEF vars, node, lists
<1>2. ASSUME NEW p \in Process, NEW h \in Handle, Submit(p, h) PROVE ScanCovers'
  BY <1>2, <1>c, <1>d DEF Submit, node, lists
<1>3. ASSUME NEW p \in Process, Full(p) PROVE ScanCovers' BY <1>3, <1>c, <1>d DEF Full, node, lists
<1>4. ASSUME NEW p \in Process, LockWrite(p) PROVE ScanCovers'
  BY <1>4, <1>c, <1>d DEF LockWrite, node, lists
<1>5. ASSUME NEW p \in Process, Expand(p) PROVE ScanCovers'
  <2>1. freePos' = freePos BY <1>5 DEF Expand, lists
  <2>2. QED BY <1>5, <2>1, <1>c, <1>d DEF Expand, node
<1>6. ASSUME NEW p \in Process, TakeIdle(p), table' = table PROVE ScanCovers'
  <2> DEFINE t == Head(idle)
  <2>1. t \in Slots BY <1>6, FirstIdle DEF TakeIdle
  <2>2. \A s \in Slots \ {t} : handle'[s] = handle[s] /\ used'[s] = used[s]
    BY <1>6 DEF TakeIdle, Store
  <2>3. freePos' = IF t >= freePos THEN t + 1 ELSE freePos BY <1>6 DEF TakeIdle, Raised
  <2>4. freePos \in Nat /\ Slots \subseteq Nat BY TableAssumption DEF Store, Slots
  <2>a. t \in Nat BY <2>1, <2>4
  <2>b. \A k, n \in Nat : LET m == IF k >= n THEN k + 1 ELSE n IN m >= n /\ k < m /\ m \in Nat
    OBVIOUS
  <2>5. freePos' >= freePos /\ t < freePos' BY <2>a, <2>b, <2>3, <2>4
  <2>6. freePos' \in Nat BY <2>a, <2>b, <2>3, <2>4
  <2>7. ASSUME NEW s \in Slots, Entered(s)' PROVE s < freePos'
    <3>1. CASE s = t BY <2>5, <3>1
    <3>2. CASE s # t
      <4>1. Entered(s) BY <1>6, <2>2, <2>7, <3>2 DEF Entered
      <4>2. QED BY <4>1, <1>a, <2>4, <2>5, <2>6
    <3>3. QED BY <3>1, <3>2
  <2>8. QED BY <2>7, <1>b
<1>7. ASSUME NEW p \in Process, NoRoom(p), table' = table PROVE ScanCovers'
  BY <1>7, <1>c, <1>d DEF NoRoom, node, lists
<1>8. ASSUME NEW p \in Process, Insert(p) PROVE ScanCovers'
  <2>1. CASE TakeIdle(p) \/ NoRoom(p) BY <1>6, <1>7, <1>8, <2>1 DEF Insert
  <2>2. CASE handle' = handle /\ UNCHANGED lists BY <1>8, <2>2, <1>c DEF Insert, lists
  <2>3. QED BY <1>8, <2>1, <2>2 DEF Insert, node
<1>9. ASSUME NEW p \in Process, Create(p) PROVE ScanCovers' BY <1>6, <1>7, <1>9 DEF Create
<1>10. ASSUME NEW p \in Process, GetInserted(p) PROVE ScanCovers'
  BY <1>10, <1>c, <1>d DEF GetInserted, Reference, node, lists
<1>11. ASSUME NEW p \in Process, NEW s \in Slots, GetByIndex(p, s) PROVE ScanCovers'
  BY <1>11, <1>c, <1>d DEF GetByIndex, Reference, lists
<1>12. ASSUME NEW p \in Process, NEW h \in Handle, NEW place \in {"count", "mark"}, Find(p, h, place)
       PROVE  ScanCovers'
  BY <1>12, <1>c, <1>d DEF Find, node, lists
<1>13. ASSUME NEW p \in Process, Count(p) PROVE ScanCovers'
  BY <1>13, <1>c, <1>d DEF Count, Reference, lists
<1>14. ASSUME NEW p \in Process, NEW s, NEW h, NEW place, Mark(p, s, h, place), UNCHANGED <<table, lists>>
       PROVE  ScanCovers'
  <2>1. \A t \in Slots : used'[t] => used[t] BY <1>14 DEF Mark, Store
  <2>2. QED BY <1>14, <2>1, <1>c DEF Mark, lists
<1>15. ASSUME NEW p \in Process, MarkFound(p) PROVE ScanCovers' BY <1>14, <1>15 DEF MarkFound
<1>16. ASSUME NEW p \in Process, RemoveHeld(p) PROVE ScanCovers' BY <1>14, <1>16 DEF RemoveHeld
<1>17. ASSUME NEW p \in Process, NEW s \in Slots, RemoveByIndex(p, s) PROVE ScanCovers'
  BY <1>14, <1>17 DEF RemoveByIndex
<1>18. ASSUME NEW p \in Process, Release(p) PROVE ScanCovers'
  <2>1. used[at[p]] /\ \E b : used' = [used EXCEPT ![at[p]] = b] BY <1>18 DEF Release
  <2>2. \A t \in Slots : used'[t] => used[t] BY <2>1 DEF Store
  <2>3. QED BY <1>18, <2>2, <1>c DEF Release, lists
<1>19. ASSUME NEW p \in Process, ReleaseRefused(p) PROVE ScanCovers'
  BY <1>19, <1>c, <1>d DEF ReleaseRefused, node, lists
<1>20. ASSUME NEW p \in Process, Drop(p) PROVE ScanCovers'
  <2>1. CASE UNCHANGED <<node, lists>> BY <1>20, <2>1, <1>c, <1>d DEF Drop, node, lists
  <2>2. CASE /\ handle' = [handle EXCEPT ![at[p]] = None] /\ used' = used
             /\ Lower({t \in Slots : IF table = "hashmap" THEN handle'[t] # None ELSE used[t]})
    <3>1. table' = table BY <1>20 DEF Drop
    <3>2. \A s \in Slots : Entered(s)' => Entered(s) BY <2>2, <3>1 DEF Entered, Store
    <3>3. \A s \in Slots : Entered(s)' => (s < freePos => s < freePos')
      BY <2>2, <3>1 DEF Lower, Entered
    <3>4. QED BY <3>2, <3>3, <1>a, <1>b
  <2>3. QED BY <1>20, <2>1, <2>2 DEF Drop
<1>21. ASSUME NEW p \in Process, Leave(p) PROVE ScanCovers' BY <1>21, <1>c, <1>d DEF Leave, node, lists
<1>22. QED
  BY <1>1, <1>2, <1>3, <1>4, <1>5, <1>8, <1>9, <1>10, <1>11, <1>12, <1>13, <1>15, <1>16, <1>17,
     <1>18, <1>19, <1>20, <1>21 DEF Next

-----------------------------------------------------------------------------
(* The write lock is held exactly while one process expands the table, and *)
(* then nobody is inside.                                                  *)
Growing == {p \in Process : pc[p] = "growing"}

Locked ==
  /\ writing => (\E p \in Process : Growing = {p}) /\ Insiders = {}
  /\ ~writing => Growing = {}

WriterMoves ==
  \/ Growing' = Growing /\ writing' = writing
  \/ \E p \in Process :
       /\ Growing' = Growing \cup {p} /\ ~writing /\ writing'
       /\ readers = 0 /\ readers' = readers /\ Insiders' = Insiders
  \/ \E p \in Growing : Growing' = Growing \ {p} /\ ~writing'

LEMMA WriterMove == Store /\ Threads /\ [Next]_vars => WriterMoves
<1> SUFFICES ASSUME Store, Threads, [Next]_vars PROVE WriterMoves OBVIOUS
<1>a. ASSUME NEW p \in Process, NEW place, place # "growing", pc[p] # "growing", writing' = writing,
             Goto(p, place) \/ \E s, h : Work(p, place, s, h)
      PROVE  WriterMoves
  <2>1. pc' = [pc EXCEPT ![p] = place] BY <1>a DEF Goto, Work
  <2>2. Growing' = Growing BY <1>a, <2>1 DEF Growing, Threads
  <2>3. QED BY <1>a, <2>2 DEF WriterMoves
<1>1. CASE UNCHANGED vars BY <1>1 DEF vars, Growing, WriterMoves
<1>2. ASSUME NEW p \in Process, NEW h \in Handle, Submit(p, h) PROVE WriterMoves
  BY <1>2, <1>a DEF Submit
<1>3. ASSUME NEW p \in Process, Full(p) PROVE WriterMoves
  <2>1. Goto(p, "insert") \/ Goto(p, "grow") BY <1>3 DEF Full
  <2>2. QED BY <1>3, <2>1, <1>a DEF Full
<1>4. ASSUME NEW p \in Process, LockWrite(p) PROVE WriterMoves
  <2>1. Growing' = Growing \cup {p} /\ Insiders' = Insiders
    BY <1>4 DEF LockWrite, Goto, Growing, Insiders, Inside, Threads
  <2>2. QED BY <1>4, <2>1 DEF LockWrite, WriteLockFree, WriterMoves
<1>5. ASSUME NEW p \in Process, Expand(p) PROVE WriterMoves
  <2>1. p \in Growing /\ ~writing' BY <1>5 DEF Expand, Growing
  <2>2. \E place \in {"insert", "out"} : pc' = [pc EXCEPT ![p] = place]
    BY <1>5 DEF Expand, Goto, Return, Work
  <2>3. Growing' = Growing \ {p} BY <2>2 DEF Growing, Threads
  <2>4. QED BY <2>1, <2>3 DEF WriterMoves
<1>6. ASSUME NEW p \in Process, Insert(p) PROVE WriterMoves
  <2>1. /\ pc[p] # "growing" /\ writing' = writing
        /\ Goto(p, "ask") \/ Return(p) \/ \E s : Work(p, "get", s, mine[p])
    BY <1>6 DEF Insert, TakeIdle, NoRoom
  <2>2. QED BY <2>1, <1>a DEF Return
<1>7. ASSUME NEW p \in Process, Create(p) PROVE WriterMoves
  <2>1. /\ pc[p] # "growing" /\ writing' = writing
        /\ Goto(p, "ask") \/ Return(p) \/ \E s : Work(p, "get", s, mine[p])
    BY <1>7 DEF Create, TakeIdle, NoRoom
  <2>2. QED BY <2>1, <1>a DEF Return
<1>8. ASSUME NEW p \in Process, GetInserted(p) PROVE WriterMoves
  <2>1. /\ pc[p] # "growing" /\ writing' = writing
        /\ Work(p, "hold", at[p], mine[p]) \/ Return(p)
    BY <1>8 DEF GetInserted, Reference
  <2>2. QED BY <2>1, <1>a DEF Return
<1>9. ASSUME NEW p \in Process, NEW s \in Slots, GetByIndex(p, s) PROVE WriterMoves
  BY <1>9, <1>a DEF GetByIndex, Reference
<1>10. ASSUME NEW p \in Process, NEW h \in Handle, NEW place \in {"count", "mark"}, Find(p, h, place)
       PROVE  WriterMoves
  <2>1. pc[p] # "growing" /\ writing' = writing /\ \E s : Work(p, place, s, h) BY <1>10 DEF Find
  <2>2. QED BY <2>1, <1>a
<1>11. ASSUME NEW p \in Process, Count(p) PROVE WriterMoves BY <1>11, <1>a DEF Count, Reference
<1>12. ASSUME NEW p \in Process, MarkFound(p) PROVE WriterMoves BY <1>12, <1>a DEF MarkFound, Mark
<1>13. ASSUME NEW p \in Process, RemoveHeld(p) PROVE WriterMoves BY <1>13, <1>a DEF RemoveHeld, Mark
<1>14. ASSUME NEW p \in Process, NEW s \in Slots, RemoveByIndex(p, s) PROVE WriterMoves
  BY <1>14, <1>a DEF RemoveByIndex, Mark
<1>15. ASSUME NEW p \in Process, Release(p) PROVE WriterMoves
  <2>1. Goto(p, "drop") \/ Goto(p, "leave") BY <1>15 DEF Release
  <2>2. pc[p] # "growing" /\ writing' = writing BY <1>15 DEF Release
  <2>3. QED BY <2>1, <2>2, <1>a
<1>16. ASSUME NEW p \in Process, ReleaseRefused(p) PROVE WriterMoves
  BY <1>16, <1>a DEF ReleaseRefused, Return
<1>17. ASSUME NEW p \in Process, Drop(p) PROVE WriterMoves BY <1>17, <1>a DEF Drop
<1>18. ASSUME NEW p \in Process, Leave(p) PROVE WriterMoves BY <1>18, <1>a DEF Leave, Return
<1>19. QED
  BY <1>1, <1>2, <1>3, <1>4, <1>5, <1>6, <1>7, <1>8, <1>9, <1>10, <1>11, <1>12, <1>13, <1>14,
     <1>15, <1>16, <1>17, <1>18 DEF Next

LEMMA LockedStep == Store /\ Threads /\ AtLeast /\ Locked /\ [Next]_vars => Locked'
<1> SUFFICES ASSUME Store, Threads, AtLeast, Locked, [Next]_vars PROVE Locked' OBVIOUS
<1>1. WriterMoves /\ LockMoves BY WriterMove, LockMove
<1>2. CASE Growing' = Growing /\ writing' = writing
  <2>1. writing => Insiders' = {} BY <1>1 DEF Locked, LockMoves
  <2>2. QED BY <1>2, <2>1 DEF Locked
<1>3. CASE \E p \in Process :
             /\ Growing' = Growing \cup {p} /\ ~writing /\ writing'
             /\ readers = 0 /\ readers' = readers /\ Insiders' = Insiders
  <2>1. Insiders \in SUBSET Process BY DEF Insiders
  <2>2. Cardinality(Insiders) \in Nat /\ \A p \in Insiders : Cardinality(Insiders) >= 1
    BY <2>1, Counting
  <2>3. 0 >= Cardinality(Insiders) BY <1>3 DEF AtLeast
  <2>4. Insiders = {} BY <2>2, <2>3
  <2>5. QED BY <1>3, <2>4 DEF Locked
<1>4. CASE \E p \in Growing : Growing' = Growing \ {p} /\ ~writing' BY <1>4 DEF Locked
<1>5. QED BY <1>1, <1>2, <1>3, <1>4 DEF WriterMoves

LEMMA LockedStable == Locked => ArrayStable
BY DEF Locked, ArrayStable, Growing, Insiders

-----------------------------------------------------------------------------
(* A slot that no window was hit on: its count is exact, it has a handle   *)
(* while it is in use, whoever holds it keeps the entry, and a process     *)
(* that is about to return it to the idle list finds it neither in use nor *)
(* returned.                                                               *)
Exact(s) == refCount[s] = Cardinality(Referring(s))

Sound(s) ==
  /\ used[s] => handle[s] # None
  /\ \A p \in Process : pc[p] = "hold" /\ at[p] = s => used[s] /\ handle[s] = mine[p]
  /\ \A p \in Process : pc[p] = "drop" /\ at[p] = s /\ remove[s] => ~used[s] /\ handle[s] # None

Kept == \A s \in Slots \ exposed : Exact(s) /\ Sound(s)

LEMMA ExactStep ==
  ASSUME Store, Threads, [Next]_vars, NEW s \in Slots, Exact(s), Sound(s)
  PROVE  Exact(s)'
<1>1. ReferenceMoves(s) BY ReferenceMove
<1>2. Referring(s) \in SUBSET Process BY DEF Referring
<1>3. \A p \in Referring(s) : used[s] BY DEF Referring, Sound
<1>4. refCount'[s] = Cardinality(Referring(s)') BY <1>1, <1>2, <1>3, Counting DEF ReferenceMoves, Exact
<1>5. QED BY <1>4 DEF Exact

(* What one process does leaves the others where they are.                 *)
Alone(p) ==
  \A q \in Process \ {p} : pc'[q] = pc[q] /\ at'[q] = at[q] /\ mine'[q] = mine[q]

LEMMA WorkAlone ==
  ASSUME Threads, NEW p \in Process, NEW place, NEW s, NEW h, Work(p, place, s, h)
  PROVE  Alone(p) /\ pc'[p] = place /\ at'[p] = s /\ mine'[p] = h
BY DEF Threads, Work, Alone

LEMMA GotoAlone ==
  ASSUME Threads, NEW p \in Process, NEW place, Goto(p, place)
  PROVE  Alone(p) /\ pc'[p] = place /\ at'[p] = at[p] /\ mine'[p] = mine[p]
BY DEF Threads, Goto, Alone

(* The entry of a slot does not change, and the process that moves neither *)
(* begins to hold it nor to return it.                                     *)
LEMMA Aside ==
  ASSUME NEW s \in Slots, Sound(s), NEW p \in Process, Alone(p),
         used'[s] = used[s], handle'[s] = handle[s], remove'[s] = remove[s],
         pc'[p] = "hold" /\ at'[p] = s => used[s] /\ handle[s] = mine'[p],
         pc'[p] = "drop" => at'[p] # s
  PROVE  Sound(s)'
<1>1. ASSUME NEW q \in Process, pc'[q] = "hold" /\ at'[q] = s PROVE used'[s] /\ handle'[s] = mine'[q]
  BY <1>1 DEF Sound, Alone
<1>2. ASSUME NEW q \in Process, pc'[q] = "drop" /\ at'[q] = s /\ remove'[s]
      PROVE  ~used'[s] /\ handle'[s] # None
  BY <1>2 DEF Sound, Alone
<1>3. QED BY <1>1, <1>2 DEF Sound

LEMMA QuietSound ==
  ASSUME NEW s \in Slots, Sound(s), Threads, NEW p \in Process, UNCHANGED node, NEW place,
         place \notin {"hold", "drop"}, Goto(p, place) \/ \E t, h : Work(p, place, t, h)
  PROVE  Sound(s)'
<1>1. Alone(p) /\ pc'[p] = place BY WorkAlone, GotoAlone
<1>2. QED BY <1>1, Aside DEF node

LEMMA TakeIdleSound ==
  ASSUME Store, Threads, Listed, NEW s \in Slots, Sound(s), NEW p \in Process, pc[p] = "insert",
         TakeIdle(p)
  PROVE  Sound(s)'
<1> DEFINE t == Head(idle)
<1>1. /\ handle' = [handle EXCEPT ![t] = mine[p]] /\ used' = [used EXCEPT ![t] = TRUE]
      /\ remove' = [remove EXCEPT ![t] = FALSE] /\ mine[p] # None
      /\ Alone(p) /\ pc'[p] = "get"
  BY WorkAlone DEF TakeIdle, Threads, Calling
<1>2. CASE s # t
  <2>1. used'[s] = used[s] /\ handle'[s] = handle[s] /\ remove'[s] = remove[s]
    BY <1>1, <1>2 DEF Store
  <2>2. QED BY <1>1, <2>1, Aside
<1>3. CASE s = t
  <2>1. t \in ToSet(idle) /\ t \in 1 .. capacity BY FirstIdle, TailIdle DEF TakeIdle, Listed, Store
  <2>2. handle[s] = None BY <1>3, <2>1 DEF Listed
  <2>3. used'[s] /\ handle'[s] # None /\ ~remove'[s] BY <1>1, <1>3 DEF Store
  <2>4. \A q \in Process : ~(pc[q] = "hold" /\ at[q] = s) BY <2>2 DEF Sound
  <2>5. \A q \in Process : ~(pc'[q] = "hold" /\ at'[q] = s) BY <1>1, <2>4 DEF Alone
  <2>6. QED BY <2>3, <2>5 DEF Sound
<1>4. QED BY <1>2, <1>3

LEMMA InsertSound ==
  ASSUME Store, Threads, Listed, NEW s \in Slots, Sound(s), NEW p \in Process, Insert(p)
  PROVE  Sound(s)'
<1>1. CASE TakeIdle(p) BY <1>1, TakeIdleSound DEF Insert
<1>2. CASE NoRoom(p)
  <2>1. CASE UNCHANGED node /\ Goto(p, "ask") BY <2>1, QuietSound
  <2>2. CASE UNCHANGED node /\ Work(p, "out", 0, None) BY <2>2, QuietSound
  <2>3. QED BY <1>2, <2>1, <2>2 DEF NoRoom, Return
<1>3. ASSUME NEW t \in With(mine[p]), ~remove[t], Work(p, "get", t, mine[p]) \/ Return(p),
             UNCHANGED node
      PROVE  Sound(s)'
  BY <1>3, QuietSound DEF Return
<1>4. ASSUME NEW t \in With(mine[p]), used' = [used EXCEPT ![t] = TRUE],
             remove' = [remove EXCEPT ![t] = FALSE], Work(p, "get", t, mine[p]),
             UNCHANGED <<handle, refCount>>
      PROVE  Sound(s)'
  <2>1. Alone(p) /\ pc'[p] = "get" BY <1>4, WorkAlone
  <2>2. CASE s # t
    <3>1. used'[s] = used[s] /\ handle'[s] = handle[s] /\ remove'[s] = remove[s]
      BY <1>4, <2>2 DEF Store
    <3>2. QED BY <2>1, <3>1, Aside
  <2>3. CASE s = t
    <3>1. handle[s] = mine[p] BY <2>3 DEF With
    <3>2. pc[p] = "insert" /\ mine[p] # None
      <4>1. pc[p] = "insert" BY DEF Insert
      <4>2. QED BY <4>1 DEF Threads, Calling
    <3>3. used'[s] /\ ~remove'[s] /\ handle'[s] = handle[s] BY <1>4, <2>3 DEF Store
    <3>4. \A q \in Process : pc'[q] = "hold" /\ at'[q] = s => handle[s] = mine'[q]
      BY <2>1 DEF Sound, Alone
    <3>5. QED BY <3>1, <3>2, <3>3, <3>4 DEF Sound
  <2>4. QED BY <2>2, <2>3
<1>5. QED BY <1>1, <1>2, <1>3, <1>4 DEF Insert

(* A mark: the slot is in use, nobody returns it meanwhile, and who holds  *)
(* it keeps it in use.                                                     *)
LEMMA MarkSound ==
  ASSUME Store, Threads, NEW s \in Slots, Exact(s), Sound(s), NEW p \in Process, pc[p] # "drop",
         NEW t \in Slots, NEW h, NEW place \in {"hold", "leave"}, Mark(p, t, h, place),
         place = "hold" => pc[p] = "hold" /\ at[p] = t /\ mine[p] = h,
         s = t => used[t] /\ ~Dropping(t)
  PROVE  Sound(s)'
<1>1. /\ remove' = [remove EXCEPT ![t] = TRUE] /\ used' = [used EXCEPT ![t] = @ /\ refCount[t] > 0]
      /\ handle' = handle /\ Alone(p) /\ at'[p] = t /\ mine'[p] = h
      /\ pc'[p] = IF refCount[t] > 0 THEN place ELSE "drop"
  BY WorkAlone DEF Mark
<1>2. CASE s # t
  <2>1. used'[s] = used[s] /\ handle'[s] = handle[s] /\ remove'[s] = remove[s]
    BY <1>1, <1>2 DEF Store
  <2>2. QED BY <1>1, <1>2, <2>1, Aside
<1>3. CASE s = t
  <2>1. used'[s] = (refCount[s] > 0) /\ handle[s] # None /\ handle'[s] = handle[s]
    BY <1>1, <1>3 DEF Store, Sound
  <2>2. ASSUME NEW q \in Process, pc[q] = "hold" /\ at[q] = s PROVE refCount[s] > 0
    <3>1. q \in Referring(s) /\ Referring(s) \in SUBSET Process BY <2>2 DEF Referring
    <3>2. Cardinality(Referring(s)) \in Nat /\ Cardinality(Referring(s)) >= 1 BY <3>1, Counting
    <3>3. QED BY <3>2 DEF Exact
  <2>3. ASSUME NEW q \in Process, pc'[q] = "hold" /\ at'[q] = s
        PROVE  used'[s] /\ handle'[s] = mine'[q]
    <3>1. pc[q] = "hold" /\ at[q] = s /\ mine'[q] = mine[q] BY <1>1, <1>3, <2>3 DEF Alone
    <3>2. QED BY <2>1, <2>2, <3>1 DEF Sound
  <2>4. ASSUME NEW q \in Process, pc'[q] = "drop" /\ at'[q] = s PROVE ~used'[s] /\ handle'[s] # None
    <3>1. q = p BY <1>1, <1>3, <2>4 DEF Alone, Dropping
    <3>2. ~(refCount[s] > 0) BY <1>1, <1>3, <2>4, <3>1
    <3>3. QED BY <2>1, <3>2
  <2>5. QED BY <2>1, <2>3, <2>4 DEF Sound
<1>4. QED BY <1>2, <1>3

LEMMA ReleaseSound ==
  ASSUME Store, Threads, NEW s \in Slots, Exact(s), Sound(s), NEW p \in Process, Release(p)
  PROVE  Sound(s)'
<1> DEFINE t == at[p]
           last == refCount[t] = 1 /\ remove[t]
<1>1. /\ pc[p] = "hold" /\ used[t] /\ used' = [used EXCEPT ![t] = ~last]
      /\ handle' = handle /\ remove' = remove
      /\ Goto(p, IF last THEN "drop" ELSE "leave")
  BY DEF Release
<1>2. Alone(p) /\ pc'[p] = (IF last THEN "drop" ELSE "leave") /\ at'[p] = t BY <1>1, GotoAlone
<1>3. CASE s # t
  <2>1. used'[s] = used[s] BY <1>1, <1>3 DEF Store
  <2>2. QED BY <1>1, <1>2, <1>3, <2>1, Aside
<1>4. CASE s = t
  <2>1. used'[s] = ~last /\ handle[s] # None /\ handle'[s] = handle[s]
    BY <1>1, <1>4 DEF Store, Sound
  <2>2. ASSUME NEW q \in Process \ {p}, pc[q] = "hold" /\ at[q] = s PROVE refCount[s] # 1
    <3>1. /\ p \in Referring(s) /\ q \in Referring(s) \ {p} /\ Referring(s) \in SUBSET Process
          /\ Referring(s) \ {p} \in SUBSET Process
      BY <1>1, <1>4, <2>2 DEF Referring
    <3>2. /\ Cardinality(Referring(s) \ {p}) = Cardinality(Referring(s)) - 1
          /\ Cardinality(Referring(s) \ {p}) >= 1 /\ Cardinality(Referring(s)) \in Nat
      BY <3>1, Counting
    <3>3. QED BY <3>2 DEF Exact
  <2>3. ASSUME NEW q \in Process, pc'[q] = "hold" /\ at'[q] = s
        PROVE  used'[s] /\ handle'[s] = mine'[q]
    <3>1. q # p BY <1>2, <2>3
    <3>2. pc[q] = "hold" /\ at[q] = s /\ mine'[q] = mine[q] BY <1>2, <2>3, <3>1 DEF Alone
    <3>3. refCount[s] # 1 BY <2>2, <3>1, <3>2
    <3>4. QED BY <1>4, <2>1, <3>2, <3>3 DEF Sound
  <2>4. ASSUME NEW q \in Process, pc'[q] = "drop" /\ at'[q] = s /\ remove'[s]
        PROVE  ~used'[s] /\ handle'[s] # None
    <3>1. CASE q = p BY <1>2, <2>1, <2>4, <3>1
    <3>2. CASE q # p
      <4>1. pc[q] = "drop" /\ at[q] = s /\ remove[s] BY <1>1, <1>2, <2>4, <3>2 DEF Alone
      <4>2. QED BY <1>1, <1>4, <4>1 DEF Sound
    <3>3. QED BY <3>1, <3>2
  <2>5. QED BY <2>1, <2>3, <2>4 DEF Sound
<1>5. QED BY <1>3, <1>4

LEMMA DropSound ==
  ASSUME Store, Threads, NEW s \in Slots, Sound(s), NEW p \in Process, Drop(p)
  PROVE  Sound(s)'
<1> DEFINE t == at[p]
<1>1. CASE UNCHANGED node BY <1>1, QuietSound DEF Drop
<1>2. CASE /\ remove[t] /\ handle' = [handle EXCEPT ![t] = None]
           /\ remove' = [remove EXCEPT ![t] = FALSE] /\ used' = used
  <2>1. Alone(p) /\ pc'[p] = "leave" /\ pc[p] = "drop" BY GotoAlone DEF Drop
  <2>2. CASE s # t
    <3>1. handle'[s] = handle[s] /\ remove'[s] = remove[s] /\ used'[s] = used[s]
      BY <1>2, <2>2 DEF Store
    <3>2. QED BY <2>1, <3>1, Aside
  <2>3. CASE s = t
    <3>1. ~used[s] BY <1>2, <2>1, <2>3 DEF Sound
    <3>2. ~used'[s] /\ ~remove'[s] BY <1>2, <2>3, <3>1 DEF Store
    <3>3. \A q \in Process : ~(pc'[q] = "hold" /\ at'[q] = s) BY <2>1, <3>1 DEF Sound, Alone
    <3>4. QED BY <3>2, <3>3 DEF Sound
  <2>4. QED BY <2>2, <2>3
<1>3. QED BY <1>1, <1>2 DEF Drop

LEMMA KeptStep == Store /\ Threads /\ Listed /\ Kept /\ [Next]_vars => Kept'
<1> SUFFICES ASSUME Store, Threads, Listed, Kept, [Next]_vars,
                    NEW s \in Slots, s \notin exposed'
             PROVE  Exact(s)' /\ Sound(s)'
  BY DEF Kept
<1>0. exposed \subseteq exposed'
  BY DEF Next, vars, Submit, Full, LockWrite, Expand, Insert, Create, GetInserted, GetByIndex, Find,
         Count, MarkFound, RemoveHeld, MarksDropped, RemoveByIndex, Release, ReleaseRefused, Drop, Leave
<1>a. Exact(s) /\ Sound(s) BY <1>0 DEF Kept
<1>b. Exact(s)' BY <1>a, ExactStep
<1>c. \A p \in Process : pc[p] \in OnSlot => at[p] \in Slots BY SlotsBelow DEF Threads
<1>1. CASE UNCHANGED vars
  <2>1. used' = used /\ handle' = handle /\ remove' = remove BY <1>1 DEF vars, node
  <2>2. pc' = pc /\ at' = at /\ mine' = mine BY <1>1 DEF vars
  <2>3. QED BY <1>a, <1>b, <2>1, <2>2 DEF Sound
<1>2. ASSUME NEW p \in Process, NEW h \in Handle, Submit(p, h) PROVE Sound(s)'
  BY <1>2, <1>a, QuietSound DEF Submit
<1>3. ASSUME NEW p \in Process, Full(p) PROVE Sound(s)'
  <2>1. UNCHANGED node /\ (Goto(p, "insert") \/ Goto(p, "grow")) BY <1>3 DEF Full
  <2>2. QED BY <2>1, <1>a, QuietSound
<1>4. ASSUME NEW p \in Process, LockWrite(p) PROVE Sound(s)' BY <1>4, <1>a, QuietSound DEF LockWrite
<1>5. ASSUME NEW p \in Process, Expand(p) PROVE Sound(s)'
  <2>1. UNCHANGED node /\ (Goto(p, "insert") \/ Work(p, "out", 0, None)) BY <1>5 DEF Expand, Return
  <2>2. QED BY <2>1, <1>a, QuietSound
<1>6. ASSUME NEW p \in Process, Insert(p) PROVE Sound(s)' BY <1>6, <1>a, InsertSound
<1>7. ASSUME NEW p \in Process, Create(p) PROVE Sound(s)'
  <2>1. CASE TakeIdle(p) BY <1>7, <1>a, <2>1, TakeIdleSound DEF Create
  <2>2. CASE NoRoom(p)
    <3>1. UNCHANGED node /\ (Goto(p, "ask") \/ Work(p, "out", 0, None)) BY <2>2 DEF NoRoom, Return
    <3>2. QED BY <3>1, <1>a, QuietSound
  <2>3. QED BY <1>7, <2>1, <2>2 DEF Create
<1>d. ASSUME NEW p \in Process, NEW t \in Slots, NEW h, Reference(p, t, h),
             s = t => used[t] /\ handle[t] = h
      PROVE  Sound(s)'
  <2>1. Alone(p) /\ pc'[p] = "hold" /\ at'[p] = t /\ mine'[p] = h BY <1>d, WorkAlone DEF Reference
  <2>2. QED BY <1>d, <1>a, <2>1, Aside DEF Reference
<1>8. ASSUME NEW p \in Process, GetInserted(p) PROVE Sound(s)'
  <2>1. at[p] \in Slots BY <1>8, <1>c DEF GetInserted, OnSlot
  <2>2. CASE /\ used[at[p]] /\ Reference(p, at[p], mine[p])
             /\ exposed' = exposed \cup {t \in {at[p]} : handle[t] # mine[p]}
    <3>1. s = at[p] => handle[s] = mine[p] BY <2>2
    <3>2. QED BY <2>1, <2>2, <3>1, <1>d
  <2>3. CASE Work(p, "out", 0, None) /\ UNCHANGED node BY <2>3, <1>a, QuietSound
  <2>4. QED BY <1>8, <2>2, <2>3 DEF GetInserted, Return
<1>9. ASSUME NEW p \in Process, NEW t \in Slots, GetByIndex(p, t) PROVE Sound(s)'
  BY <1>9, <1>d DEF GetByIndex
<1>10. ASSUME NEW p \in Process, NEW h \in Handle, NEW place \in {"count", "mark"}, Find(p, h, place)
       PROVE  Sound(s)'
  <2>1. UNCHANGED node /\ \E t : Work(p, place, t, h) BY <1>10 DEF Find
  <2>2. QED BY <2>1, <1>a, QuietSound
<1>11. ASSUME NEW p \in Process, Count(p) PROVE Sound(s)'
  <2>1. at[p] \in Slots BY <1>11, <1>c DEF Count, OnSlot, Inside
  <2>2. s = at[p] => used[s] /\ handle[s] = mine[p] BY <1>11 DEF Count
  <2>3. QED BY <1>11, <2>1, <2>2, <1>d DEF Count
<1>12. ASSUME NEW p \in Process, MarkFound(p) PROVE Sound(s)'
  <2>1. at[p] \in Slots BY <1>12, <1>c DEF MarkFound, OnSlot, Inside
  <2>2. s = at[p] => used[s] /\ ~Dropping(s)
    <3>1. exposed' = exposed \cup
            {t \in {at[p]} : ~used[t] \/ handle[t] # mine[p] \/ Dropping(t)}
      BY <1>12 DEF MarkFound
    <3>2. QED BY <3>1
  <2>3. pc[p] # "drop" /\ Mark(p, at[p], mine[p], "leave") BY <1>12 DEF MarkFound
  <2>4. QED BY <2>1, <2>2, <2>3, <1>a, MarkSound
<1>13. ASSUME NEW p \in Process, RemoveHeld(p) PROVE Sound(s)'
  <2>1. at[p] \in Slots BY <1>13, <1>c DEF RemoveHeld, OnSlot, Inside
  <2>2. used[at[p]] /\ pc[p] = "hold" /\ Mark(p, at[p], mine[p], "hold") BY <1>13 DEF RemoveHeld
  <2>3. s = at[p] => ~Dropping(s)
    <3>1. exposed' = exposed \cup {t \in {at[p]} : Dropping(t)} BY <1>13 DEF RemoveHeld, MarksDropped
    <3>2. QED BY <3>1
  <2>4. QED BY <2>1, <2>2, <2>3, <1>a, MarkSound
<1>14. ASSUME NEW p \in Process, NEW t \in Slots, RemoveByIndex(p, t) PROVE Sound(s)'
  <2>1. used[t] /\ pc[p] = "out" /\ Mark(p, t, handle[t], "leave") BY <1>14 DEF RemoveByIndex
  <2>2. s = t => ~Dropping(s)
    <3>1. exposed' = exposed \cup {u \in {t} : Dropping(u)} BY <1>14 DEF RemoveByIndex, MarksDropped
    <3>2. QED BY <3>1
  <2>3. QED BY <2>1, <2>2, <1>a, MarkSound
<1>15. ASSUME NEW p \in Process, Release(p) PROVE Sound(s)' BY <1>15, <1>a, ReleaseSound
<1>16. ASSUME NEW p \in Process, ReleaseRefused(p) PROVE Sound(s)'
  <2>1. UNCHANGED node /\ Work(p, "out", 0, None) BY <1>16 DEF ReleaseRefused, Return
  <2>2. QED BY <2>1, <1>a, QuietSound
<1>17. ASSUME NEW p \in Process, Drop(p) PROVE Sound(s)' BY <1>17, <1>a, DropSound
<1>18. ASSUME NEW p \in Process, Leave(p) PROVE Sound(s)' BY <1>18, <1>a, QuietSound DEF Leave, Return
<1>19. Sound(s)'
  BY <1>1, <1>2, <1>3, <1>4, <1>5, <1>6, <1>7, <1>8, <1>9, <1>10, <1>11, <1>12, <1>13, <1>14,
     <1>15, <1>16, <1>17, <1>18 DEF Next
<1>20. QED BY <1>b, <1>19

(* A read lock is leaked only by a process refused at its release, which a *)
(* sound slot never is.                                                    *)
Counted == exposed = {} => readers = Cardinality(Insiders)

LEMMA CountedStep ==
  Store /\ Threads /\ Kept /\ Counted /\ [Next]_vars => Counted'
<1> SUFFICES ASSUME Store, Threads, Kept, Counted, [Next]_vars, exposed' = {}
             PROVE  readers' = Cardinality(Insiders')
  BY DEF Counted
<1>0. exposed \subseteq exposed'
  BY DEF Next, vars, Submit, Full, LockWrite, Expand, Insert, Create, GetInserted, GetByIndex, Find,
         Count, MarkFound, RemoveHeld, MarksDropped, RemoveByIndex, Release, ReleaseRefused, Drop, Leave
<1>1. readers = Cardinality(Insiders) /\ \A s \in Slots : Sound(s) BY <1>0 DEF Counted, Kept
<1>2. LockMoves /\ Insiders \in SUBSET Process BY LockMove DEF Insiders
<1>3. \A p \in Insiders : pc[p] = "hold" => used[at[p]]
  BY <1>1, SlotsBelow DEF Insiders, Sound, Threads, OnSlot, Inside
<1>4. QED BY <1>1, <1>2, <1>3, Counting DEF LockMoves

-----------------------------------------------------------------------------
(* The whole invariant, at the start and after every step.                 *)
Inv == Store /\ Threads /\ AtLeast /\ Listed /\ ScanCovers /\ Locked /\ Kept /\ Counted

LEMMA InvInit == Init => Inv
<1> SUFFICES ASSUME Init PROVE Inv OBVIOUS
<1>1. Slots \subseteq Int /\ 0 \in 0 .. MaxCapacity /\ 1 .. InitCapacity \subseteq Slots
  BY TableAssumption DEF Slots
<1>2. idle \in Seq(1 .. capacity) BY TableAssumption, SeqDef DEF Init
<1>3. Store
  <2>1. capacity \in 0 .. MaxCapacity /\ freePos \in 1 .. MaxCapacity + 1 BY TableAssumption DEF Init
  <2>2. handle \in [Slots -> Handle \cup {None}] /\ used \in [Slots -> BOOLEAN]
    BY DEF Init
  <2>3. remove \in [Slots -> BOOLEAN] /\ refCount \in [Slots -> Nat] BY DEF Init
  <2>4. readers \in Nat /\ writing \in BOOLEAN /\ exposed \subseteq Slots /\ table \in Tables
    BY DEF Init
  <2>5. QED BY <1>2, <2>1, <2>2, <2>3, <2>4 DEF Store
<1>4. Threads
  <2>1. pc \in [Process -> Places] BY DEF Init, Places
  <2>2. at \in [Process -> 0 .. MaxCapacity] BY <1>1 DEF Init
  <2>3. mine \in [Process -> Handle \cup {None}] BY DEF Init
  <2>4. \A p \in Process : pc[p] \notin Calling /\ pc[p] \notin OnSlot
    BY DEF Init, Calling, OnSlot, Inside
  <2>5. QED BY <2>1, <2>2, <2>3, <2>4 DEF Threads
<1>5. Insiders = {} /\ \A s \in Slots : Referring(s) = {}
  BY DEF Init, Insiders, Inside, Referring
<1>6. Cardinality({}) = 0 BY FS_EmptySet
<1>7. AtLeast
  <2>1. readers = 0 /\ \A s \in Slots : refCount[s] = 0 BY DEF Init
  <2>2. QED BY <1>5, <1>6, <2>1 DEF AtLeast
<1>8. Listed
  <2>1. DOMAIN idle = 1 .. InitCapacity /\ \A i \in DOMAIN idle : idle[i] = i BY DEF Init
  <2>2. ToSet(idle) = 1 .. InitCapacity BY <2>1 DEF ToSet
  <2>3. IsInjective(idle) BY <2>1 DEF IsInjective
  <2>4. \A s \in Slots : handle[s] = None BY DEF Init
  <2>5. QED BY <1>1, <2>2, <2>3, <2>4 DEF Listed, Init
<1>9. ScanCovers
  <2>1. \A s \in Slots : handle[s] = None /\ ~used[s] BY DEF Init
  <2>2. QED BY <2>1 DEF ScanCovers
<1>10. Locked BY DEF Init, Locked, Growing
<1>11. Kept BY <1>5, <1>6 DEF Kept, Exact, Sound, Init
<1>12. Counted BY <1>5, <1>6 DEF Counted, Init
<1>13. QED BY <1>3, <1>4, <1>7, <1>8, <1>9, <1>10, <1>11, <1>12 DEF Inv

LEMMA InvStep == Inv /\ [Next]_vars => Inv'
BY StoreStep, ThreadsStep, AtLeastStep, ListedStep, ScanStep, LockedStep, KeptStep, CountedStep
   DEF Inv

LEMMA Invariant == Spec => []Inv
BY InvInit, InvStep, PTL DEF Spec

LEMMA HeldAt ==
  ASSUME Inv, NEW p \in Process, pc[p] \in {"hold", "drop"}
  PROVE  at[p] \in Slots
BY SlotsBelow DEF Inv, Threads, OnSlot, Inside

-----------------------------------------------------------------------------
(* The state is well typed: no count, of locks or of references, ever goes *)
(* below zero and a slot at work is one of the table (vip_drv_util.c:1796).*)
THEOREM TypeCorrect == Spec => []TypeOK
<1>1. Inv => TypeOK BY DEF Inv, Store, Threads, TypeOK
<1>2. QED BY <1>1, Invariant, PTL

(* No expansion moves the arrays under a process at work in them, even     *)
(* when a stale slot was touched and locks are leaked (vip_drv_util.c:1153).*)
THEOREM ArrayNeverMoved == Spec => []ArrayStable
<1>1. Inv => ArrayStable BY LockedStable DEF Inv
<1>2. QED BY <1>1, Invariant, PTL

(* A scan from free_pos down meets every entry, which the clean-up after a *)
(* power-off relies on (vip_drv_pm.c:229).                                 *)
THEOREM ScansCover == Spec => []ScanCovers
<1>1. Inv => ScanCovers BY DEF Inv
<1>2. QED BY <1>1, Invariant, PTL

(* The idle list is exact, a handle has one slot, and without a stale      *)
(* slot no slot is returned twice (vip_drv_util.c:1380).                   *)
THEOREM IdleListExact == Spec => []IdleExact
<1>1. ASSUME Inv PROVE IdleExact
  <2>1. Listed BY <1>1 DEF Inv
  <2>2. ASSUME exposed = {}, NEW p \in Process, pc[p] = "drop", remove[at[p]]
        PROVE  handle[at[p]] # None
    <3>1. at[p] \in Slots BY <1>1, <2>2, HeldAt
    <3>2. Sound(at[p]) BY <1>1, <2>2, <3>1 DEF Inv, Kept
    <3>3. QED BY <2>2, <3>2 DEF Sound
  <2>3. QED BY <2>1, <2>2 DEF Listed, IdleExact
<1>2. QED BY <1>1, Invariant, PTL

(* A process that holds a reference keeps the entry it asked for, unless   *)
(* its slot was touched by a call that looked at it in an earlier section  *)
(* (vip_drv_util.c:1678, task/vip_drv_task_common.c:177).                  *)
THEOREM HoldersKeep == Spec => []HeldKept
<1>1. ASSUME Inv PROVE HeldKept
  <2>1. ASSUME NEW p \in Process, pc[p] = "hold", at[p] \notin exposed
        PROVE  used[at[p]] /\ handle[at[p]] = mine[p]
    <3>1. at[p] \in Slots BY <1>1, <2>1, HeldAt
    <3>2. Sound(at[p]) BY <1>1, <2>1, <3>1 DEF Inv, Kept
    <3>3. QED BY <2>1, <3>2 DEF Sound
  <2>2. QED BY <2>1 DEF HeldKept
<1>2. QED BY <1>1, Invariant, PTL

(* As long as nobody touched a stale slot, the read locks and the counts   *)
(* are those of the processes at work: none is leaked                      *)
(* (vip_drv_util.c:1796).                                                  *)
THEOREM ReadersCounted == Spec => []ReadersExact
<1>1. ASSUME Inv PROVE ReadersExact
  <2>1. ASSUME exposed = {} PROVE readers = Cardinality(Insiders)
    BY <1>1, <2>1 DEF Inv, Counted
  <2>2. ASSUME exposed = {}, NEW s \in Slots PROVE refCount[s] = Cardinality(Referring(s))
    BY <1>1, <2>2 DEF Inv, Kept, Exact
  <2>3. QED BY <2>1, <2>2 DEF ReadersExact
<1>2. QED BY <1>1, Invariant, PTL
=============================================================================
