------------------------- MODULE Overtaking_proofs --------------------------
(***************************************************************************)
(* Proofs, for every number of tasks, cores and priorities and all values  *)
(* of the tuning constants, of the properties of Overtaking.tla that its   *)
(* run checks on a small instance.                                         *)
(*                                                                         *)
(* The rules of queue_read look at the heads only, so each property of a   *)
(* task behind a head goes through the head of its kind, which HeadOfKind  *)
(* provides.  The bound on overtaking is not inductive: History adds that  *)
(* the overtakers of a task have distinct indices, all given out and none  *)
(* of a waiting task, and Window that those of an urgent task lie in the   *)
(* MAX_PREEMPT_COUNT places after it.                                      *)
(***************************************************************************)
EXTENDS Overtaking, FiniteSetTheorems, WellFoundedInduction, NaturalsInduction, TLAPS

-----------------------------------------------------------------------------
(* A set of naturals that is not empty has a least element. *)
LEMMA NatMinimum ==
  ASSUME NEW T \in SUBSET Nat, T # {}
  PROVE  \E m \in T : \A n \in T : m <= n
<1> DEFINE R == OpToRel(<, Nat)
<1>1. PICK m \in T : \A n \in T : ~ (<<n, m>> \in R)
  <2>1. IsWellFoundedOn(R, Nat) BY NatLessThanWellFounded, Zenon
  <2> HIDE DEF R
  <2>2. QED BY <2>1, WFMin, Zenon
<1>2. ASSUME NEW n \in T PROVE m <= n
  <2>1. m \in Nat /\ n \in Nat OBVIOUS
  <2>2. n < m => <<n, m>> \in R BY <2>1, Zenon DEF OpToRel
  <2>3. ~(n < m) BY <1>1, <2>2, Zenon
  <2> HIDE DEF R
  <2>4. QED BY <2>1, <2>3
<1>3. QED BY <1>2

(* The fields of an entry have the types of Entries. *)
LEMMA EntryFields ==
  ASSUME NEW e \in Entries
  PROVE  /\ e.task \in Tasks /\ e.kind \in Kinds
         /\ e.priority \in 0 .. MaxPriority /\ e.priority \in Nat
         /\ e.index \in Nat
BY PoolAssumption DEF PoolAssumption, Entries

(* cmp_node is a strict order that ranks what e beats no higher than e. *)
LEMMA BetterOrder ==
  ASSUME NEW e \in Entries, NEW f \in Entries, NEW g \in Entries
  PROVE  /\ ~Better(e, e)
         /\ Better(e, f) => e.priority >= f.priority
         /\ Better(e, f) /\ ~Better(e, g) => Better(g, f)
BY EntryFields DEF Better

(* In a set of entries that is not empty, some entry is beaten by none. *)
LEMMA BestExists ==
  ASSUME NEW S \in SUBSET Entries, S # {}
  PROVE  \E b \in S : \A f \in S : ~Better(f, b)
<1> DEFINE Distance == {MaxPriority - e.priority : e \in S}
<1>1. Distance \in SUBSET Nat /\ Distance # {}
  <2>1. \A e \in S : MaxPriority - e.priority \in Nat
    BY EntryFields, PoolAssumption DEF PoolAssumption
  <2>2. QED BY <2>1
<1>2. PICK d \in Distance : \A n \in Distance : d <= n
  <2> HIDE DEF Distance
  <2>1. QED BY <1>1, NatMinimum
<1> DEFINE Top == {e \in S : MaxPriority - e.priority = d}
<1> DEFINE Indices == {e.index : e \in Top}
<1>3. Indices \in SUBSET Nat /\ Indices # {}
  <2>1. \A e \in Top : e.index \in Nat BY EntryFields
  <2>2. Top # {} BY <1>2
  <2>3. QED BY <2>1, <2>2
<1>4. PICK i \in Indices : \A n \in Indices : i <= n
  <2> HIDE DEF Indices
  <2>1. QED BY <1>3, NatMinimum
<1>5. PICK b \in Top : b.index = i BY <1>4
<1>6. ASSUME NEW f \in S PROVE ~Better(f, b)
  <2>1. b \in S /\ MaxPriority - b.priority <= MaxPriority - f.priority BY <1>2, <1>5
  <2>2. f \in Entries /\ b \in Entries BY <2>1
  <2>3. f.priority <= b.priority
    BY <2>1, <2>2, EntryFields, PoolAssumption DEF PoolAssumption
  <2>4. f.priority = b.priority => b.index <= f.index BY <1>4, <1>5
  <2>5. QED BY <2>2, <2>3, <2>4, EntryFields DEF Better
<1>7. QED BY <1>5, <1>6

(* Every waiting task has a head of its kind, which it does not beat. *)
LEMMA HeadOfKind ==
  ASSUME pool \subseteq Entries, NEW e \in pool
  PROVE  \E h \in pool : IsHead(h) /\ h.kind = e.kind /\ ~Better(e, h)
<1> DEFINE S == {f \in pool : f.kind = e.kind}
<1>1. PICK h \in S : \A f \in S : ~Better(f, h)
  <2>1. S \in SUBSET Entries /\ S # {} OBVIOUS
  <2> HIDE DEF S
  <2>2. QED BY <2>1, BestExists
<1>2. IsHead(h) BY <1>1 DEF IsHead
<1>3. QED BY <1>1, <1>2

(* What queue_read guarantees when it returns f although e waits, is       *)
(* better, came earlier and needs a core of f.                             *)
LEMMA OvertakeWithin ==
  ASSUME pool \subseteq Entries, NEW e \in pool, NEW f \in pool, MayOvertake(f),
         Overtakes(f, e)
  PROVE  /\ e.index < f.index
         /\ e.priority - f.priority <= MAX_PRIORITY_GAP
         /\ e.priority = MaxPriority => f.index <= e.index + MAX_PREEMPT_COUNT
<1> USE PoolAssumption DEF PoolAssumption
<1>1. PICK h \in pool : IsHead(h) /\ h.kind = e.kind /\ ~Better(e, h) BY HeadOfKind
<1>2. e \in Entries /\ f \in Entries /\ h \in Entries OBVIOUS
<1>3. Better(e, f) /\ e.index < f.index /\ Mask(e.kind) \cap Mask(f.kind) # {}
  BY DEF Overtakes, Compete
<1>4. h \in Ahead(f) BY <1>1, <1>2, <1>3, BetterOrder DEF Ahead
<1>5. Mask(h.kind) \cap Mask(f.kind) # {} BY <1>1, <1>3
<1>6. /\ h.priority - f.priority <= MAX_PRIORITY_GAP
      /\ f.index - h.index <= MAX_PREEMPT_COUNT
  BY <1>4, <1>5 DEF MayOvertake
<1>7. /\ h.priority >= e.priority
      /\ h.priority = e.priority => h.index <= e.index
  BY <1>1, <1>2, EntryFields DEF Better
<1>8. QED BY <1>2, <1>3, <1>6, <1>7, EntryFields

-----------------------------------------------------------------------------
(* The inductive invariant. *)

(* A task waits at most once, so the history of a task is of one entry. *)
TasksDistinct == \A e, f \in pool : e.task = f.task => e = f

(* The overtakers of a waiting task have indices of their own, that were   *)
(* given out and that no waiting task has.                                 *)
History ==
  \A e \in pool : \A f \in overtakers[e.task] :
    /\ f.index < sum_count
    /\ \A g \in pool : g.index # f.index
    /\ \A g \in overtakers[e.task] : g.index = f.index => g = f

Window ==
  \A e \in pool : e.priority = MaxPriority =>
    \A f \in overtakers[e.task] :
      e.index < f.index /\ f.index <= e.index + MAX_PREEMPT_COUNT

Inv ==
  /\ TypeOK
  /\ IndicesDistinct
  /\ TasksDistinct
  /\ History
  /\ GapRespected
  /\ Window

(* The invariant holds as long as the waiting tasks and their histories    *)
(* are a part of what they were: what Read, CleanAll, CleanTasksOn and     *)
(* CleanOne have in common as far as the histories stay the same.          *)
LEMMA Shrink ==
  ASSUME Inv, pool' \subseteq pool, sum_count' = SumAfter(pool', sum_count),
         overtakers' = overtakers
  PROVE  Inv'
<1> USE PoolAssumption DEF PoolAssumption, Inv
<1>1. pool' = {} \/ sum_count' = sum_count BY DEF SumAfter
<1>2. sum_count' \in 0 .. MaxIndex BY DEF SumAfter, TypeOK, PoolTypeOK
<1>3. TypeOK' BY <1>2 DEF TypeOK, PoolTypeOK, Entries
<1>4. IndicesDistinct' BY <1>1 DEF IndicesDistinct
<1>5. TasksDistinct' BY DEF TasksDistinct
<1>6. History' BY <1>1 DEF History
<1>7. GapRespected' BY DEF GapRespected
<1>8. Window' BY DEF Window
<1>9. QED BY <1>3, <1>4, <1>5, <1>6, <1>7, <1>8

LEMMA InitInv == Init => Inv
BY PoolAssumption DEF PoolAssumption, Init, PoolInit, Inv, TypeOK, PoolTypeOK,
   IndicesDistinct, TasksDistinct, History, GapRespected, Window

LEMMA SubmitInv ==
  ASSUME Inv, NEW t \in Tasks, NEW k \in Kinds, NEW p \in 0 .. MaxPriority, Submit(t, k, p)
  PROVE  Inv'
<1> USE PoolAssumption DEF PoolAssumption
<1> DEFINE new == [task |-> t, kind |-> k, priority |-> p, index |-> sum_count]
<1>1. /\ \A e \in pool : e.task # t
      /\ pool' = pool \cup {new}
      /\ sum_count < MaxIndex /\ sum_count' = sum_count + 1
      /\ overtakers' = [overtakers EXCEPT ![t] = {}]
  BY DEF Submit, Write
<1>2. /\ pool \subseteq Entries /\ sum_count \in 0 .. MaxIndex
      /\ overtakers \in [Tasks -> SUBSET Entries]
  BY DEF Inv, TypeOK, PoolTypeOK
<1>3. new \in Entries /\ new.task = t /\ new.index = sum_count /\ new.priority = p
  BY <1>2 DEF Entries
<1> HIDE DEF new
<1>4. \A e \in pool : e.index \in Nat /\ e.index < sum_count /\ e.task \in Tasks
  BY <1>2, EntryFields DEF Inv, IndicesDistinct
<1>5. overtakers'[new.task] = {} /\ \A e \in pool : overtakers'[e.task] = overtakers[e.task]
  BY <1>1, <1>2, <1>3, <1>4
<1>6. \A e \in pool : \A f \in overtakers[e.task] : f.index \in Nat
  BY <1>2, <1>4, EntryFields
<1>7. TypeOK'
  BY <1>1, <1>2, <1>3 DEF TypeOK, PoolTypeOK, Entries
<1>8. IndicesDistinct' BY <1>1, <1>2, <1>3, <1>4 DEF Inv, IndicesDistinct
<1>9. TasksDistinct' BY <1>1, <1>3 DEF Inv, TasksDistinct
<1>10. History'
  <2> SUFFICES ASSUME NEW e \in pool', NEW f \in overtakers'[e.task]
               PROVE  /\ f.index < sum_count'
                      /\ \A g \in pool' : g.index # f.index
                      /\ \A g \in overtakers'[e.task] : g.index = f.index => g = f
    BY DEF History
  <2>1. e \in pool /\ f \in overtakers[e.task] BY <1>1, <1>5
  <2>2. /\ f.index < sum_count /\ \A g \in pool : g.index # f.index
        /\ \A g \in overtakers[e.task] : g.index = f.index => g = f
    BY <2>1 DEF Inv, History
  <2>3. QED BY <1>1, <1>2, <1>3, <1>5, <1>6, <2>1, <2>2
<1>11. GapRespected' BY <1>1, <1>5 DEF Inv, GapRespected
<1>12. Window' BY <1>1, <1>5 DEF Inv, Window
<1>13. QED BY <1>7, <1>8, <1>9, <1>10, <1>11, <1>12 DEF Inv

LEMMA DispatchInv ==
  ASSUME Inv, NEW d \in pool, NEW free \in SUBSET Cores, Dispatch(d, free)
  PROVE  Inv'
<1> USE PoolAssumption DEF PoolAssumption
<1>1. /\ MayOvertake(d)
      /\ pool' = pool \ {d}
      /\ sum_count' = SumAfter(pool \ {d}, sum_count)
      /\ overtakers' = OvertakersAfter(d)
  BY DEF Dispatch, Read, Selected, Qualifies
<1>2. /\ pool \subseteq Entries /\ sum_count \in 0 .. MaxIndex
      /\ overtakers \in [Tasks -> SUBSET Entries]
  BY DEF Inv, TypeOK, PoolTypeOK
<1>3. pool' = {} \/ sum_count' = sum_count BY <1>1 DEF SumAfter
<1>4. \A e \in pool : e \in Entries /\ e.index \in Nat /\ e.index < sum_count /\ e.task \in Tasks
  BY <1>2, EntryFields DEF Inv, IndicesDistinct
(* A waiting task gets d as an overtaker when d overtakes it, and no other. *)
<1>5. ASSUME NEW e \in pool'
      PROVE  overtakers'[e.task] =
               IF Overtakes(d, e) THEN overtakers[e.task] \cup {d} ELSE overtakers[e.task]
  <2>1. e \in pool \ {d} /\ e.task \in Tasks BY <1>1, <1>4
  <2>2. (\E g \in pool \ {d} : g.task = e.task /\ Overtakes(d, g)) <=> Overtakes(d, e)
    BY <2>1 DEF Inv, TasksDistinct
  <2>3. QED BY <1>1, <2>1, <2>2 DEF OvertakersAfter
<1>6. ASSUME NEW e \in pool', NEW f \in overtakers'[e.task]
      PROVE  f \in overtakers[e.task] \/ (f = d /\ Overtakes(d, e))
  BY <1>5
<1>7. TypeOK'
  <2>1. sum_count' \in 0 .. MaxIndex BY <1>1, <1>2 DEF SumAfter
  <2>2. overtakers' \in [Tasks -> SUBSET Entries] BY <1>1, <1>2, <1>4 DEF OvertakersAfter
  <2>3. QED BY <1>1, <1>2, <2>1, <2>2 DEF TypeOK, PoolTypeOK, Entries
<1>8. IndicesDistinct' BY <1>1, <1>3 DEF Inv, IndicesDistinct
<1>9. TasksDistinct' BY <1>1 DEF Inv, TasksDistinct
<1>10. History'
  <2> SUFFICES ASSUME NEW e \in pool', NEW f \in overtakers'[e.task]
               PROVE  /\ f.index < sum_count'
                      /\ \A g \in pool' : g.index # f.index
                      /\ \A g \in overtakers'[e.task] : g.index = f.index => g = f
    BY DEF History
  <2>1. e \in pool /\ pool' \subseteq pool /\ sum_count' = sum_count BY <1>1, <1>3
  <2>2. \A h \in overtakers[e.task] :
          /\ h.index < sum_count /\ \A g \in pool : g.index # h.index
          /\ \A g \in overtakers[e.task] : g.index = h.index => g = h
    BY <2>1 DEF Inv, History
  <2>3. d.index < sum_count /\ \A g \in pool' : g.index # d.index
    BY <1>1, <1>4 DEF Inv, IndicesDistinct
  <2>4. \A h \in overtakers[e.task] : h.index # d.index BY <2>2
  <2>5. QED BY <1>6, <2>1, <2>2, <2>3, <2>4
<1>11. ASSUME NEW e \in pool', Overtakes(d, e)
       PROVE  /\ e.index < d.index
              /\ e.priority - d.priority <= MAX_PRIORITY_GAP
              /\ e.priority = MaxPriority => d.index <= e.index + MAX_PREEMPT_COUNT
  BY <1>1, <1>2, <1>11, OvertakeWithin
<1>12. GapRespected'
  <2> SUFFICES ASSUME NEW e \in pool', NEW f \in overtakers'[e.task]
               PROVE  e.priority - f.priority <= MAX_PRIORITY_GAP
    BY DEF GapRespected
  <2>1. CASE f \in overtakers[e.task] BY <1>1, <2>1 DEF Inv, GapRespected
  <2>2. CASE f = d /\ Overtakes(d, e) BY <1>11, <2>2
  <2>3. QED BY <1>6, <2>1, <2>2
<1>13. Window'
  <2> SUFFICES ASSUME NEW e \in pool', e.priority = MaxPriority, NEW f \in overtakers'[e.task]
               PROVE  e.index < f.index /\ f.index <= e.index + MAX_PREEMPT_COUNT
    BY DEF Window
  <2>1. CASE f \in overtakers[e.task] BY <1>1, <2>1 DEF Inv, Window
  <2>2. CASE f = d /\ Overtakes(d, e) BY <1>11, <2>2
  <2>3. QED BY <1>6, <2>1, <2>2
<1>14. QED BY <1>7, <1>8, <1>9, <1>10, <1>12, <1>13 DEF Inv

LEMMA NextInv == Inv /\ [Next]_vars => Inv'
<1> SUFFICES ASSUME Inv, [Next]_vars PROVE Inv' OBVIOUS
<1>1. CASE \E t \in Tasks, k \in Kinds, p \in 0 .. MaxPriority : Submit(t, k, p)
  BY <1>1, SubmitInv
<1>2. CASE \E e \in pool, free \in SUBSET Cores : Dispatch(e, free)
  BY <1>2, DispatchInv
<1>3. CASE Clean
  <2>1. CASE CleanAll BY <1>3, <2>1, Shrink DEF Clean, CleanAll, SumAfter
  <2>2. CASE \E c \in Cores : CleanTasksOn({c})
    <3>1. pool' \subseteq pool /\ sum_count' = SumAfter(pool', sum_count)
      BY <2>2 DEF CleanTasksOn
    <3>2. QED BY <1>3, <3>1, Shrink DEF Clean
  <2>3. CASE \E t \in Tasks : CleanOne(t)
    <3>1. pool' \subseteq pool /\ sum_count' = SumAfter(pool', sum_count)
      BY <2>3 DEF CleanOne
    <3>2. QED BY <1>3, <3>1, Shrink DEF Clean
  <2>4. QED BY <1>3, <2>1, <2>2, <2>3 DEF Clean
<1>4. CASE UNCHANGED vars
  BY <1>4 DEF vars, Inv, TypeOK, PoolTypeOK, IndicesDistinct, TasksDistinct, History,
     GapRespected, Window
<1>5. QED BY <1>1, <1>2, <1>3, <1>4 DEF Next

(* Inv is an invariant: TLC checks the parts a reader needs, this is the   *)
(* statement the theorems below rest on.                                   *)
THEOREM Invariance == Spec => []Inv
<1>1. QED BY InitInv, NextInv, PTL DEF Spec

-----------------------------------------------------------------------------
(* The queue's variables and the histories keep their types. *)
THEOREM TypeCorrect == Spec => []TypeOK
<1>1. Inv => TypeOK BY DEF Inv
<1>2. QED BY <1>1, Invariance, PTL

(* Two waiting tasks are never tied in cmp_node: every index is given to   *)
(* one task only between two moments the queue is empty.                   *)
THEOREM NoTies == Spec => []IndicesDistinct
<1>1. Inv => IndicesDistinct BY DEF Inv
<1>2. QED BY <1>1, Invariance, PTL

(* No waiting task, head of its heap or not, is overtaken by a task more   *)
(* than MAX_PRIORITY_GAP levels below it.                                  *)
THEOREM GapAlwaysRespected == Spec => []GapRespected
<1>1. Inv => GapRespected BY DEF Inv
<1>2. QED BY <1>1, Invariance, PTL

(* The indices of the overtakers of an urgent task are distinct and lie in *)
(* an interval of MAX_PREEMPT_COUNT naturals.                              *)
LEMMA WindowBounds == Inv => UrgentOvertakenBounded
<1> USE PoolAssumption DEF PoolAssumption
<1> SUFFICES ASSUME Inv, NEW e \in pool, e.priority = MaxPriority
             PROVE  Cardinality(overtakers[e.task]) <= MAX_PREEMPT_COUNT
  BY DEF UrgentOvertakenBounded
<1> DEFINE S == overtakers[e.task]
           T == e.index + 1 .. e.index + MAX_PREEMPT_COUNT
           at == [f \in S |-> f.index]
<1>1. e \in Entries /\ e.index \in Nat /\ S \subseteq Entries
  BY EntryFields DEF Inv, TypeOK, PoolTypeOK
<1>2. \A f \in S : f.index \in T
  <2>1. \A f \in S : f.index \in Nat BY <1>1, EntryFields
  <2>2. \A f \in S : e.index < f.index /\ f.index <= e.index + MAX_PREEMPT_COUNT
    BY DEF Inv, Window
  <2>3. QED BY <1>1, <2>1, <2>2
<1>3. \A f, g \in S : f.index = g.index => f = g BY DEF Inv, History
<1>4. at \in Injection(S, T)
  <2>1. at \in [S -> T] BY <1>2
  <2>2. \A f, g \in S : at[f] = at[g] => f = g BY <1>3
  <2>3. QED BY <2>1, <2>2 DEF Injection, IsInjective
<1>5. IsFiniteSet(T) /\ Cardinality(T) = MAX_PREEMPT_COUNT
  <2> DEFINE lo == e.index + 1
             hi == e.index + MAX_PREEMPT_COUNT
  <2>1. lo \in Int /\ hi \in Int BY <1>1
  <2>2. (IF lo > hi THEN 0 ELSE hi - lo + 1) = MAX_PREEMPT_COUNT BY <1>1
  <2>3. IsFiniteSet(lo .. hi) /\ Cardinality(lo .. hi) = (IF lo > hi THEN 0 ELSE hi - lo + 1)
    <3> HIDE DEF lo, hi
    <3>1. QED BY <2>1, FS_Interval
  <2>4. QED BY <2>2, <2>3
<1> HIDE DEF S, T, at
<1>6. Cardinality(S) <= Cardinality(T) BY <1>4, <1>5, FS_Injection
<1>7. QED BY <1>5, <1>6 DEF S

(* A waiting task of the highest priority is overtaken by at most          *)
(* MAX_PREEMPT_COUNT later tasks, whatever is submitted after it.          *)
THEOREM UrgentNotStarved == Spec => []UrgentOvertakenBounded
<1>1. QED BY Invariance, WindowBounds, PTL

(* The best task waiting is a head and no head is ahead of it. *)
LEMMA BestQualifies == TypeOK => RefusalMeansBlocked
<1> SUFFICES ASSUME TypeOK, NEW free \in SUBSET Cores, pool # {},
                    \A e \in pool : ~Selected(e, free)
             PROVE  \E e \in pool : (\A f \in pool : ~Better(f, e)) /\ ~Fits(e, free)
  BY DEF RefusalMeansBlocked
<1>1. PICK b \in pool : \A f \in pool : ~Better(f, b)
  BY BestExists DEF TypeOK, PoolTypeOK
<1>2. IsHead(b) /\ Ahead(b) = {} BY <1>1 DEF IsHead, Ahead
<1>3. Fits(b, free) => Selected(b, free) BY <1>2 DEF Selected, Qualifies, MayOvertake
<1>4. QED BY <1>1, <1>3

(* The daemon is refused only when the best task waiting does not fit. *)
THEOREM RefusedOnlyWhenBlocked == Spec => []RefusalMeansBlocked
<1>1. QED BY TypeCorrect, BestQualifies, PTL
=============================================================================
