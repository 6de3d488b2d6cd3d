-------------------------- MODULE TaskQueue_proofs --------------------------
(***************************************************************************)
(* Proofs about TaskQueue.tla, and at the end about CoreSchedule.tla, for  *)
(* every number of cores and tasks and every order of operations: the      *)
(* heaps and the list stay in order, the counters exact, the queue         *)
(* implements TaskPool, and the loads of the cores are computed from it.   *)
(*                                                                         *)
(* keep_max_heap is followed with a hole: all nodes but the one at k are   *)
(* in order, and those below k are no better than the one above it.  The   *)
(* loops move the hole until it closes.                                    *)
(*                                                                         *)
(* There are two invariants.  RankedInv, the order of heaps and list,      *)
(* holds whatever the indices are, also across the reset of all indices    *)
(* when sum_count runs out.  ExactInv adds what needs the indices to tell  *)
(* the nodes apart: after a reset two nodes may be equal in rank, and then *)
(* keep_max_heap, called for the place past the end after the last node of *)
(* a heap was removed, changes that node with its parent.  The theorems    *)
(* that rest on it assume that the queue drains before sum_count runs out: *)
(* MaxWrites < INDEX_MOD - 1.                                              *)
(***************************************************************************)
EXTENDS CoreSchedule, TLAPS, SequenceTheorems, SumTheorems

-----------------------------------------------------------------------------
(* cmp_node is a strict weak order.                                        *)
LEMMA Fields ==
  ASSUME NEW x \in Nodes
  PROVE  /\ x.task \in Tasks /\ x.kind \in Kinds /\ x.time \in Nat
         /\ x.priority \in Nat /\ x.index \in Nat
<1>1. MaxPriority \in Nat /\ INDEX_MOD \in Nat /\ \A y \in Times : y \in Nat
  BY QueueAssumption
<1>2. x.priority \in 0 .. MaxPriority /\ x.index \in 0 .. INDEX_MOD - 1
  BY DEF Nodes
<1>3. x.task \in Tasks /\ x.kind \in Kinds /\ x.time \in Times
  BY DEF Nodes
<1>4. QED BY <1>1, <1>2, <1>3

LEMMA CmpOrder ==
  ASSUME NEW x \in Nodes, NEW y \in Nodes, NEW z \in Nodes
  PROVE  /\ ~Cmp(x, x)
         /\ Cmp(x, y) => ~Cmp(y, x)
         /\ ~Cmp(y, x) /\ ~Cmp(z, y) => ~Cmp(z, x)
<1>1. \A n \in Nodes : n.priority \in Int /\ n.index \in Int
  BY Fields
<1>2. QED BY <1>1 DEF Cmp

(* The heap property up to n; the same with a hole: the node at k may be   *)
(* out of order, and its children are no better than its parent.           *)
HeapUpTo(h, n) == \A i \in 2 .. n : ~Cmp(h[i], h[i \div 2])

HoleAt(h, n, k) ==
  \A i \in 2 .. n :
    /\ i # k /\ i \div 2 # k => ~Cmp(h[i], h[i \div 2])
    /\ i \div 2 = k /\ k # 1 => ~Cmp(h[i], h[k \div 2])

Below(h, n, k) == \A i \in 2 .. n : i \div 2 = k => ~Cmp(h[i], h[k])
Above(h, k) == k # 1 => ~Cmp(h[k], h[k \div 2])

LEMMA HoleClosed ==
  ASSUME NEW h, NEW n \in Nat, NEW k \in 1 .. n, HoleAt(h, n, k), Below(h, n, k), Above(h, k)
  PROVE  HeapUpTo(h, n)
BY DEF HoleAt, Below, Above, HeapUpTo

LEMMA HoleOpened ==
  ASSUME NEW h \in Seq(Nodes), NEW n \in 0 .. Len(h), NEW k \in 1 .. n, HeapUpTo(h, n)
  PROVE  HoleAt(h, n, k) /\ Above(h, k)
<1>1. ASSUME NEW i \in 2 .. n, i \div 2 = k, k # 1 PROVE ~Cmp(h[i], h[k \div 2])
  <2>1. k \div 2 \in 1 .. n /\ k \in 2 .. n
    BY <1>1
  <2>2. ~Cmp(h[i], h[k]) /\ ~Cmp(h[k], h[k \div 2])
    BY <1>1, <2>1 DEF HeapUpTo
  <2>3. h[i] \in Nodes /\ h[k] \in Nodes /\ h[k \div 2] \in Nodes
    BY <1>1, <2>1
  <2>4. QED BY <2>2, <2>3, CmpOrder
<1>2. Above(h, k)
  BY DEF Above, HeapUpTo
<1>3. QED BY <1>1, <1>2 DEF HoleAt, HeapUpTo

-----------------------------------------------------------------------------
(* g has the nodes of h in another order, but for those behind n.          *)
NoTies(h) == \A p, q \in 1 .. Len(h) : p # q => h[p].index # h[q].index
TimeOf(h) == [p \in 1 .. Len(h) |-> h[p].time]
TimeSum(h) == Total(TimeOf(h), 1 .. Len(h))

Rearranged(h, g, n) ==
  /\ g \in Seq(Nodes) /\ Len(g) = Len(h)
  /\ \A p \in 1 .. Len(h) : p > n => g[p] = h[p]
  /\ ToSet(g) = ToSet(h)
  /\ NoTies(h) => NoTies(g)
  /\ TimeSum(g) = TimeSum(h)

LEMMA RearrangedSame ==
  ASSUME NEW h \in Seq(Nodes), NEW n PROVE Rearranged(h, h, n)
BY DEF Rearranged

LEMMA RearrangedTwice ==
  ASSUME NEW h, NEW g, NEW f, NEW n, Rearranged(h, g, n), Rearranged(g, f, n)
  PROVE  Rearranged(h, f, n)
BY DEF Rearranged

LEMMA SwapRearranged ==
  ASSUME NEW h \in Seq(Nodes), NEW n \in 1 .. Len(h), NEW i \in 1 .. n, NEW j \in 1 .. n,
         NEW g, g = Swap(h, i, j)
  PROVE  Rearranged(h, g, n)
<1>0. i \in 1 .. Len(h) /\ j \in 1 .. Len(h) /\ Len(h) \in Nat
  OBVIOUS
<1>1. /\ g \in Seq(Nodes) /\ Len(g) = Len(h)
      /\ g[i] = h[j] /\ g[j] = h[i]
      /\ \A p \in 1 .. Len(h) : p # i /\ p # j => g[p] = h[p]
  BY <1>0 DEF Swap
<1>2. \A p \in 1 .. Len(h) : p > n => g[p] = h[p]
  BY <1>0, <1>1
<1>3. ToSet(g) = ToSet(h)
  <2>1. DOMAIN g = 1 .. Len(h) /\ DOMAIN h = 1 .. Len(h)
    BY <1>1
  <2>2. ASSUME NEW p \in 1 .. Len(h) PROVE \E q \in 1 .. Len(h) : g[q] = h[p]
    <3>1. \E q \in {i, j, p} : g[q] = h[p]
      BY <1>1
    <3>2. QED BY <1>0, <3>1
  <2>3. ASSUME NEW p \in 1 .. Len(h) PROVE \E q \in 1 .. Len(h) : h[q] = g[p]
    <3>1. \E q \in {i, j, p} : h[q] = g[p]
      BY <1>1
    <3>2. QED BY <1>0, <3>1
  <2>4. \A x : (\E p \in 1 .. Len(h) : x = g[p]) <=> \E p \in 1 .. Len(h) : x = h[p]
    <3>1. ASSUME NEW x, NEW p \in 1 .. Len(h), x = g[p] PROVE \E q \in 1 .. Len(h) : x = h[q]
      BY <2>3, <3>1
    <3>2. ASSUME NEW x, NEW p \in 1 .. Len(h), x = h[p] PROVE \E q \in 1 .. Len(h) : x = g[q]
      BY <2>2, <3>2
    <3>3. QED BY <3>1, <3>2
  <2>5. ToSet(g) = {g[p] : p \in 1 .. Len(h)} /\ ToSet(h) = {h[p] : p \in 1 .. Len(h)}
    BY <2>1 DEF ToSet
  <2>6. QED BY <2>4, <2>5
<1>4. NoTies(h) => NoTies(g)
  <2>1. SUFFICES ASSUME NoTies(h), NEW p \in 1 .. Len(h), NEW q \in 1 .. Len(h), p # q
                 PROVE  g[p].index # g[q].index
    BY <1>1 DEF NoTies
  <2>2. PICK a, b \in 1 .. Len(h) : g[p] = h[a] /\ g[q] = h[b] /\ a # b
    BY <1>0, <1>1, <2>1
  <2>3. QED BY <2>1, <2>2 DEF NoTies
<1>5. TimeSum(g) = TimeSum(h)
  <2>1. PICK D, f, e : D = 1 .. Len(h) /\ f = TimeOf(h) /\ e = TimeOf(g)
    OBVIOUS
  <2>2. \A p \in D : h[p] \in Nodes /\ g[p] \in Nodes /\ f[p] = h[p].time /\ e[p] = g[p].time
    BY <1>1, <2>1 DEF TimeOf
  <2>3. \A node \in Nodes : node.time \in Int
    BY Fields
  <2>4. IsFiniteSet(D)
    BY <1>0, <2>1, FS_Interval
  <2>5. \A p \in D : f[p] \in Int
    BY <2>2, <2>3
  <2>6. \A p \in D : e[p] \in Int
    BY <2>2, <2>3
  <2>7. PICK a, b : a = i /\ b = j
    OBVIOUS
  <2>8. a \in D /\ b \in D /\ f[a] = e[b] /\ f[b] = e[a]
    BY <1>0, <1>1, <2>1, <2>2, <2>7
  <2>9. \A p \in D : p # a /\ p # b => f[p] = e[p]
    BY <1>0, <1>1, <2>1, <2>2, <2>7
  <2>10. Total(f, D) = Total(e, D)
    BY ONLY <2>4, <2>5, <2>6, <2>8, <2>9, TotalSwap
  <2>11. QED BY <1>1, <2>1, <2>10 DEF TimeSum
<1>6. QED BY <1>1, <1>2, <1>3, <1>4, <1>5 DEF Rearranged

-----------------------------------------------------------------------------
(* The loops of keep_max_heap.                                             *)
LEMMA UpLoop ==
  ASSUME NEW h, NEW at, Len(h) \in Nat
  PROVE  \E loop : /\ loop[0] = [h |-> h, at |-> at]
                   /\ \A d \in Nat : d + 1 <= Len(h) => loop[d + 1] = UpStep(loop[d])
                   /\ SiftUp(h, at) = loop[Len(h)].h
<1> DEFINE Body(s, d) == IF d = 0 THEN [h |-> h, at |-> at] ELSE UpStep(s[d - 1])
           N == {n \in Nat : \E s : s = [d \in 0 .. n |-> Body(s, d)]}
<1>1. 0 \in N
  <2> DEFINE s == [d \in 0 .. 0 |-> [h |-> h, at |-> at]]
  <2>1. s = [d \in 0 .. 0 |-> Body(s, d)]
    OBVIOUS
  <2> HIDE DEF s
  <2>2. QED BY <2>1
<1>2. ASSUME NEW n \in Nat, n \in N PROVE n + 1 \in N
  <2>1. PICK s : s = [d \in 0 .. n |-> Body(s, d)]
    BY <1>2
  <2> DEFINE t == [d \in 0 .. n + 1 |-> Body(s, d)]
  <2>2. \A d \in 0 .. n : t[d] = s[d]
    <3>1. \A d \in 0 .. n : s[d] = Body(s, d)
      BY <2>1
    <3> HIDE DEF Body
    <3>2. QED BY <3>1
  <2>3. \A d \in 0 .. n + 1 : Body(s, d) = Body(t, d)
    <3> HIDE DEF t
    <3>1. QED BY <2>2
  <2> HIDE DEF Body
  <2>4. t = [d \in 0 .. n + 1 |-> Body(t, d)]
    BY <2>3
  <2> HIDE DEF t
  <2>5. \E s2 : s2 = [d \in 0 .. n + 1 |-> Body(s2, d)]
    BY <2>4
  <2>6. QED BY <2>5
<1> HIDE DEF N
<1>3. Len(h) \in N
  BY <1>1, <1>2, NaturalInduction
<1> DEFINE L == CHOOSE s : s = [d \in 0 .. Len(h) |-> Body(s, d)]
<1>4. L = [d \in 0 .. Len(h) |-> Body(L, d)]
  <2>1. \E s : s = [d \in 0 .. Len(h) |-> Body(s, d)]
    BY <1>3 DEF N
  <2> HIDE DEF Body
  <2>2. QED BY <2>1
<1>5. SiftUp(h, at) = L[Len(h)].h
  BY DEF SiftUp
<1> HIDE DEF L
<1>6. L[0] = [h |-> h, at |-> at]
  BY <1>4
<1>7. ASSUME NEW d \in Nat, d + 1 <= Len(h) PROVE L[d + 1] = UpStep(L[d])
  <2>1. d + 1 \in 0 .. Len(h) /\ d + 1 # 0 /\ (d + 1) - 1 = d
    BY <1>7
  <2>2. L[d + 1] = Body(L, d + 1)
    BY <1>4, <2>1
  <2>3. QED BY <2>1, <2>2
<1>8. QED BY <1>5, <1>6, <1>7

LEMMA DownLoop ==
  ASSUME NEW h, NEW n, NEW at, Len(h) \in Nat
  PROVE  \E loop : /\ loop[0] = [h |-> h, at |-> at]
                   /\ \A d \in Nat : d + 1 <= Len(h) => loop[d + 1] = DownStep(loop[d], n)
                   /\ SiftDown(h, n, at) = loop[Len(h)].h
<1> DEFINE Body(s, d) == IF d = 0 THEN [h |-> h, at |-> at] ELSE DownStep(s[d - 1], n)
           N == {m \in Nat : \E s : s = [d \in 0 .. m |-> Body(s, d)]}
<1>1. 0 \in N
  <2> DEFINE s == [d \in 0 .. 0 |-> [h |-> h, at |-> at]]
  <2>1. s = [d \in 0 .. 0 |-> Body(s, d)]
    OBVIOUS
  <2> HIDE DEF s
  <2>2. QED BY <2>1
<1>2. ASSUME NEW m \in Nat, m \in N PROVE m + 1 \in N
  <2>1. PICK s : s = [d \in 0 .. m |-> Body(s, d)]
    BY <1>2
  <2> DEFINE t == [d \in 0 .. m + 1 |-> Body(s, d)]
  <2>2. \A d \in 0 .. m : t[d] = s[d]
    <3>1. \A d \in 0 .. m : s[d] = Body(s, d)
      BY <2>1
    <3> HIDE DEF Body
    <3>2. QED BY <3>1
  <2>3. \A d \in 0 .. m + 1 : Body(s, d) = Body(t, d)
    <3> HIDE DEF t
    <3>1. QED BY <2>2
  <2> HIDE DEF Body
  <2>4. t = [d \in 0 .. m + 1 |-> Body(t, d)]
    BY <2>3
  <2> HIDE DEF t
  <2>5. \E s2 : s2 = [d \in 0 .. m + 1 |-> Body(s2, d)]
    BY <2>4
  <2>6. QED BY <2>5
<1> HIDE DEF N
<1>3. Len(h) \in N
  BY <1>1, <1>2, NaturalInduction
<1> DEFINE L == CHOOSE s : s = [d \in 0 .. Len(h) |-> Body(s, d)]
<1>4. L = [d \in 0 .. Len(h) |-> Body(L, d)]
  <2>1. \E s : s = [d \in 0 .. Len(h) |-> Body(s, d)]
    BY <1>3 DEF N
  <2> HIDE DEF Body
  <2>2. QED BY <2>1
<1>5. SiftDown(h, n, at) = L[Len(h)].h
  BY DEF SiftDown
<1> HIDE DEF L
<1>6. L[0] = [h |-> h, at |-> at]
  BY <1>4
<1>7. ASSUME NEW d \in Nat, d + 1 <= Len(h) PROVE L[d + 1] = DownStep(L[d], n)
  <2>1. d + 1 \in 0 .. Len(h) /\ d + 1 # 0 /\ (d + 1) - 1 = d
    BY <1>7
  <2>2. L[d + 1] = Body(L, d + 1)
    BY <1>4, <2>1
  <2>3. QED BY <2>1, <2>2
<1>8. QED BY <1>5, <1>6, <1>7

(* One step up: the hole moves to the parent, and nothing below is out of  *)
(* order any more.                                                         *)
LEMMA StepUp ==
  ASSUME NEW h \in Seq(Nodes), NEW n \in 1 .. Len(h), NEW k \in 2 .. n, HoleAt(h, n, k),
         ~Cmp(h[k \div 2], h[k]), NEW g, g = Swap(h, k, k \div 2)
  PROVE  /\ Rearranged(h, g, n) /\ k \div 2 \in 1 .. n /\ k \div 2 < k
         /\ HoleAt(g, n, k \div 2) /\ Below(g, n, k \div 2)
<1>1. PICK p : p = k \div 2
  OBVIOUS
<1>2. p \in 1 .. n /\ p < k /\ p \in Nat /\ k \in Nat /\ n <= Len(h) /\ Len(h) \in Nat /\ p # k
  BY <1>1
<1>3. Rearranged(h, g, n)
  <2>1. k \in 1 .. n
    OBVIOUS
  <2>2. QED BY <1>1, <1>2, <2>1, SwapRearranged
<1>4. /\ g[k] = h[p] /\ g[p] = h[k]
      /\ \A i \in 1 .. n : i # k /\ i # p => g[i] = h[i]
  BY <1>1, <1>2 DEF Swap
<1>5. \A i \in 1 .. n : h[i] \in Nodes
  BY <1>2
<1>6. \A i \in 2 .. n : i \div 2 \in 1 .. n /\ i \div 2 < i
  OBVIOUS
<1>7. \A x, y, z \in Nodes : ~Cmp(y, x) /\ ~Cmp(z, y) => ~Cmp(z, x)
  BY CmpOrder
<1>8. p # 1 => p \in 2 .. n /\ p \div 2 # k /\ ~Cmp(h[p], h[p \div 2])
  <2>1. SUFFICES ASSUME p # 1 PROVE p \in 2 .. n /\ p \div 2 # k /\ ~Cmp(h[p], h[p \div 2])
    OBVIOUS
  <2>2. p \in 2 .. n /\ p \div 2 # k
    BY <1>2, <1>6, <2>1
  <2>3. QED BY <1>2, <2>2 DEF HoleAt
<1>9. ASSUME NEW i \in 2 .. n, i # p, i \div 2 # p PROVE ~Cmp(g[i], g[i \div 2])
  <2>1. i # k
    BY <1>1, <1>9
  <2>2. g[i] = h[i]
    BY <1>4, <1>9, <2>1
  <2>3. CASE i \div 2 = k
    BY <1>1, <1>4, <2>2, <2>3 DEF HoleAt
  <2>4. CASE i \div 2 # k
    BY <1>4, <1>6, <1>9, <2>1, <2>2, <2>4 DEF HoleAt
  <2>5. QED BY <2>3, <2>4
<1>10. ASSUME NEW i \in 2 .. n, i \div 2 = p
       PROVE  /\ p # 1 => ~Cmp(g[i], g[p \div 2])
              /\ ~Cmp(g[i], g[p])
  <2>1. p # 1 => g[p \div 2] = h[p \div 2] /\ p \div 2 \in 1 .. n
    BY <1>2, <1>4, <1>6, <1>8
  <2>2. i # p
    BY <1>6, <1>10
  <2>3. CASE i = k
    BY <1>1, <1>4, <1>8, <2>1, <2>3
  <2>4. CASE i # k
    <3>1. g[i] = h[i] /\ ~Cmp(h[i], h[p]) /\ i \in 1 .. n
      BY <1>2, <1>4, <1>10, <2>2, <2>4 DEF HoleAt
    <3>2. p # 1 => ~Cmp(h[i], h[p \div 2])
      BY <1>2, <1>5, <1>7, <1>8, <2>1, <3>1
    <3>3. ~Cmp(h[i], h[k])
      BY <1>1, <1>2, <1>5, <1>7, <3>1
    <3>4. QED BY <1>4, <2>1, <3>1, <3>2, <3>3
  <2>5. QED BY <2>3, <2>4
<1>11. HoleAt(g, n, p) /\ Below(g, n, p)
  BY <1>9, <1>10 DEF HoleAt, Below
<1>12. QED BY <1>1, <1>2, <1>3, <1>11

LEMMA SiftUpKeeps ==
  ASSUME NEW h \in Seq(Nodes), NEW n \in 1 .. Len(h), NEW at \in 1 .. n, HoleAt(h, n, at)
  PROVE  /\ Rearranged(h, SiftUp(h, at), n)
         /\ HoleAt(SiftUp(h, at), n, at) /\ Above(SiftUp(h, at), at)
<1>1. PICK s : /\ s[0] = [h |-> h, at |-> at]
               /\ \A d \in Nat : d + 1 <= Len(h) => s[d + 1] = UpStep(s[d])
               /\ SiftUp(h, at) = s[Len(h)].h
  BY UpLoop
<1> DEFINE Ended(d) == s[d].at = 1 \/ Cmp(s[d].h[s[d].at \div 2], s[d].h[s[d].at])
           Good(d) == /\ Rearranged(h, s[d].h, n)
                      /\ s[d].at \in 1 .. at
                      /\ HoleAt(s[d].h, n, s[d].at)
                      /\ s[d].at # at => Below(s[d].h, n, s[d].at)
                      /\ Ended(d) \/ s[d].at + d <= at
           N == {d \in Nat : d <= Len(h) => Good(d)}
<1>2. 0 \in N
  <2>1. s[0].h = h /\ s[0].at = at
    BY <1>1
  <2>2. QED BY <2>1, RearrangedSame
<1>3. ASSUME NEW d \in Nat, d \in N PROVE d + 1 \in N
  <2>1. SUFFICES ASSUME d + 1 <= Len(h) PROVE Good(d + 1)
    OBVIOUS
  <2>2. Good(d) /\ s[d + 1] = UpStep(s[d])
    BY <1>1, <1>3, <2>1
  <2>3. PICK f, k : f = s[d].h /\ k = s[d].at
    OBVIOUS
  <2>4. CASE Ended(d)
    <3>1. s[d + 1] = s[d]
      BY <2>2, <2>4 DEF UpStep
    <3>2. QED BY <2>2, <2>4, <3>1
  <2>5. CASE ~Ended(d)
    <3>1. s[d + 1].h = Swap(f, k, k \div 2) /\ s[d + 1].at = k \div 2
      BY <2>2, <2>3, <2>5 DEF UpStep
    <3>2. /\ f \in Seq(Nodes) /\ n \in 1 .. Len(f) /\ k \in 2 .. n /\ HoleAt(f, n, k)
          /\ ~Cmp(f[k \div 2], f[k]) /\ k <= at /\ k + d <= at
      BY <2>2, <2>3, <2>5 DEF Rearranged
    <3>3. PICK g, p : g = s[d + 1].h /\ p = k \div 2
      OBVIOUS
    <3>4. /\ Rearranged(f, g, n) /\ p \in 1 .. n /\ p < k
          /\ HoleAt(g, n, p) /\ Below(g, n, p)
      BY <3>1, <3>2, <3>3, StepUp
    <3>5. Rearranged(h, g, n)
      BY <2>2, <2>3, <3>4, RearrangedTwice
    <3>6. p \in 1 .. at /\ p + (d + 1) <= at
      BY <3>2, <3>4
    <3>7. QED BY <3>1, <3>3, <3>4, <3>5, <3>6
  <2>6. QED BY <2>4, <2>5
<1> HIDE DEF N
<1>4. Len(h) \in N
  BY <1>2, <1>3, NaturalInduction
<1>5. Good(Len(h))
  BY <1>4 DEF N
<1>6. PICK g, k : g = s[Len(h)].h /\ k = s[Len(h)].at
  OBVIOUS
<1>7. /\ Rearranged(h, g, n) /\ k \in 1 .. at /\ HoleAt(g, n, k)
      /\ k # at => Below(g, n, k)
      /\ k = 1 \/ Cmp(g[k \div 2], g[k])
  BY <1>5, <1>6
<1>8. g \in Seq(Nodes) /\ n \in 1 .. Len(g) /\ n \in 0 .. Len(g)
  BY <1>7 DEF Rearranged
<1>9. Above(g, k)
  <2>1. SUFFICES ASSUME k # 1 PROVE ~Cmp(g[k], g[k \div 2])
    BY DEF Above
  <2>2. g[k] \in Nodes /\ g[k \div 2] \in Nodes
    BY <1>7, <1>8, <2>1
  <2>3. QED BY <1>7, <2>1, <2>2, CmpOrder
<1>10. HoleAt(g, n, at) /\ Above(g, at)
  <2>1. CASE k = at
    BY <1>7, <1>9, <2>1
  <2>2. CASE k # at
    <3>1. HeapUpTo(g, n)
      BY <1>7, <1>9, <2>2, HoleClosed
    <3>2. QED BY <1>8, <3>1, HoleOpened
  <2>3. QED BY <2>1, <2>2
<1>11. QED BY <1>1, <1>6, <1>7, <1>10

LEMMA SiftUpStays ==
  ASSUME NEW h \in Seq(Nodes), NEW at, at = 1 \/ Cmp(h[at \div 2], h[at])
  PROVE  SiftUp(h, at) = h
<1>1. PICK s : /\ s[0] = [h |-> h, at |-> at]
               /\ \A d \in Nat : d + 1 <= Len(h) => s[d + 1] = UpStep(s[d])
               /\ SiftUp(h, at) = s[Len(h)].h
  BY UpLoop
<1> DEFINE N == {d \in Nat : d <= Len(h) => s[d] = [h |-> h, at |-> at]}
<1>2. 0 \in N
  BY <1>1
<1>3. ASSUME NEW d \in Nat, d \in N PROVE d + 1 \in N
  <2>1. SUFFICES ASSUME d + 1 <= Len(h) PROVE s[d + 1] = [h |-> h, at |-> at]
    OBVIOUS
  <2>2. s[d] = [h |-> h, at |-> at] /\ s[d + 1] = UpStep(s[d])
    BY <1>1, <1>3, <2>1
  <2>3. QED BY <2>2 DEF UpStep
<1> HIDE DEF N
<1>4. Len(h) \in N
  BY <1>2, <1>3, NaturalInduction
<1>5. QED BY <1>1, <1>4 DEF N
(* One step down: the better child comes up, and the hole moves to where   *)
(* it was.                                                                 *)
BetterChild(h, n, k) == Best(h, n, 2 * k + 1, Best(h, n, 2 * k, k))

LEMMA BestChild ==
  ASSUME NEW h \in Seq(Nodes), NEW n \in 1 .. Len(h), NEW k \in 1 .. n,
         NEW b, b = BetterChild(h, n, k)
  PROVE  /\ b \in 1 .. n /\ b \in {k, 2 * k, 2 * k + 1}
         /\ ~Cmp(h[k], h[b]) /\ (b # k => Cmp(h[b], h[k]))
         /\ \A i \in 2 .. n : i \div 2 = k => ~Cmp(h[i], h[b])
<1>1. \A i \in 1 .. n : h[i] \in Nodes
  OBVIOUS
<1>2. \A x, y, z \in Nodes : /\ ~Cmp(x, x) /\ (Cmp(x, y) => ~Cmp(y, x))
                             /\ (~Cmp(y, x) /\ ~Cmp(z, y) => ~Cmp(z, x))
  BY CmpOrder
<1>3. PICK c : c = Best(h, n, 2 * k, k)
  OBVIOUS
<1>4. /\ c \in 1 .. n /\ c \in {k, 2 * k}
      /\ ~Cmp(h[k], h[c]) /\ (c # k => Cmp(h[c], h[k]))
      /\ 2 * k <= n => ~Cmp(h[2 * k], h[c])
  <2>1. CASE 2 * k <= n /\ Cmp(h[2 * k], h[k])
    <3>1. c = 2 * k /\ 2 * k \in 1 .. n
      BY <1>3, <2>1 DEF Best
    <3>2. QED BY <1>1, <1>2, <2>1, <3>1
  <2>2. CASE ~(2 * k <= n /\ Cmp(h[2 * k], h[k]))
    <3>1. c = k
      BY <1>3, <2>2 DEF Best
    <3>2. QED BY <1>1, <1>2, <2>2, <3>1
  <2>3. QED BY <2>1, <2>2
<1>5. \A i \in 2 .. n : i \div 2 = k => i = 2 * k \/ i = 2 * k + 1
  OBVIOUS
<1>6. CASE 2 * k + 1 <= n /\ Cmp(h[2 * k + 1], h[c])
  <2>1. b = 2 * k + 1 /\ 2 * k + 1 \in 1 .. n /\ 2 * k \in 1 .. n
    BY <1>3, <1>6 DEF Best, BetterChild
  <2>2. ~Cmp(h[c], h[b]) /\ ~Cmp(h[b], h[b])
    BY <1>1, <1>2, <1>4, <1>6, <2>1
  <2>3. ~Cmp(h[k], h[b]) /\ Cmp(h[b], h[k]) /\ ~Cmp(h[2 * k], h[b])
    BY <1>1, <1>2, <1>4, <1>6, <2>1, <2>2
  <2>4. QED BY <1>5, <2>1, <2>2, <2>3
<1>7. CASE ~(2 * k + 1 <= n /\ Cmp(h[2 * k + 1], h[c]))
  <2>1. b = c
    BY <1>3, <1>7 DEF Best, BetterChild
  <2>2. \A i \in 2 .. n : i \div 2 = k => ~Cmp(h[i], h[b])
    BY <1>4, <1>5, <1>7, <2>1
  <2>3. QED BY <1>4, <2>1, <2>2
<1>8. QED BY <1>6, <1>7

LEMMA StepDown ==
  ASSUME NEW h \in Seq(Nodes), NEW n \in 1 .. Len(h), NEW k \in 1 .. n,
         HoleAt(h, n, k), NEW b, b = BetterChild(h, n, k), b # k,
         NEW g, g = Swap(h, k, b)
  PROVE  /\ Rearranged(h, g, n) /\ b \in 1 .. n /\ k < b
         /\ HoleAt(g, n, b) /\ Above(g, b)
<1>1. /\ b \in 1 .. n /\ b \in {k, 2 * k, 2 * k + 1} /\ ~Cmp(h[k], h[b])
      /\ \A i \in 2 .. n : i \div 2 = k => ~Cmp(h[i], h[b])
  BY SMTT(30), BestChild
<1>2. k < b /\ b \div 2 = k /\ n <= Len(h) /\ Len(h) \in Nat /\ b \in 2 .. n
  BY <1>1
<1>3. Rearranged(h, g, n)
  BY <1>1, SwapRearranged
<1>4. /\ g[k] = h[b] /\ g[b] = h[k]
      /\ \A i \in 1 .. n : i # k /\ i # b => g[i] = h[i]
  BY <1>1, <1>2 DEF Swap
<1>5. \A i \in 2 .. n : i \div 2 \in 1 .. n /\ i \div 2 < i
  OBVIOUS
<1>6. ASSUME NEW i \in 2 .. n, i # b, i \div 2 # b PROVE ~Cmp(g[i], g[i \div 2])
  <2>1. CASE i = k
    <3>1. i \div 2 # k /\ g[i \div 2] = h[i \div 2] /\ k # 1
      BY <1>4, <1>5, <1>6, <2>1
    <3>2. ~Cmp(h[b], h[k \div 2])
      BY <1>2, <3>1 DEF HoleAt
    <3>3. QED BY <1>4, <2>1, <3>1, <3>2
  <2>2. CASE i # k
    <3>1. g[i] = h[i]
      BY <1>4, <1>6, <2>2
    <3>2. CASE i \div 2 = k
      BY <1>1, <1>4, <3>1, <3>2
    <3>3. CASE i \div 2 # k
      <4>1. g[i \div 2] = h[i \div 2]
        BY <1>4, <1>5, <1>6, <3>3
      <4>2. ~Cmp(h[i], h[i \div 2])
        BY <2>2, <3>3 DEF HoleAt
      <4>3. QED BY <3>1, <4>1, <4>2
    <3>4. QED BY <3>2, <3>3
  <2>3. QED BY <2>1, <2>2
<1>7. ASSUME NEW i \in 2 .. n, i \div 2 = b PROVE ~Cmp(g[i], g[b \div 2])
  <2>1. i # k /\ i # b
    BY <1>2, <1>5, <1>7
  <2>2. g[i] = h[i] /\ ~Cmp(h[i], h[b])
    BY <1>2, <1>4, <1>7, <2>1 DEF HoleAt
  <2>3. QED BY <1>2, <1>4, <2>2
<1>8. HoleAt(g, n, b)
  BY <1>6, <1>7 DEF HoleAt
<1>9. Above(g, b)
  <2>1. g[b \div 2] = h[b]
    BY <1>2, <1>4
  <2>2. ~Cmp(g[b], g[b \div 2])
    BY <1>1, <1>4, <2>1
  <2>3. QED BY <2>2 DEF Above
<1>10. QED BY <1>1, <1>2, <1>3, <1>8, <1>9

(* The end of the way down leaves no hole.                                 *)
LEMMA DownEnds ==
  ASSUME NEW h \in Seq(Nodes), NEW n \in 1 .. Len(h), NEW k \in 1 .. n,
         HoleAt(h, n, k), Above(h, k), NEW s, s.h = h, s.at = k,
         \/ 2 * k > n
         \/ BetterChild(h, n, k) = k
  PROVE  HeapUpTo(h, n) /\ DownStep(s, n).h = h /\ DownStep(s, n).at = k
<1>1. Below(h, n, k)
  <2>1. CASE 2 * k > n
    <3>1. \A i \in 2 .. n : i \div 2 # k
      BY <2>1
    <3>2. QED BY <3>1 DEF Below
  <2>2. CASE BetterChild(h, n, k) = k
    <3>1. \A i \in 2 .. n : i \div 2 = k => ~Cmp(h[i], h[k])
      BY <2>2, BestChild
    <3>2. QED BY <3>1 DEF Below
  <2>3. QED BY <2>1, <2>2
<1>2. HeapUpTo(h, n)
  BY <1>1, HoleClosed
<1>3. CASE 2 * k > n
  BY <1>2, <1>3 DEF DownStep
<1>4. CASE BetterChild(h, n, k) = k
  <2>1. Swap(h, k, k) = h
    BY DEF Swap
  <2>2. DownStep(s, n) = IF 2 * k > n THEN s ELSE [h |-> h, at |-> k]
    BY <1>4, <2>1 DEF DownStep, BetterChild
  <2>3. QED BY <1>2, <2>2
<1>5. QED BY <1>3, <1>4

LEMMA SiftDownKeeps ==
  ASSUME NEW h \in Seq(Nodes), NEW n \in 1 .. Len(h), NEW at \in 1 .. n,
         HoleAt(h, n, at), Above(h, at)
  PROVE  Rearranged(h, SiftDown(h, n, at), n) /\ HeapUpTo(SiftDown(h, n, at), n)
<1>1. PICK s : /\ s[0] = [h |-> h, at |-> at]
               /\ \A d \in Nat : d + 1 <= Len(h) => s[d + 1] = DownStep(s[d], n)
               /\ SiftDown(h, n, at) = s[Len(h)].h
  <2>1. Len(h) \in Nat
    OBVIOUS
  <2>2. QED BY <2>1, DownLoop
<1> DEFINE Good(d) == /\ Rearranged(h, s[d].h, n)
                      /\ s[d].at \in 1 .. n
                      /\ HoleAt(s[d].h, n, s[d].at) /\ Above(s[d].h, s[d].at)
                      /\ HeapUpTo(s[d].h, n) \/ s[d].at >= at + d
           N == {d \in Nat : d <= Len(h) => Good(d)}
<1>2. 0 \in N
  <2>1. s[0].h = h /\ s[0].at = at
    BY <1>1
  <2>2. QED BY <2>1, RearrangedSame
<1>3. ASSUME NEW d \in Nat, d \in N PROVE d + 1 \in N
  <2>1. SUFFICES ASSUME d + 1 <= Len(h) PROVE Good(d + 1)
    OBVIOUS
  <2>2. Good(d) /\ s[d + 1] = DownStep(s[d], n)
    BY <1>1, <1>3, <2>1
  <2>3. PICK f, k : f = s[d].h /\ k = s[d].at
    OBVIOUS
  <2>4. PICK b : b = BetterChild(f, n, k)
    OBVIOUS
  <2>5. /\ f \in Seq(Nodes) /\ n \in 1 .. Len(f) /\ k \in 1 .. n
        /\ HoleAt(f, n, k) /\ Above(f, k)
    BY <2>2, <2>3 DEF Rearranged
  <2>6. CASE 2 * k > n \/ b = k
    <3>1. HeapUpTo(f, n) /\ s[d + 1].h = f /\ s[d + 1].at = k
      BY SMTT(30), <2>2, <2>3, <2>4, <2>5, <2>6, DownEnds
    <3>2. QED BY <2>2, <2>3, <3>1
  <2>7. CASE ~(2 * k > n \/ b = k)
    <3>1. s[d + 1].h = Swap(f, k, b) /\ s[d + 1].at = b
      BY <2>2, <2>3, <2>4, <2>7 DEF DownStep, BetterChild
    <3>2. PICK g : g = s[d + 1].h
      OBVIOUS
    <3>3. /\ Rearranged(f, g, n) /\ b \in 1 .. n /\ k < b
          /\ HoleAt(g, n, b) /\ Above(g, b)
      BY <2>4, <2>5, <2>7, <3>1, <3>2, StepDown
    <3>4. Rearranged(h, g, n)
      BY <2>2, <2>3, <3>3, RearrangedTwice
    <3>5. HeapUpTo(f, n) => HeapUpTo(g, n)
      <4>1. Cmp(f[b], f[k]) /\ b \in {k, 2 * k, 2 * k + 1}
        <5>1. f \in Seq(Nodes) /\ n \in 1 .. Len(f) /\ k \in 1 .. n /\ b # k
          BY <2>5, <2>7
        <5>2. \A c : c = BetterChild(f, n, k) => /\ c \in {k, 2 * k, 2 * k + 1}
                                                 /\ c # k => Cmp(f[c], f[k])
          BY ONLY <5>1, BestChild
        <5>3. QED BY <2>4, <5>1, <5>2
      <4>2. b \in 2 .. n /\ b \div 2 = k
        BY <2>5, <2>7, <3>3, <4>1
      <4>3. QED BY <4>1, <4>2 DEF HeapUpTo
    <3>6. QED BY <2>2, <2>3, <3>1, <3>2, <3>3, <3>4, <3>5
  <2>8. QED BY <2>6, <2>7
<1> HIDE DEF N
<1>4. Len(h) \in N
  BY <1>2, <1>3, NaturalInduction
<1>5. Good(Len(h))
  BY <1>4 DEF N
<1>6. QED BY <1>1, <1>5
LEMMA SiftDownPast ==
  ASSUME NEW h \in Seq(Nodes), NEW n \in Nat, NEW at \in Nat, at > n
  PROVE  SiftDown(h, n, at) = h
<1>1. PICK s : /\ s[0] = [h |-> h, at |-> at]
               /\ \A d \in Nat : d + 1 <= Len(h) => s[d + 1] = DownStep(s[d], n)
               /\ SiftDown(h, n, at) = s[Len(h)].h
  <2>1. Len(h) \in Nat
    OBVIOUS
  <2>2. QED BY <2>1, DownLoop
<1> DEFINE N == {d \in Nat : d <= Len(h) => s[d] = [h |-> h, at |-> at]}
<1>2. 0 \in N
  BY <1>1
<1>3. ASSUME NEW d \in Nat, d \in N PROVE d + 1 \in N
  <2>1. SUFFICES ASSUME d + 1 <= Len(h) PROVE s[d + 1] = [h |-> h, at |-> at]
    OBVIOUS
  <2>2. s[d] = [h |-> h, at |-> at] /\ s[d + 1] = DownStep(s[d], n)
    BY <1>1, <1>3, <2>1
  <2>3. QED BY <2>2 DEF DownStep
<1> HIDE DEF N
<1>4. Len(h) \in N
  BY <1>2, <1>3, NaturalInduction
<1>5. QED BY <1>1, <1>4 DEF N

(* The root of a heap is beaten by no node.                                *)
LEMMA RootBest ==
  ASSUME NEW h \in Seq(Nodes), NEW n \in 1 .. Len(h), HeapUpTo(h, n)
  PROVE  \A p \in 1 .. n : ~Cmp(h[p], h[1])
<1> DEFINE N == {m \in Nat : \A p \in 1 .. n : p <= m => ~Cmp(h[p], h[1])}
<1>1. 0 \in N
  OBVIOUS
<1>2. ASSUME NEW m \in Nat, m \in N PROVE m + 1 \in N
  <2>1. SUFFICES ASSUME NEW p \in 1 .. n, p = m + 1 PROVE ~Cmp(h[p], h[1])
    BY <1>2
  <2>2. h[1] \in Nodes /\ h[p] \in Nodes
    OBVIOUS
  <2>3. CASE p = 1
    BY <2>2, <2>3, CmpOrder
  <2>4. CASE p # 1
    <3>1. p \in 2 .. n /\ p \div 2 \in 1 .. n /\ p \div 2 <= m
      BY <2>1, <2>4
    <3>2. ~Cmp(h[p], h[p \div 2]) /\ ~Cmp(h[p \div 2], h[1]) /\ h[p \div 2] \in Nodes
      BY <1>2, <3>1 DEF HeapUpTo
    <3>3. QED BY <2>2, <3>2, CmpOrder
  <2>5. QED BY <2>3, <2>4
<1>3. n \in N
  <2>1. n \in Nat
    OBVIOUS
  <2> HIDE DEF N
  <2>2. QED BY <1>1, <1>2, <2>1, NaturalInduction
<1>4. QED BY <1>3

-----------------------------------------------------------------------------
(* What a write and a removal make of a heap.                              *)
LEMMA Written ==
  ASSUME NEW h \in Seq(Nodes), HeapUpTo(h, Len(h)), NEW node \in Nodes,
         NEW n, n = Len(h) + 1, NEW g, g = KeepMaxHeap(Append(h, node), n, n)
  PROVE  Rearranged(Append(h, node), g, n) /\ HeapUpTo(g, n)
<1>1. PICK f : f = Append(h, node)
  OBVIOUS
<1>2. n \in 1 .. Len(f) /\ f \in Seq(Nodes) /\ Len(f) = n /\ \A i \in 1 .. Len(h) : f[i] = h[i]
  BY <1>1
<1>3. HoleAt(f, n, n)
  <2>1. ASSUME NEW i \in 2 .. n, i # n PROVE ~Cmp(f[i], f[i \div 2])
    <3>1. i \in 2 .. Len(h) /\ i \div 2 \in 1 .. Len(h)
      BY <2>1
    <3>2. QED BY <1>2, <3>1 DEF HeapUpTo
  <2>2. \A i \in 2 .. n : i \div 2 # n
    OBVIOUS
  <2>3. QED BY <2>1, <2>2 DEF HoleAt
<1>4. PICK u : u = SiftUp(f, n)
  OBVIOUS
<1>5. Rearranged(f, u, n) /\ HoleAt(u, n, n) /\ Above(u, n)
  <2>1. f \in Seq(Nodes) /\ n \in 1 .. Len(f) /\ n \in 1 .. n
    BY <1>2
  <2>2. QED BY ONLY <1>3, <1>4, <2>1, SiftUpKeeps
<1>6. u \in Seq(Nodes) /\ n \in 1 .. Len(u) /\ n \in 1 .. n
  BY <1>2, <1>5 DEF Rearranged
<1>7. PICK e : e = SiftDown(u, n, n)
  OBVIOUS
<1>8. Rearranged(u, e, n) /\ HeapUpTo(e, n)
  BY ONLY <1>5, <1>6, <1>7, SiftDownKeeps
<1>9. e = g
  BY <1>1, <1>4, <1>7 DEF KeepMaxHeap
<1>10. Rearranged(f, e, n)
  BY ONLY <1>5, <1>8, RearrangedTwice
<1>11. QED BY <1>1, <1>8, <1>9, <1>10

(* Nodes with different indices are always in order one way or the other.  *)
LEMMA CmpTotal ==
  ASSUME NEW x \in Nodes, NEW y \in Nodes, x.index # y.index
  PROVE  Cmp(x, y) \/ Cmp(y, x)
BY Fields DEF Cmp

LEMMA RearrangedMore ==
  ASSUME NEW h, NEW g, NEW n \in Nat, NEW m \in Nat, n <= m, Rearranged(h, g, n)
  PROVE  Rearranged(h, g, m)
BY DEF Rearranged

LEMMA Removed ==
  ASSUME NEW h \in Seq(Nodes), NEW at \in 1 .. Len(h), HeapUpTo(h, Len(h)),
         NEW n, n = Len(h) - 1, NEW f, f = KeepMaxHeap(Swap(h, at, Len(h)), n, at)
  PROVE  /\ Rearranged(h, f, Len(h)) /\ HeapUpTo(f, n)
         /\ at # Len(h) \/ NoTies(h) => f[Len(h)] = h[at]
<1>1. PICK L, g : L = Len(h) /\ g = Swap(h, at, L)
  OBVIOUS
<1>2. L \in Nat /\ L \in 1 .. L /\ at \in 1 .. L /\ L \in 1 .. Len(h) /\ L \in 0 .. Len(h) /\ n \in Nat /\ n = L - 1
  BY <1>1
<1>3. Rearranged(h, g, L)
  BY ONLY <1>1, <1>2, h \in Seq(Nodes), SwapRearranged
<1>4. HoleAt(h, L, at) /\ Above(h, at)
  <2>1. HeapUpTo(h, L)
    BY <1>1
  <2>2. QED BY ONLY <1>2, <2>1, h \in Seq(Nodes), HoleOpened
<1>5. PICK u : u = SiftUp(g, at)
  OBVIOUS
<1>6. f = SiftDown(u, n, at)
  BY <1>1, <1>5 DEF KeepMaxHeap
<1>7. CASE at = L
  <2>1. g = h
    BY <1>1, <1>7 DEF Swap
  <2>2. Rearranged(h, u, L) /\ HoleAt(u, L, at) /\ Above(u, at)
    BY ONLY <1>2, <1>4, <1>5, <2>1, h \in Seq(Nodes), SiftUpKeeps
  <2>3. u \in Seq(Nodes)
    BY <2>2 DEF Rearranged
  <2>4. at \in Nat /\ at > n
    BY <1>2, <1>7
  <2>5. f = u
    BY ONLY <1>2, <1>6, <2>3, <2>4, SiftDownPast
  <2>6. HeapUpTo(u, n)
    BY <1>2, <1>7, <2>2 DEF HoleAt, HeapUpTo
  <2>7. ASSUME NoTies(h) PROVE u = h
    <3>1. CASE at = 1
      BY <1>5, <2>1, <3>1, SiftUpStays
    <3>2. CASE at # 1
      <4>1. ~Cmp(h[at], h[at \div 2])
        BY <1>4, <3>2 DEF Above
      <4>2. at \div 2 \in 1 .. Len(h) /\ at \in 1 .. Len(h) /\ at # at \div 2
        BY <1>1, <1>2, <3>2
      <4>3. h[at].index # h[at \div 2].index
        BY <2>7, <4>2 DEF NoTies
      <4>4. Cmp(h[at \div 2], h[at])
        BY <4>1, <4>2, <4>3, CmpTotal
      <4>5. QED BY <1>5, <2>1, <4>4, SiftUpStays
    <3>3. QED BY <3>1, <3>2
  <2>8. QED BY <1>1, <1>7, <2>2, <2>5, <2>6, <2>7
<1>8. CASE at # L
  <2>1. /\ g \in Seq(Nodes) /\ n \in 1 .. Len(g) /\ at \in 1 .. n
        /\ g[L] = h[at] /\ \A p \in 1 .. n : p # at => g[p] = h[p]
    <3>1. g \in Seq(Nodes) /\ Len(g) = L
      BY <1>1, <1>3 DEF Rearranged
    <3>2. QED BY <1>1, <1>2, <1>8, <3>1 DEF Swap
  <2>2. HoleAt(g, n, at)
    <3>1. ASSUME NEW i \in 2 .. n, i # at, i \div 2 # at PROVE ~Cmp(g[i], g[i \div 2])
      <4>1. i \in 2 .. L /\ i \in 1 .. n /\ i \div 2 \in 1 .. n
        BY <1>2
      <4>2. QED BY <1>4, <2>1, <3>1, <4>1 DEF HoleAt
    <3>2. ASSUME NEW i \in 2 .. n, i \div 2 = at, at # 1 PROVE ~Cmp(g[i], g[at \div 2])
      <4>1. i \in 2 .. L /\ i \in 1 .. n /\ at \div 2 \in 1 .. n /\ i # at /\ at \div 2 # at
        BY <1>2, <2>1, <3>2
      <4>2. QED BY <1>4, <2>1, <3>2, <4>1 DEF HoleAt
    <3>3. QED BY <3>1, <3>2 DEF HoleAt
  <2>3. Rearranged(g, u, n) /\ HoleAt(u, n, at) /\ Above(u, at)
    BY ONLY <1>5, <2>1, <2>2, SiftUpKeeps
  <2>4. u \in Seq(Nodes) /\ n \in 1 .. Len(u)
    BY <2>1, <2>3 DEF Rearranged
  <2>5. Rearranged(u, f, n) /\ HeapUpTo(f, n)
    BY ONLY <1>6, <2>1, <2>3, <2>4, SiftDownKeeps
  <2>6. Rearranged(g, f, n)
    BY ONLY <2>3, <2>5, RearrangedTwice
  <2>7. Rearranged(g, f, L)
    BY <1>2, <2>6, RearrangedMore
  <2>8. Rearranged(h, f, L)
    BY ONLY <1>3, <2>7, RearrangedTwice
  <2>9. f[L] = h[at]
    <3>1. Len(g) = L /\ L > n /\ L \in 1 .. L
      BY <1>1, <1>2, <1>3 DEF Rearranged
    <3>2. f[L] = g[L]
      BY <2>6, <3>1 DEF Rearranged
    <3>3. QED BY <2>1, <3>2
  <2>10. QED BY <1>1, <2>5, <2>8, <2>9
<1>9. QED BY <1>7, <1>8
LEMMA Appended ==
  ASSUME NEW h \in Seq(Nodes), NEW node \in Nodes, NEW f, f = Append(h, node)
  PROVE  /\ f \in Seq(Nodes) /\ Len(f) = Len(h) + 1
         /\ ToSet(f) = ToSet(h) \cup {node}
         /\ NoTies(f) <=> NoTies(h) /\ \A p \in 1 .. Len(h) : h[p].index # node.index
         /\ TimeSum(f) = TimeSum(h) + node.time
<1>1. PICK L : L = Len(h)
  OBVIOUS
<1>2. /\ f \in Seq(Nodes) /\ Len(f) = L + 1 /\ L \in Nat /\ f[L + 1] = node
      /\ \A p \in 1 .. L : f[p] = h[p]
  BY <1>1
<1>3. 1 .. L + 1 = (1 .. L) \cup {L + 1} /\ L + 1 \notin 1 .. L
  BY <1>2
<1>4. ToSet(f) = ToSet(h) \cup {node}
  <2>1. DOMAIN f = 1 .. L + 1 /\ DOMAIN h = 1 .. L
    BY <1>1, <1>2
  <2>2. ToSet(f) = {f[p] : p \in 1 .. L + 1} /\ ToSet(h) = {h[p] : p \in 1 .. L}
    BY <2>1 DEF ToSet
  <2>3. QED BY <1>2, <1>3, <2>2
<1>5. NoTies(f) <=> NoTies(h) /\ \A p \in 1 .. Len(h) : h[p].index # node.index
  BY <1>1, <1>2, <1>3 DEF NoTies
<1>6. TimeSum(f) = TimeSum(h) + node.time
  <2>1. PICK S, d, e : S = 1 .. L /\ d = TimeOf(h) /\ e = TimeOf(f)
    OBVIOUS
  <2>2. IsFiniteSet(S) /\ L + 1 \notin S
    BY <1>2, <1>3, <2>1, FS_Interval
  <2>3. \A p \in S : e[p] = d[p]
    BY <1>1, <1>2, <2>1 DEF TimeOf
  <2>4. \A p \in S : e[p] \in Int
    <3>1. \A p \in S : f[p] \in Nodes /\ e[p] = f[p].time
      BY <1>2, <2>1 DEF TimeOf
    <3>2. \A y \in Nodes : y.time \in Int
      BY Fields
    <3>3. QED BY <3>1, <3>2
  <2>5. e[L + 1] = node.time /\ node.time \in Int
    BY <1>2, <2>1, Fields DEF TimeOf
  <2>6. \A p \in S : d[p] \in Int
    BY <2>3, <2>4
  <2>7. PICK x : x = L + 1
    OBVIOUS
  <2>8. Total(e, S \cup {x}) = e[x] + Total(e, S)
    <3>1. x \notin S /\ e[x] \in Int
      BY <2>2, <2>5, <2>7
    <3>2. QED BY <2>2, <2>4, <3>1, TotalAdd
  <2>9. Total(e, S) = Total(d, S) /\ Total(d, S) \in Int
    BY <2>2, <2>3, <2>6, TotalSame, TotalType
  <2>10. TimeSum(f) = Total(e, S \cup {x}) /\ TimeSum(h) = Total(d, S)
    BY <1>1, <1>2, <1>3, <2>1, <2>7 DEF TimeSum
  <2>11. QED BY <2>5, <2>7, <2>8, <2>9, <2>10
<1>7. QED BY <1>2, <1>1, <1>4, <1>5, <1>6

LEMMA TakenOut ==
  ASSUME NEW h \in Seq(Nodes), NEW at \in 1 .. Len(h), HeapUpTo(h, Len(h)),
         NEW g, g = TakeOut(h, at)
  PROVE  /\ g \in Seq(Nodes) /\ Len(g) = Len(h) - 1 /\ HeapUpTo(g, Len(g))
         /\ ToSet(g) \subseteq ToSet(h)
         /\ NoTies(h) => /\ NoTies(g) /\ ToSet(g) = ToSet(h) \ {h[at]}
                         /\ TimeSum(g) = TimeSum(h) - h[at].time
<1>1. PICK L, n, f : L = Len(h) /\ n = L - 1 /\ f = KeepMaxHeap(Swap(h, at, Len(h)), n, at)
  OBVIOUS
<1>2. L \in Nat /\ n \in Nat /\ L = n + 1 /\ at \in 1 .. L
  BY <1>1
<1>3. g = SubSeq(f, 1, n)
  BY <1>1 DEF TakeOut
<1>4. /\ Rearranged(h, f, L) /\ HeapUpTo(f, n)
      /\ at # L \/ NoTies(h) => f[L] = h[at]
  BY <1>1, Removed
<1>5. f \in Seq(Nodes) /\ Len(f) = L
  BY <1>1, <1>4 DEF Rearranged
<1>6. /\ g \in Seq(Nodes) /\ Len(g) = n /\ \A p \in 1 .. n : g[p] = f[p]
  BY <1>2, <1>3, <1>5
<1>7. f = Append(g, f[L]) /\ f[L] \in Nodes
  BY <1>2, <1>5, <1>6
<1>8. HeapUpTo(g, n)
  <2>1. \A i \in 2 .. n : i \in 1 .. n /\ i \div 2 \in 1 .. n
    BY <1>2
  <2>2. QED BY <1>4, <1>6, <2>1 DEF HeapUpTo
<1>9. PICK x : x = f[L]
  OBVIOUS
<1>10. /\ ToSet(f) = ToSet(g) \cup {x}
       /\ NoTies(f) <=> NoTies(g) /\ \A p \in 1 .. Len(g) : g[p].index # x.index
       /\ TimeSum(f) = TimeSum(g) + x.time
  <2>1. g \in Seq(Nodes) /\ x \in Nodes /\ f = Append(g, x)
    BY <1>6, <1>7, <1>9
  <2>2. QED BY ONLY <2>1, Appended
<1>11. ToSet(g) \subseteq ToSet(h)
  BY <1>4, <1>10 DEF Rearranged
<1>12. ASSUME NoTies(h)
       PROVE  /\ NoTies(g) /\ ToSet(g) = ToSet(h) \ {h[at]}
              /\ TimeSum(g) = TimeSum(h) - h[at].time
  <2>1. x = h[at] /\ NoTies(g) /\ \A p \in 1 .. Len(g) : g[p].index # x.index
    BY <1>4, <1>9, <1>10, <1>12 DEF Rearranged
  <2>2. x \notin ToSet(g)
    <3>1. DOMAIN g = 1 .. Len(g)
      BY <1>6
    <3>2. QED BY <2>1, <3>1 DEF ToSet
  <2>3. ToSet(h) = ToSet(g) \cup {x} /\ TimeSum(h) = TimeSum(g) + x.time
    BY <1>4, <1>10 DEF Rearranged
  <2>4. TimeSum(g) \in Int /\ x.time \in Int
    <3>1. x.time \in Int
      BY <1>7, <1>9, Fields
    <3>2. \A p \in 1 .. Len(g) : TimeOf(g)[p] \in Int
      <4>1. \A p \in 1 .. Len(g) : g[p] \in Nodes /\ TimeOf(g)[p] = g[p].time
        BY <1>6 DEF TimeOf
      <4>2. QED BY <4>1, Fields
    <3>3. IsFiniteSet(1 .. Len(g))
      BY <1>2, <1>6, FS_Interval
    <3>4. PICK S, e : S = 1 .. Len(g) /\ e = TimeOf(g)
      OBVIOUS
    <3>5. Total(e, S) \in Int
      BY <3>2, <3>3, <3>4, TotalType
    <3>6. QED BY <3>1, <3>4, <3>5 DEF TimeSum
  <2>5. QED BY <2>1, <2>2, <2>3, <2>4
<1>13. QED BY <1>1, <1>2, <1>6, <1>8, <1>11, <1>12
-----------------------------------------------------------------------------
(* Helpers of the list.                                                    *)
LEMMA MinIs ==
  ASSUME NEW S \in SUBSET Nat, S # {}
  PROVE  Min(S) \in S /\ \A y \in S : Min(S) <= y
<1>1. \E x \in S : \A y \in S : x <= y
  BY LeastNumber
<1>2. QED BY <1>1 DEF Min

LEMMA MaxIs ==
  ASSUME NEW n \in Nat, NEW S \in SUBSET (0 .. n), S # {}
  PROVE  Max(S) \in S /\ \A y \in S : y <= Max(S)
<1>1. PICK T : T = {x \in 0 .. n : n - x \in S}
  OBVIOUS
<1>2. T \in SUBSET Nat /\ T # {}
  <2>1. PICK y \in S : TRUE
    OBVIOUS
  <2>2. n - y \in T
    BY <1>1, <2>1
  <2>3. QED BY <1>1, <2>2
<1>3. PICK x \in T : \A y \in T : x <= y
  BY <1>2, LeastNumber
<1>4. n - x \in S /\ \A y \in S : n - y \in T
  BY <1>1, <1>3
<1>5. \A y \in S : y <= n - x
  BY <1>1, <1>3, <1>4
<1>6. \E z \in S : \A y \in S : z >= y
  BY <1>4, <1>5
<1>7. Max(S) \in S /\ \A y \in S : Max(S) >= y
  BY <1>6 DEF Max
<1>8. QED BY <1>7

LEMMA InsertedAt ==
  ASSUME NEW S, NEW l \in Seq(S), NEW at \in 1 .. Len(l) + 1, NEW i \in S,
         NEW r, r = InsertAt(l, at, i)
  PROVE  /\ r \in Seq(S) /\ Len(r) = Len(l) + 1
         /\ \A p \in 1 .. Len(r) : r[p] = IF p < at THEN l[p] ELSE IF p = at THEN i ELSE l[p - 1]
<1>1. PICK a, b : a = SubSeq(l, 1, at - 1) /\ b = SubSeq(l, at, Len(l))
  OBVIOUS
<1>2. a \in Seq(S) /\ Len(a) = at - 1 /\ \A p \in 1 .. at - 1 : a[p] = l[p]
  BY <1>1
<1>3. b \in Seq(S) /\ Len(b) = Len(l) - at + 1 /\ \A p \in 1 .. Len(b) : b[p] = l[at + p - 1]
  BY <1>1
<1>4. r = (a \o <<i>>) \o b
  BY <1>1 DEF InsertAt
<1>5. PICK c : c = a \o <<i>>
  OBVIOUS
<1>6. c \in Seq(S) /\ Len(c) = at /\ c[at] = i /\ \A p \in 1 .. at - 1 : c[p] = l[p]
  BY <1>2, <1>5
<1>7. r \in Seq(S) /\ Len(r) = Len(l) + 1 /\ Len(r) \in Nat
  <2>1. c \in Seq(S) /\ b \in Seq(S)
    BY <1>3, <1>6
  <2>2. r = c \o b
    BY <1>4, <1>5
  <2>3. Len(c \o b) = Len(c) + Len(b) /\ c \o b \in Seq(S)
    BY ONLY <2>1
  <2>4. QED BY <1>3, <1>6, <2>2, <2>3
<1>8. ASSUME NEW p \in 1 .. Len(r)
      PROVE  r[p] = IF p < at THEN l[p] ELSE IF p = at THEN i ELSE l[p - 1]
  <2>1. CASE p <= at
    BY <1>3, <1>4, <1>5, <1>6, <1>7, <2>1
  <2>2. CASE p > at
    <3>1. p - at \in 1 .. Len(b)
      BY <1>3, <1>7, <2>2
    <3>2. r[p] = b[p - at]
      BY SMTT(30), <1>3, <1>4, <1>5, <1>6, <1>7, <2>2, <3>1
    <3>3. QED BY SMTT(30), <1>3, <2>2, <3>1, <3>2
  <2>3. QED BY <2>1, <2>2
<1>9. QED BY <1>7, <1>8

LEMMA RemovedAt ==
  ASSUME NEW S, NEW l \in Seq(S), NEW at \in 1 .. Len(l), NEW r, r = RemoveAt(l, at)
  PROVE  /\ r \in Seq(S) /\ Len(r) = Len(l) - 1
         /\ \A p \in 1 .. Len(r) : r[p] = IF p < at THEN l[p] ELSE l[p + 1]
<1>1. PICK a, b : a = SubSeq(l, 1, at - 1) /\ b = SubSeq(l, at + 1, Len(l))
  OBVIOUS
<1>2. a \in Seq(S) /\ Len(a) = at - 1 /\ \A p \in 1 .. at - 1 : a[p] = l[p]
  BY <1>1
<1>3. b \in Seq(S) /\ Len(b) = Len(l) - at /\ \A p \in 1 .. Len(b) : b[p] = l[at + p]
  BY <1>1
<1>4. r = a \o b
  BY <1>1 DEF RemoveAt
<1>5. r \in Seq(S) /\ Len(r) = Len(l) - 1 /\ Len(r) \in Nat
  BY <1>2, <1>3, <1>4
<1>6. ASSUME NEW p \in 1 .. Len(r) PROVE r[p] = IF p < at THEN l[p] ELSE l[p + 1]
  <2>1. CASE p < at
    BY <1>2, <1>3, <1>4, <1>5, <2>1
  <2>2. CASE p >= at
    <3>1. p - Len(a) \in 1 .. Len(b)
      BY <1>2, <1>3, <1>5, <2>2
    <3>2. r[p] = b[p - Len(a)]
      BY <1>2, <1>3, <1>4, <1>5, <2>2, <3>1
    <3>3. QED BY <1>2, <1>3, <2>2, <3>1, <3>2
  <2>3. QED BY <2>1, <2>2
<1>7. QED BY <1>5, <1>6

LEMMA IndexOfIs ==
  ASSUME NEW l, Len(l) \in Nat, DOMAIN l = 1 .. Len(l), NEW i, i \in ToSet(l)
  PROVE  IndexOf(l, i) \in 1 .. Len(l) /\ l[IndexOf(l, i)] = i
<1>1. PICK I : I = {p \in 1 .. Len(l) : l[p] = i}
  OBVIOUS
<1>2. I # {} /\ I \in SUBSET Nat
  BY <1>1 DEF ToSet
<1>3. IndexOf(l, i) = Min(I)
  BY <1>1, <1>2 DEF IndexOf, SelectInSeq
<1>4. QED BY <1>1, <1>2, <1>3, MinIs
(* A list of heaps in the order of their heads.                            *)
Ordered(l, hs) ==
  /\ l \in Seq(Heaps)
  /\ \A p \in 1 .. Len(l) : hs[l[p]][1] \in Nodes
  /\ \A p, q \in 1 .. Len(l) : p < q => l[p] # l[q] /\ ~Cmp(hs[l[q]][1], hs[l[p]][1])

LEMMA ListInsert ==
  ASSUME NEW l, NEW hs, Ordered(l, hs), NEW i \in Heaps, i \notin ToSet(l), hs[i][1] \in Nodes,
         NEW at \in 1 .. Len(l) + 1,
         \A p \in 1 .. Len(l) : p < at => ~Cmp(hs[i][1], hs[l[p]][1]),
         \A p \in 1 .. Len(l) : p >= at => ~Cmp(hs[l[p]][1], hs[i][1]),
         NEW r, r = InsertAt(l, at, i)
  PROVE  Ordered(r, hs) /\ ToSet(r) = ToSet(l) \cup {i}
<1>1. l \in Seq(Heaps) /\ Len(l) \in Nat
  BY DEF Ordered
<1>2. /\ r \in Seq(Heaps) /\ Len(r) = Len(l) + 1
      /\ \A p \in 1 .. Len(r) : r[p] = IF p < at THEN l[p] ELSE IF p = at THEN i ELSE l[p - 1]
  BY ONLY <1>1, i \in Heaps, at \in 1 .. Len(l) + 1, r = InsertAt(l, at, i), InsertedAt
<1>3. DOMAIN l = 1 .. Len(l) /\ DOMAIN r = 1 .. Len(l) + 1
  BY <1>1, <1>2
<1>4. /\ \A p \in 1 .. Len(l) : p < at => r[p] = l[p]
      /\ \A p \in 1 .. Len(l) : p >= at => r[p + 1] = l[p]
      /\ r[at] = i
  BY <1>1, <1>2
<1>5. \A p \in 1 .. Len(l) + 1 : /\ p = at \/ p < at \/ p > at
                                 /\ p < at => p \in 1 .. Len(l)
                                 /\ p > at => p - 1 \in 1 .. Len(l)
  <2>1. at \in Int /\ at >= 1 /\ at <= Len(l) + 1
    BY <1>1
  <2>2. ASSUME NEW p \in 1 .. Len(l) + 1, p < at PROVE p \in 1 .. Len(l)
    BY <1>1, <2>1, <2>2
  <2>3. ASSUME NEW p \in 1 .. Len(l) + 1, p > at PROVE p - 1 \in 1 .. Len(l)
    BY <1>1, <2>1, <2>3
  <2>4. \A p \in 1 .. Len(l) + 1 : p = at \/ p < at \/ p > at
    BY <2>1
  <2>5. QED BY <2>2, <2>3, <2>4
<1>6. \A p \in 1 .. Len(l) : l[p] # i
  BY <1>3 DEF ToSet
<1>7. ToSet(r) = ToSet(l) \cup {i}
  <2>1. \A p \in 1 .. Len(l) : \E q \in 1 .. Len(l) + 1 : r[q] = l[p]
    <3>1. SUFFICES ASSUME NEW p \in 1 .. Len(l) PROVE \E q \in 1 .. Len(l) + 1 : r[q] = l[p]
      OBVIOUS
    <3>2. CASE p < at
      <4>1. p \in 1 .. Len(l) + 1
        OBVIOUS
      <4>2. QED BY <1>4, <3>2, <4>1
    <3>3. CASE p >= at
      <4>1. p + 1 \in 1 .. Len(l) + 1
        OBVIOUS
      <4>2. QED BY <1>4, <3>3, <4>1
    <3>4. QED BY <3>2, <3>3
  <2>2. \A p \in 1 .. Len(l) + 1 : r[p] = i \/ \E q \in 1 .. Len(l) : r[p] = l[q]
    BY <1>2, <1>5
  <2>3. ToSet(l) = {l[p] : p \in 1 .. Len(l)} /\ ToSet(r) = {r[p] : p \in 1 .. Len(l) + 1}
    BY <1>3 DEF ToSet
  <2>4. at \in 1 .. Len(l) + 1 /\ r[at] = i
    BY <1>4
  <2>5. i \in ToSet(r) /\ \A x \in ToSet(l) : x \in ToSet(r)
    BY ONLY <2>1, <2>3, <2>4
  <2>6. \A x \in ToSet(r) : x = i \/ x \in ToSet(l)
    BY ONLY <2>2, <2>3
  <2>7. QED BY <2>5, <2>6
<1>8. \A p \in 1 .. Len(r) : hs[r[p]][1] \in Nodes
  <2>1. SUFFICES ASSUME NEW p \in 1 .. Len(r) PROVE hs[r[p]][1] \in Nodes
    OBVIOUS
  <2>2. p \in 1 .. Len(l) + 1
    BY <1>2
  <2>3. CASE p = at
    BY <1>4, <2>3
  <2>4. CASE p < at
    BY <1>2, <1>5, <2>2, <2>4 DEF Ordered
  <2>5. CASE p > at
    BY <1>2, <1>5, <2>2, <2>5 DEF Ordered
  <2>6. QED BY <1>5, <2>2, <2>3, <2>4, <2>5
<1>9. ASSUME NEW p \in 1 .. Len(r), NEW q \in 1 .. Len(r), p < q
      PROVE  r[p] # r[q] /\ ~Cmp(hs[r[q]][1], hs[r[p]][1])
  <2>1. p \in 1 .. Len(l) + 1 /\ q \in 1 .. Len(l) + 1
    BY <1>2
  <2>2. CASE p = at
    <3>1. q - 1 \in 1 .. Len(l) /\ q - 1 >= at /\ r[q] = l[q - 1]
      BY <1>2, <1>5, <1>9, <2>1, <2>2
    <3>2. QED BY <1>4, <1>6, <2>2, <3>1
  <2>3. CASE q = at
    <3>1. p \in 1 .. Len(l) /\ p < at /\ r[p] = l[p]
      BY <1>2, <1>5, <1>9, <2>1, <2>3
    <3>2. QED BY <1>4, <1>6, <2>3, <3>1
  <2>4. CASE p # at /\ q # at
    <3>1. PICK a, b \in 1 .. Len(l) : a < b /\ r[p] = l[a] /\ r[q] = l[b]
      <4>1. CASE p < at /\ q < at
        BY <1>2, <1>5, <1>9, <2>1, <4>1
      <4>2. CASE p < at /\ q > at
        <5>1. p \in 1 .. Len(l) /\ q - 1 \in 1 .. Len(l) /\ p < q - 1
          BY <1>5, <1>9, <2>1, <4>2
        <5>2. QED BY <1>2, <4>2, <5>1
      <4>3. CASE p > at /\ q > at
        <5>1. p - 1 \in 1 .. Len(l) /\ q - 1 \in 1 .. Len(l) /\ p - 1 < q - 1
          BY <1>5, <1>9, <2>1, <4>3
        <5>2. r[p] = l[p - 1] /\ r[q] = l[q - 1]
          BY <1>2, <4>3
        <5>3. QED BY <5>1, <5>2
      <4>4. QED BY <1>9, <2>4, <4>1, <4>2, <4>3
    <3>2. QED BY <3>1 DEF Ordered
  <2>5. QED BY <2>2, <2>3, <2>4
<1>10. QED BY <1>2, <1>7, <1>8, <1>9 DEF Ordered

LEMMA ListRemove ==
  ASSUME NEW l, NEW hs, Ordered(l, hs), NEW at \in 1 .. Len(l),
         NEW gs, \A j \in Heaps : j # l[at] => gs[j] = hs[j], NEW r, r = RemoveAt(l, at)
  PROVE  /\ Ordered(r, gs) /\ ToSet(r) = ToSet(l) \ {l[at]} /\ Len(r) = Len(l) - 1
         /\ \A p \in 1 .. Len(r) : r[p] = IF p < at THEN l[p] ELSE l[p + 1]
<1>1. l \in Seq(Heaps) /\ Len(l) \in Nat
  BY DEF Ordered
<1>2. /\ r \in Seq(Heaps) /\ Len(r) = Len(l) - 1
      /\ \A p \in 1 .. Len(r) : r[p] = IF p < at THEN l[p] ELSE l[p + 1]
  BY <1>1, RemovedAt
<1>3. DOMAIN l = 1 .. Len(l) /\ DOMAIN r = 1 .. Len(l) - 1
  BY <1>1, <1>2
<1>4. \A p, q \in 1 .. Len(l) : p # q => l[p] # l[q]
  BY DEF Ordered
<1>5. ASSUME NEW p \in 1 .. Len(r)
      PROVE  \E a \in 1 .. Len(l) : /\ r[p] = l[a] /\ a # at
                                    /\ a = IF p < at THEN p ELSE p + 1
  <2>1. CASE p < at
    BY <1>1, <1>2, <2>1
  <2>2. CASE p >= at
    <3>1. p + 1 \in 1 .. Len(l) /\ p + 1 # at
      BY <1>1, <1>2, <2>2
    <3>2. QED BY <1>2, <2>2, <3>1
  <2>3. QED BY <2>1, <2>2
<1>6. \A p \in 1 .. Len(r) : r[p] # l[at] /\ r[p] \in Heaps /\ gs[r[p]] = hs[r[p]]
  BY <1>2, <1>4, <1>5
<1>7. ToSet(r) = ToSet(l) \ {l[at]}
  <2>1. \A p \in 1 .. Len(l) : p # at => \E q \in 1 .. Len(r) : r[q] = l[p]
    <3>1. SUFFICES ASSUME NEW p \in 1 .. Len(l), p # at PROVE \E q \in 1 .. Len(r) : r[q] = l[p]
      OBVIOUS
    <3>2. CASE p < at
      <4>1. p \in 1 .. Len(r)
        BY <1>1, <1>2, <3>2
      <4>2. QED BY <1>2, <3>2, <4>1
    <3>3. CASE p > at
      <4>1. p - 1 \in 1 .. Len(r) /\ ~(p - 1 < at) /\ p - 1 + 1 = p
        BY <1>1, <1>2, <3>3
      <4>2. QED BY <1>2, <4>1
    <3>4. QED BY <3>1, <3>2, <3>3
  <2>2. ToSet(l) = {l[p] : p \in 1 .. Len(l)} /\ ToSet(r) = {r[p] : p \in 1 .. Len(r)}
    BY <1>2, <1>3 DEF ToSet
  <2>3. \A p \in 1 .. Len(r) : \E q \in 1 .. Len(l) : r[p] = l[q]
    BY <1>5
  <2>4. \A x : x \in ToSet(r) <=> x \in ToSet(l) /\ x # l[at]
    <3>1. ASSUME NEW x, x \in ToSet(r) PROVE x \in ToSet(l) /\ x # l[at]
      BY <1>6, <2>2, <2>3, <3>1
    <3>2. ASSUME NEW x, x \in ToSet(l), x # l[at] PROVE x \in ToSet(r)
      BY <2>1, <2>2, <3>2
    <3>3. QED BY <3>1, <3>2
  <2>5. QED BY <2>4
<1>8. ASSUME NEW p \in 1 .. Len(r), NEW q \in 1 .. Len(r), p < q
      PROVE  r[p] # r[q] /\ ~Cmp(gs[r[q]][1], gs[r[p]][1])
  <2>1. PICK a \in 1 .. Len(l) : r[p] = l[a] /\ a = IF p < at THEN p ELSE p + 1
    BY <1>5
  <2>2. PICK b \in 1 .. Len(l) : r[q] = l[b] /\ b = IF q < at THEN q ELSE q + 1
    BY <1>5
  <2>3. a < b
    BY <1>8, <2>1, <2>2
  <2>4. r[p] # r[q] /\ ~Cmp(hs[r[q]][1], hs[r[p]][1])
    BY <2>1, <2>2, <2>3 DEF Ordered
  <2>5. QED BY <1>6, <2>4
<1>9. \A p \in 1 .. Len(r) : gs[r[p]][1] \in Nodes
  BY <1>5, <1>6 DEF Ordered
<1>10. QED BY <1>2, <1>7, <1>8, <1>9 DEF Ordered
(* The list operations keep the order, each moving the one heap whose head *)
(* changed.                                                                *)
LEMMA HeapInserted ==
  ASSUME NEW l, NEW hs, Ordered(l, hs), NEW i \in Heaps, i \notin ToSet(l), hs[i][1] \in Nodes,
         NEW r, r = InsertHeap(l, hs, i)
  PROVE  Ordered(r, hs) /\ ToSet(r) = ToSet(l) \cup {i}
<1>1. PICK S, at : /\ S = {p \in 1 .. Len(l) : Cmp(hs[i][1], hs[l[p]][1])} \cup {Len(l) + 1}
                   /\ at = Min(S)
  OBVIOUS
<1>2. l \in Seq(Heaps) /\ Len(l) \in Nat /\ \A p \in 1 .. Len(l) : hs[l[p]][1] \in Nodes
  BY DEF Ordered
<1>3. at \in S /\ \A y \in S : at <= y
  <2>1. S \in SUBSET Nat /\ S # {}
    BY <1>1, <1>2
  <2>2. QED BY <1>1, <2>1, MinIs
<1>4. at \in 1 .. Len(l) + 1
  BY <1>1, <1>2, <1>3
<1>5. \A p \in 1 .. Len(l) : p < at => ~Cmp(hs[i][1], hs[l[p]][1])
  BY <1>1, <1>2, <1>3, <1>4
<1>6. ASSUME NEW p \in 1 .. Len(l), p >= at PROVE ~Cmp(hs[l[p]][1], hs[i][1])
  <2>1. at \in 1 .. Len(l) /\ Cmp(hs[i][1], hs[l[at]][1])
    BY <1>1, <1>2, <1>3, <1>4, <1>6
  <2>2. ~Cmp(hs[l[p]][1], hs[l[at]][1])
    <3>1. CASE p = at
      BY <1>2, <3>1, CmpOrder
    <3>2. CASE p > at
      BY <2>1, <3>2 DEF Ordered
    <3>3. QED BY <1>4, <1>6, <3>1, <3>2
  <2>3. ~Cmp(hs[l[at]][1], hs[i][1])
    BY <1>2, <2>1, CmpOrder
  <2>4. hs[l[p]][1] \in Nodes /\ hs[l[at]][1] \in Nodes
    BY <1>2, <2>1
  <2>5. QED BY <2>2, <2>3, <2>4, CmpOrder
<1>7. r = InsertAt(l, at, i)
  BY <1>1 DEF InsertHeap
<1>8. QED BY <1>4, <1>5, <1>6, <1>7, ListInsert

(* Heap i of the list has another head in gs than in hs.                   *)
Changed(l, hs, gs, i) ==
  /\ Ordered(l, hs) /\ i \in ToSet(l)
  /\ \A j \in Heaps : j # i => gs[j] = hs[j]

LEMMA MovedLeft ==
  ASSUME NEW l, NEW hs, NEW gs, NEW i, Changed(l, hs, gs, i), gs[i][1] \in Nodes,
         ~Cmp(hs[i][1], gs[i][1]), NEW r, r = MoveLeft(l, gs, i)
  PROVE  Ordered(r, gs) /\ ToSet(r) = ToSet(l)
<1>1. /\ Ordered(l, hs) /\ l \in Seq(Heaps) /\ Len(l) \in Nat /\ DOMAIN l = 1 .. Len(l)
      /\ \A p \in 1 .. Len(l) : hs[l[p]][1] \in Nodes /\ l[p] \in Heaps
  BY DEF Changed, Ordered
<1>2. PICK at : at = IndexOf(l, i)
  OBVIOUS
<1>3. at \in 1 .. Len(l) /\ l[at] = i /\ i \in Heaps
  BY <1>1, <1>2, IndexOfIs DEF Changed
<1>4. PICK S, m : /\ S = {p \in 1 .. at - 1 : ~Cmp(gs[i][1], gs[l[p]][1])} \cup {0}
                  /\ m = Max(S)
  OBVIOUS
<1>5. m \in S /\ \A y \in S : y <= m
  <2>1. at - 1 \in Nat /\ S \in SUBSET (0 .. at - 1) /\ S # {}
    BY <1>1, <1>3, <1>4
  <2>2. QED BY <1>4, <2>1, MaxIs
<1>6. PICK s : s = RemoveAt(l, at)
  OBVIOUS
<1>7. /\ Ordered(s, gs) /\ ToSet(s) = ToSet(l) \ {i} /\ Len(s) = Len(l) - 1
      /\ \A p \in 1 .. Len(s) : s[p] = IF p < at THEN l[p] ELSE l[p + 1]
  <2>1. \A j \in Heaps : j # l[at] => gs[j] = hs[j]
    BY <1>3 DEF Changed
  <2>2. Ordered(l, hs) /\ at \in 1 .. Len(l)
    BY <1>1, <1>3
  <2>3. /\ Ordered(s, gs) /\ ToSet(s) = ToSet(l) \ {l[at]} /\ Len(s) = Len(l) - 1
        /\ \A p \in 1 .. Len(s) : s[p] = IF p < at THEN l[p] ELSE l[p + 1]
    BY ONLY <1>6, <2>1, <2>2, ListRemove
  <2>4. QED BY <1>3, <2>3
<1>8. r = InsertAt(s, m + 1, i)
  BY <1>2, <1>4, <1>6 DEF MoveLeft
<1>9. m \in 0 .. at - 1 /\ m + 1 \in 1 .. Len(s) + 1
  <2>1. at \in Int /\ 1 <= at /\ at <= Len(l)
    BY <1>1, <1>3
  <2>2. m \in 0 .. at - 1
    BY <1>4, <1>5, <2>1
  <2>3. QED BY <1>1, <1>7, <2>1, <2>2
<1>10. \A p \in 1 .. Len(s) : gs[s[p]][1] \in Nodes
  BY <1>7 DEF Ordered
<1>11. ASSUME NEW p \in 1 .. Len(s), p < m + 1 PROVE ~Cmp(gs[i][1], gs[s[p]][1])
  <2>1. m \in 1 .. Len(s) /\ m < at /\ ~Cmp(gs[i][1], gs[s[m]][1]) /\ p <= m
    <3>1. m # 0 /\ m \in 1 .. Len(s) /\ m < at /\ p <= m
      BY <1>1, <1>3, <1>7, <1>9, <1>11
    <3>2. ~Cmp(gs[i][1], gs[l[m]][1])
      BY <1>4, <1>5, <3>1
    <3>3. s[m] = l[m]
      BY <1>7, <3>1
    <3>4. QED BY <3>1, <3>2, <3>3
  <2>2. p = m \/ ~Cmp(gs[s[m]][1], gs[s[p]][1])
    BY <1>7, <1>9, <1>11, <2>1 DEF Ordered
  <2>3. QED BY <1>10, <2>1, <2>2, CmpOrder
<1>12. ASSUME NEW p \in 1 .. Len(s), p >= m + 1 PROVE ~Cmp(gs[s[p]][1], gs[i][1])
  <2>1. CASE p < at
    <3>1. s[p] = l[p]
      BY <1>7, <2>1
    <3>2. p \in 1 .. at - 1 /\ ~(p <= m)
      BY <1>3, <1>9, <1>12, <2>1
    <3>3. Cmp(gs[i][1], gs[l[p]][1])
      BY <1>4, <1>5, <3>2
    <3>4. QED BY <1>10, <3>1, <3>3, CmpOrder
  <2>2. CASE p >= at
    <3>1. s[p] = l[p + 1] /\ p + 1 \in 1 .. Len(l) /\ p + 1 > at
      BY <1>1, <1>3, <1>7, <2>2
    <3>2. ~Cmp(hs[l[p + 1]][1], hs[i][1]) /\ l[p + 1] # i
      BY <1>1, <1>3, <3>1 DEF Ordered
    <3>3. gs[s[p]] = hs[l[p + 1]]
      BY <1>1, <3>1, <3>2 DEF Changed
    <3>4. hs[i][1] \in Nodes
      BY <1>1, <1>3
    <3>5. QED BY <1>10, <3>2, <3>3, <3>4, CmpOrder
  <2>3. QED BY <1>3, <2>1, <2>2
<1>13. Ordered(r, gs) /\ ToSet(r) = ToSet(s) \cup {i}
  <2>1. i \notin ToSet(s)
    BY <1>7
  <2>2. PICK k : k = m + 1
    OBVIOUS
  <2>3. /\ k \in 1 .. Len(s) + 1 /\ r = InsertAt(s, k, i)
        /\ \A p \in 1 .. Len(s) : p < k => ~Cmp(gs[i][1], gs[s[p]][1])
        /\ \A p \in 1 .. Len(s) : p >= k => ~Cmp(gs[s[p]][1], gs[i][1])
    BY <1>8, <1>9, <1>11, <1>12, <2>2
  <2>4. i \in Heaps /\ gs[i][1] \in Nodes
    BY <1>3
  <2>5. QED BY ONLY <1>7, <2>1, <2>3, <2>4, ListInsert
<1>14. QED BY <1>7, <1>13 DEF Changed
LEMMA Reordered ==
  ASSUME NEW l, NEW hs, NEW gs, NEW i, Changed(l, hs, gs, i),
         gs[i] # <<>> => gs[i][1] \in Nodes /\ ~Cmp(gs[i][1], hs[i][1]),
         NEW r, r = ReorderAfterDel(l, gs, i)
  PROVE  Ordered(r, gs) /\ ToSet(r) = IF gs[i] = <<>> THEN ToSet(l) \ {i} ELSE ToSet(l)
<1>1. /\ Ordered(l, hs) /\ l \in Seq(Heaps) /\ Len(l) \in Nat /\ DOMAIN l = 1 .. Len(l)
      /\ \A p \in 1 .. Len(l) : hs[l[p]][1] \in Nodes /\ l[p] \in Heaps
  BY DEF Changed, Ordered
<1>2. PICK at : at = IndexOf(l, i)
  OBVIOUS
<1>3. at \in 1 .. Len(l) /\ l[at] = i /\ i \in Heaps
  BY <1>1, <1>2, IndexOfIs DEF Changed
<1>4. PICK S, m : /\ S = {p \in at + 1 .. Len(l) : ~Cmp(gs[l[p]][1], gs[i][1])} \cup {Len(l) + 1}
                  /\ m = Min(S)
  OBVIOUS
<1>5. m \in S /\ \A y \in S : m <= y
  <2>1. S \in SUBSET Nat /\ S # {}
    BY <1>1, <1>3, <1>4
  <2>2. QED BY <1>4, <2>1, MinIs
<1>6. PICK s : s = RemoveAt(l, at)
  OBVIOUS
<1>7. /\ Ordered(s, gs) /\ ToSet(s) = ToSet(l) \ {i} /\ Len(s) = Len(l) - 1
      /\ \A p \in 1 .. Len(s) : s[p] = IF p < at THEN l[p] ELSE l[p + 1]
  <2>1. \A j \in Heaps : j # l[at] => gs[j] = hs[j]
    BY <1>3 DEF Changed
  <2>2. Ordered(l, hs) /\ at \in 1 .. Len(l)
    BY <1>1, <1>3
  <2>3. /\ Ordered(s, gs) /\ ToSet(s) = ToSet(l) \ {l[at]} /\ Len(s) = Len(l) - 1
        /\ \A p \in 1 .. Len(s) : s[p] = IF p < at THEN l[p] ELSE l[p + 1]
    BY ONLY <1>6, <2>1, <2>2, ListRemove
  <2>4. QED BY <1>3, <2>3
<1>8. CASE gs[i] = <<>>
  <2>1. r = s
    BY <1>2, <1>6, <1>8 DEF ReorderAfterDel
  <2>2. QED BY <1>7, <1>8, <2>1
<1>9. CASE gs[i] # <<>>
  <2>1. r = InsertAt(s, m - 1, i)
    BY <1>2, <1>4, <1>6, <1>9 DEF ReorderAfterDel
  <2>2. PICK k : k = m - 1
    OBVIOUS
  <2>3. k \in at .. Len(l) /\ k \in 1 .. Len(s) + 1 /\ m = k + 1
    <3>1. at \in Int /\ 1 <= at /\ at <= Len(l)
      BY <1>1, <1>3
    <3>2. m \in at + 1 .. Len(l) + 1
      BY <1>1, <1>4, <1>5, <3>1
    <3>3. QED BY <1>1, <1>7, <2>2, <3>1, <3>2
  <2>4. \A p \in 1 .. Len(s) : gs[s[p]][1] \in Nodes
    BY <1>7 DEF Ordered
  <2>5. gs[i][1] \in Nodes /\ hs[i][1] \in Nodes /\ ~Cmp(gs[i][1], hs[i][1])
    BY <1>1, <1>3, <1>9
  <2>6. ASSUME NEW p \in 1 .. Len(s), p < k PROVE ~Cmp(gs[i][1], gs[s[p]][1])
    <3>1. CASE p < at
      <4>1. s[p] = l[p] /\ p \in 1 .. Len(l)
        BY <1>1, <1>7, <3>1
      <4>2. ~Cmp(hs[i][1], hs[l[p]][1]) /\ l[p] # i
        BY <1>1, <1>3, <3>1, <4>1 DEF Ordered
      <4>3. gs[s[p]] = hs[l[p]]
        BY <1>1, <4>1, <4>2 DEF Changed
      <4>4. QED BY <2>4, <2>5, <4>2, <4>3, CmpOrder
    <3>2. CASE p >= at
      <4>1. s[p] = l[p + 1] /\ p + 1 \in at + 1 .. Len(l) /\ p + 1 < m
        BY <1>1, <1>3, <1>7, <2>3, <2>6, <3>2
      <4>2. p + 1 \notin S
        BY <1>5, <4>1, <2>3
      <4>3. Cmp(gs[l[p + 1]][1], gs[i][1])
        BY <1>4, <4>1, <4>2
      <4>4. QED BY <2>4, <2>5, <4>1, <4>3, CmpOrder
    <3>3. QED BY <1>3, <3>1, <3>2
  <2>7. ASSUME NEW p \in 1 .. Len(s), p >= k PROVE ~Cmp(gs[s[p]][1], gs[i][1])
    <3>1. k \in 1 .. Len(s) /\ m \in at + 1 .. Len(l) /\ s[k] = l[m]
      BY <1>1, <1>3, <1>7, <2>3, <2>7
    <3>2. ~Cmp(gs[s[k]][1], gs[i][1])
      <4>1. m # Len(l) + 1
        BY <1>1, <3>1
      <4>2. ~Cmp(gs[l[m]][1], gs[i][1])
        BY <1>4, <1>5, <4>1
      <4>3. QED BY <3>1, <4>2
    <3>3. p = k \/ ~Cmp(gs[s[p]][1], gs[s[k]][1])
      BY <1>7, <2>7, <3>1 DEF Ordered
    <3>4. QED BY <2>4, <2>5, <3>1, <3>2, <3>3, CmpOrder
  <2>8. Ordered(r, gs) /\ ToSet(r) = ToSet(s) \cup {i}
    <3>1. i \notin ToSet(s) /\ i \in Heaps /\ gs[i][1] \in Nodes /\ r = InsertAt(s, k, i)
      BY <1>3, <1>7, <2>1, <2>2, <2>5
    <3>2. /\ \A p \in 1 .. Len(s) : p < k => ~Cmp(gs[i][1], gs[s[p]][1])
          /\ \A p \in 1 .. Len(s) : p >= k => ~Cmp(gs[s[p]][1], gs[i][1])
      BY <2>6, <2>7
    <3>3. QED BY ONLY <1>7, <2>3, <3>1, <3>2, ListInsert
  <2>9. QED BY <1>7, <1>9, <2>8 DEF Changed
<1>10. QED BY <1>8, <1>9

(* The list that is left by a clean of some heaps.                         *)
LEMMA WithoutLoop ==
  ASSUME NEW l, NEW hit, Len(l) \in Nat
  PROVE  \E kept : /\ kept[0] = <<>>
                   /\ \A p \in 1 .. Len(l) : kept[p] = IF l[p] \in hit THEN kept[p - 1]
                                                       ELSE Append(kept[p - 1], l[p])
                   /\ Without(l, hit) = kept[Len(l)]
<1> DEFINE Body(s, p) == IF p = 0 THEN <<>>
                         ELSE IF l[p] \in hit THEN s[p - 1] ELSE Append(s[p - 1], l[p])
           N == {m \in Nat : \E s : s = [p \in 0 .. m |-> Body(s, p)]}
<1>1. 0 \in N
  <2> DEFINE s == [p \in 0 .. 0 |-> <<>>]
  <2>1. s = [p \in 0 .. 0 |-> Body(s, p)]
    OBVIOUS
  <2> HIDE DEF s
  <2>2. QED BY <2>1
<1>2. ASSUME NEW m \in Nat, m \in N PROVE m + 1 \in N
  <2>1. PICK s : s = [p \in 0 .. m |-> Body(s, p)]
    BY <1>2
  <2> DEFINE t == [p \in 0 .. m + 1 |-> Body(s, p)]
  <2>2. \A p \in 0 .. m : t[p] = s[p]
    <3>1. \A p \in 0 .. m : s[p] = Body(s, p)
      BY <2>1
    <3> HIDE DEF Body
    <3>2. QED BY <3>1
  <2>3. \A p \in 0 .. m + 1 : Body(s, p) = Body(t, p)
    <3> HIDE DEF t
    <3>1. QED BY <2>2
  <2> HIDE DEF Body
  <2>4. t = [p \in 0 .. m + 1 |-> Body(t, p)]
    BY <2>3
  <2> HIDE DEF t
  <2>5. \E s2 : s2 = [p \in 0 .. m + 1 |-> Body(s2, p)]
    BY <2>4
  <2>6. QED BY <2>5
<1> HIDE DEF N
<1>3. Len(l) \in N
  BY <1>1, <1>2, NaturalInduction
<1> DEFINE L == CHOOSE s : s = [p \in 0 .. Len(l) |-> Body(s, p)]
<1>4. L = [p \in 0 .. Len(l) |-> Body(L, p)]
  <2>1. \E s : s = [p \in 0 .. Len(l) |-> Body(s, p)]
    BY <1>3 DEF N
  <2> HIDE DEF Body
  <2>2. QED BY <2>1
<1>5. Without(l, hit) = L[Len(l)]
  BY DEF Without
<1> HIDE DEF L
<1>6. L[0] = <<>>
  BY <1>4
<1>7. ASSUME NEW p \in 1 .. Len(l)
      PROVE  L[p] = IF l[p] \in hit THEN L[p - 1] ELSE Append(L[p - 1], l[p])
  <2>1. p \in 0 .. Len(l) /\ p # 0
    BY <1>7
  <2>2. L[p] = Body(L, p)
    BY <1>4, <2>1
  <2>3. QED BY <2>1, <2>2
<1>8. QED BY <1>5, <1>6, <1>7
LEMMA OrderedSame ==
  ASSUME NEW l, NEW hs, NEW gs, Ordered(l, hs), \A p \in 1 .. Len(l) : gs[l[p]][1] = hs[l[p]][1]
  PROVE  Ordered(l, gs)
BY DEF Ordered

LEMMA OrderedAppend ==
  ASSUME NEW l, NEW hs, Ordered(l, hs), NEW i \in Heaps, hs[i][1] \in Nodes,
         \A p \in 1 .. Len(l) : l[p] # i /\ ~Cmp(hs[i][1], hs[l[p]][1]),
         NEW r, r = Append(l, i)
  PROVE  Ordered(r, hs) /\ ToSet(r) = ToSet(l) \cup {i}
<1>1. PICK n : n = Len(l)
  OBVIOUS
<1>2. l \in Seq(Heaps) /\ n \in Nat /\ DOMAIN l = 1 .. n
  BY <1>1 DEF Ordered
<1>3. /\ r \in Seq(Heaps) /\ Len(r) = n + 1 /\ r[n + 1] = i
      /\ \A p \in 1 .. n : r[p] = l[p]
  BY <1>1, <1>2
<1>4. 1 .. n + 1 = (1 .. n) \cup {n + 1} /\ DOMAIN r = 1 .. n + 1
  BY <1>2, <1>3
<1>5. ToSet(r) = ToSet(l) \cup {i}
  <2>1. ToSet(r) = {r[p] : p \in 1 .. n + 1} /\ ToSet(l) = {l[p] : p \in 1 .. n}
    BY <1>2, <1>4 DEF ToSet
  <2>2. QED BY <1>3, <1>4, <2>1
<1>6. \A p \in 1 .. Len(r) : hs[r[p]][1] \in Nodes
  BY <1>1, <1>3, <1>4 DEF Ordered
<1>7. ASSUME NEW p \in 1 .. Len(r), NEW q \in 1 .. Len(r), p < q
      PROVE  r[p] # r[q] /\ ~Cmp(hs[r[q]][1], hs[r[p]][1])
  <2>1. p \in 1 .. n /\ (q \in 1 .. n \/ q = n + 1)
    BY <1>2, <1>3, <1>7
  <2>2. CASE q = n + 1
    BY <1>1, <1>3, <2>1, <2>2
  <2>3. CASE q \in 1 .. n
    BY <1>1, <1>3, <1>7, <2>1, <2>3 DEF Ordered
  <2>4. QED BY <2>1, <2>2, <2>3
<1>8. QED BY <1>3, <1>5, <1>6, <1>7 DEF Ordered

LEMMA WithoutKeeps ==
  ASSUME NEW l, NEW hs, Ordered(l, hs), NEW hit, NEW r, r = Without(l, hit),
         NEW gs, \A j \in Heaps : j \notin hit => gs[j] = hs[j]
  PROVE  Ordered(r, gs) /\ ToSet(r) = ToSet(l) \ hit
<1>1. l \in Seq(Heaps) /\ Len(l) \in Nat /\ DOMAIN l = 1 .. Len(l)
  BY DEF Ordered
<1>2. PICK kept : /\ kept[0] = <<>>
                  /\ \A p \in 1 .. Len(l) : kept[p] = IF l[p] \in hit THEN kept[p - 1]
                                                      ELSE Append(kept[p - 1], l[p])
                  /\ r = kept[Len(l)]
  BY <1>1, WithoutLoop
<1> DEFINE Good(p) == Ordered(kept[p], gs) /\ ToSet(kept[p]) = {l[q] : q \in 1 .. p} \ hit
           N == {p \in Nat : p <= Len(l) => Good(p)}
<1>3. 0 \in N
  <2>1. kept[0] \in Seq(Heaps) /\ Len(kept[0]) = 0 /\ DOMAIN kept[0] = {} /\ 1 .. 0 = {}
    BY <1>2
  <2>2. QED BY <2>1 DEF Ordered, ToSet
<1>4. ASSUME NEW m \in Nat, m \in N PROVE m + 1 \in N
  <2>1. SUFFICES ASSUME m + 1 <= Len(l) PROVE Good(m + 1)
    OBVIOUS
  <2>2. PICK k, i, p : k = kept[m] /\ i = l[m + 1] /\ p = m + 1
    OBVIOUS
  <2>3. Ordered(k, gs) /\ ToSet(k) = {l[q] : q \in 1 .. m} \ hit
    BY <1>4, <2>1, <2>2
  <2>4. p \in 1 .. Len(l) /\ p - 1 = m /\ i = l[p] /\ i \in Heaps /\ 1 .. p = (1 .. m) \cup {p}
    BY <1>1, <2>1, <2>2
  <2>5. kept[p] = IF i \in hit THEN k ELSE Append(k, i)
    BY <1>2, <2>2, <2>4
  <2>6. {l[q] : q \in 1 .. p} = {l[q] : q \in 1 .. m} \cup {i}
    BY <2>4
  <2>7. CASE i \in hit
    BY <2>2, <2>3, <2>5, <2>6, <2>7
  <2>8. CASE i \notin hit
    <3>1. gs[i] = hs[i] /\ gs[i][1] \in Nodes
      BY <2>4, <2>8 DEF Ordered
    <3>2. ASSUME NEW a \in 1 .. Len(k) PROVE k[a] # i /\ ~Cmp(gs[i][1], gs[k[a]][1])
      <4>1. k \in Seq(Heaps) /\ k[a] \in Heaps /\ k[a] \in ToSet(k)
        BY <2>3 DEF Ordered, ToSet
      <4>2. PICK q \in 1 .. m : k[a] = l[q] /\ k[a] \notin hit
        BY <2>3, <4>1
      <4>3. q \in 1 .. Len(l) /\ q < p
        BY <2>4
      <4>4. l[q] # l[p] /\ ~Cmp(hs[l[p]][1], hs[l[q]][1])
        BY <2>4, <4>3 DEF Ordered
      <4>5. gs[k[a]] = hs[l[q]]
        BY <4>1, <4>2
      <4>6. QED BY <2>4, <3>1, <4>2, <4>4, <4>5
    <3>3. PICK e : e = kept[p]
      OBVIOUS
    <3>4. e = Append(k, i)
      BY <2>5, <2>8, <3>3
    <3>5. i \in Heaps
      BY <2>4
    <3>6. Ordered(e, gs) /\ ToSet(e) = ToSet(k) \cup {i}
      BY ONLY <2>3, <3>1, <3>2, <3>4, <3>5, OrderedAppend
    <3>7. ToSet(e) = {l[q] : q \in 1 .. p} \ hit
      BY <2>3, <2>6, <2>8, <3>6
    <3>8. QED BY <2>2, <3>3, <3>6, <3>7
  <2>9. QED BY <2>7, <2>8
<1>5. Len(l) \in N
  <2> HIDE DEF N
  <2>1. QED BY <1>1, <1>3, <1>4, NaturalInduction
<1>6. ToSet(l) = {l[q] : q \in 1 .. Len(l)}
  BY <1>1 DEF ToSet
<1>7. QED BY <1>1, <1>2, <1>5, <1>6

-----------------------------------------------------------------------------
(* A kind has its heap within the array.                                   *)
LEMMA QueueIdType == \A k \in Kinds : QueueId(k[1], k[2]) \in Heaps
<1>1. SUFFICES ASSUME NEW k \in Kinds PROVE QueueId(k[1], k[2]) \in Heaps
  OBVIOUS
<1>2. PICK N, c, s : N = NCores /\ c = k[1] /\ s = k[2]
  OBVIOUS
<1>3. N \in Nat /\ c \in Nat /\ s \in Nat /\ c >= 1 /\ c + s <= N
  BY <1>2, QueueAssumption DEF Kinds, Cores
<1>4. PICK X, Y : X = (2 * N - c + 2) * (c - 1) /\ Y = (N + 1) * N
  OBVIOUS
<1>5. X \in Int /\ Y \in Int /\ X >= 0 /\ X + 2 * s <= Y - 2
  <2>1. PICK M : M = N - c
    OBVIOUS
  <2>2. M \in Nat /\ s <= M /\ N = c + M
    BY <1>3, <2>1
  <2>3. Y - 2 - X - 2 * M = M * M + M
    BY <1>3, <1>4, <2>2
  <2>4. M * M >= 0
    BY <2>2
  <2>5. X = (c + 2 * M + 2) * (c - 1)
    BY <1>3, <1>4, <2>2
  <2>6. X \in Nat
    BY <1>3, <2>2, <2>5
  <2>7. Y \in Int
    BY <1>3, <1>4
  <2>8. QED BY <1>3, <2>2, <2>3, <2>4, <2>6, <2>7
<1>6. (X \div 2) + s \in 0 .. (Y \div 2) - 1
  BY <1>3, <1>5
<1>7. QED BY <1>2, <1>4, <1>6 DEF QueueId, Heaps, HeapCount
-----------------------------------------------------------------------------
(* The heaps and the list, whatever the indices are: part of what every    *)
(* step keeps.                                                             *)
Ranked(hs, l) ==
  /\ hs \in [Heaps -> Seq(Nodes)]
  /\ \A i \in Heaps : HeapUpTo(hs[i], Len(hs[i]))
  /\ Ordered(l, hs)
  /\ \A i \in Heaps : i \in ToSet(l) <=> hs[i] # <<>>

LEMMA RankedAt ==
  ASSUME NEW hs, NEW l, Ranked(hs, l), NEW p \in 1 .. Len(l)
  PROVE  /\ l[p] \in Heaps /\ l[p] \in ToSet(l) /\ hs[l[p]] \in Seq(Nodes)
         /\ Len(hs[l[p]]) \in Nat /\ Len(hs[l[p]]) >= 1 /\ hs[l[p]][1] \in Nodes
<1>1. l \in Seq(Heaps) /\ DOMAIN l = 1 .. Len(l)
  BY DEF Ranked, Ordered
<1>2. l[p] \in Heaps /\ l[p] \in ToSet(l)
  BY <1>1 DEF ToSet
<1>3. hs[l[p]] \in Seq(Nodes) /\ hs[l[p]] # <<>>
  BY <1>2 DEF Ranked
<1>4. QED BY <1>2, <1>3

LEMMA RankedFirst ==
  ASSUME NEW hs, NEW l, Ranked(hs, l), NEW i \in ToSet(l)
  PROVE  i \in Heaps /\ hs[i] \in Seq(Nodes) /\ Len(hs[i]) >= 1 /\ hs[i][1] \in Nodes
<1>1. PICK p \in 1 .. Len(l) : i = l[p]
  <2>1. DOMAIN l = 1 .. Len(l)
    BY DEF Ranked, Ordered
  <2>2. QED BY <2>1 DEF ToSet
<1>2. QED BY <1>1, RankedAt

(* A node leaves a heap, and the heap its place in the list.               *)
LEMMA OneLess ==
  ASSUME NEW hs, NEW l, Ranked(hs, l), NEW i \in ToSet(l), NEW at \in 1 .. Len(hs[i]),
         NEW gs, gs = [hs EXCEPT ![i] = TakeOut(@, at)], NEW r, r = ReorderAfterDel(l, gs, i)
  PROVE  Ranked(gs, r)
<1>1. i \in Heaps /\ hs[i] \in Seq(Nodes) /\ Len(hs[i]) >= 1 /\ hs[i][1] \in Nodes
  BY RankedFirst
<1>2. PICK h, g : h = hs[i] /\ g = TakeOut(h, at)
  OBVIOUS
<1>3. h \in Seq(Nodes) /\ at \in 1 .. Len(h) /\ HeapUpTo(h, Len(h)) /\ Len(h) >= 1 /\ Len(h) \in Nat
  BY <1>1, <1>2 DEF Ranked
<1>4. /\ g \in Seq(Nodes) /\ Len(g) = Len(h) - 1 /\ HeapUpTo(g, Len(g))
      /\ ToSet(g) \subseteq ToSet(h)
  BY ONLY <1>2, <1>3, TakenOut
<1>5. gs[i] = g /\ \A j \in Heaps : j # i => gs[j] = hs[j]
  BY <1>1, <1>2 DEF Ranked
<1>6. gs \in [Heaps -> Seq(Nodes)] /\ \A j \in Heaps : HeapUpTo(gs[j], Len(gs[j]))
  BY <1>1, <1>4, <1>5 DEF Ranked
<1>7. ASSUME g # <<>> PROVE g[1] \in Nodes /\ ~Cmp(g[1], h[1])
  <2>1. 1 \in DOMAIN g /\ g[1] \in Nodes
    BY <1>4, <1>7
  <2>2. g[1] \in ToSet(h)
    BY <1>4, <2>1 DEF ToSet
  <2>3. PICK p \in 1 .. Len(h) : g[1] = h[p]
    BY <1>3, <2>2 DEF ToSet
  <2>4. Len(h) \in 1 .. Len(h)
    BY <1>3
  <2>5. QED BY <1>3, <2>1, <2>3, <2>4, RootBest
<1>8. Changed(l, hs, gs, i)
  BY <1>5 DEF Changed, Ranked
<1>9. Ordered(r, gs) /\ ToSet(r) = IF gs[i] = <<>> THEN ToSet(l) \ {i} ELSE ToSet(l)
  <2>1. gs[i] # <<>> => gs[i][1] \in Nodes /\ ~Cmp(gs[i][1], hs[i][1])
    BY <1>2, <1>5, <1>7
  <2>2. r = ReorderAfterDel(l, gs, i)
    OBVIOUS
  <2>3. QED BY ONLY <1>8, <2>1, <2>2, Reordered
<1>10. \A j \in Heaps : j \in ToSet(r) <=> gs[j] # <<>>
  <2>1. ASSUME NEW j \in Heaps, j # i PROVE j \in ToSet(r) <=> gs[j] # <<>>
    BY <1>5, <1>9, <2>1 DEF Ranked
  <2>2. i \in ToSet(r) <=> gs[i] # <<>>
    BY <1>9
  <2>3. QED BY <2>1, <2>2
<1>11. QED BY <1>6, <1>9, <1>10 DEF Ranked

(* A node enters a heap, before the indices are reset.                     *)
LEMMA OneMore ==
  ASSUME NEW hs, NEW l, Ranked(hs, l), NEW i \in Heaps, NEW node \in Nodes,
         NEW n, n = Len(hs[i]) + 1,
         NEW gs, gs = [hs EXCEPT ![i] = KeepMaxHeap(Append(@, node), n, n)],
         NEW r, r = IF n = 1 THEN InsertHeap(l, gs, i) ELSE MoveLeft(l, gs, i)
  PROVE  Ranked(gs, r)
<1>1. PICK h, g : h = hs[i] /\ g = KeepMaxHeap(Append(h, node), n, n)
  OBVIOUS
<1>2. h \in Seq(Nodes) /\ HeapUpTo(h, Len(h)) /\ n = Len(h) + 1 /\ Len(h) \in Nat
  BY <1>1 DEF Ranked
<1>3. PICK f : f = Append(h, node)
  OBVIOUS
<1>4. Rearranged(f, g, n) /\ HeapUpTo(g, n)
  BY <1>1, <1>2, <1>3, Written
<1>5. f \in Seq(Nodes) /\ Len(f) = n /\ ToSet(f) = ToSet(h) \cup {node}
  <2>1. f \in Seq(Nodes) /\ Len(f) = Len(h) + 1 /\ ToSet(f) = ToSet(h) \cup {node}
    BY ONLY <1>2, <1>3, node \in Nodes, Appended
  <2>2. QED BY <1>2, <2>1
<1>6. /\ g \in Seq(Nodes) /\ Len(g) = n /\ HeapUpTo(g, Len(g)) /\ n \in Nat /\ n >= 1
      /\ ToSet(g) = ToSet(h) \cup {node}
  BY <1>2, <1>4, <1>5 DEF Rearranged
<1>7. gs[i] = g /\ \A j \in Heaps : j # i => gs[j] = hs[j]
  BY <1>1 DEF Ranked
<1>8. gs \in [Heaps -> Seq(Nodes)] /\ \A j \in Heaps : HeapUpTo(gs[j], Len(gs[j]))
  BY <1>6, <1>7 DEF Ranked
<1>9. g[1] \in Nodes /\ g # <<>>
  BY <1>6
<1>10. Ordered(r, gs) /\ ToSet(r) = ToSet(l) \cup {i}
  <2>1. CASE n = 1
    <3>1. i \notin ToSet(l)
      <4>1. h = <<>>
        BY <1>2, <2>1
      <4>2. QED BY <1>1, <4>1 DEF Ranked
    <3>2. \A p \in 1 .. Len(l) : gs[l[p]] = hs[l[p]]
      <4>1. \A p \in 1 .. Len(l) : l[p] \in Heaps /\ l[p] # i
        BY <3>1, RankedAt
      <4>2. QED BY <1>7, <4>1
    <3>3. Ordered(l, gs)
      BY <3>2, OrderedSame DEF Ranked
    <3>4. r = InsertHeap(l, gs, i) /\ gs[i][1] \in Nodes
      BY <1>7, <1>9, <2>1
    <3>5. QED BY ONLY <3>1, <3>3, <3>4, i \in Heaps, HeapInserted
  <2>2. CASE n # 1
    <3>1. Len(h) >= 1 /\ h # <<>>
      BY <1>2, <2>2
    <3>2. i \in ToSet(l)
      BY <1>1, <3>1 DEF Ranked
    <3>3. Changed(l, hs, gs, i)
      BY <1>7, <3>2 DEF Changed, Ranked
    <3>4. h[1] \in ToSet(g)
      <4>1. 1 \in DOMAIN h
        BY <1>2, <3>1
      <4>2. QED BY <1>6, <4>1 DEF ToSet
    <3>5. PICK p \in 1 .. Len(g) : h[1] = g[p]
      BY <1>6, <3>4 DEF ToSet
    <3>6. ~Cmp(h[1], g[1])
      <4>1. Len(g) \in 1 .. Len(g)
        BY <1>6
      <4>2. QED BY <1>6, <3>5, <4>1, RootBest
    <3>7. r = MoveLeft(l, gs, i) /\ gs[i][1] \in Nodes /\ ~Cmp(hs[i][1], gs[i][1])
      BY <1>1, <1>7, <1>9, <2>2, <3>6
    <3>8. Ordered(r, gs) /\ ToSet(r) = ToSet(l)
      BY ONLY <3>3, <3>7, MovedLeft
    <3>9. QED BY <3>2, <3>8
  <2>3. QED BY <2>1, <2>2
<1>11. \A j \in Heaps : j \in ToSet(r) <=> gs[j] # <<>>
  BY <1>7, <1>9, <1>10 DEF Ranked
<1>12. QED BY <1>8, <1>10, <1>11 DEF Ranked

(* Resetting all indices makes ties, but no node better than another that  *)
(* it was not better than before.                                          *)
LEMMA IndicesReset ==
  ASSUME NEW hs, NEW l, Ranked(hs, l) PROVE Ranked(ResetIndices(hs), l)
<1>1. PICK gs : gs = ResetIndices(hs)
  OBVIOUS
<1>2. ASSUME NEW i \in Heaps
      PROVE  /\ gs[i] \in Seq(Nodes) /\ Len(gs[i]) = Len(hs[i]) /\ (gs[i] = <<>> <=> hs[i] = <<>>)
             /\ \A p \in 1 .. Len(hs[i]) : gs[i][p] = [hs[i][p] EXCEPT !.index = 0]
  <2>1. hs[i] \in Seq(Nodes) /\ DOMAIN hs[i] = 1 .. Len(hs[i]) /\ Len(hs[i]) \in Nat
    BY DEF Ranked
  <2>2. gs[i] = [p \in 1 .. Len(hs[i]) |-> [hs[i][p] EXCEPT !.index = 0]]
    BY <1>1, <2>1 DEF ResetIndices
  <2>3. 0 \in 0 .. INDEX_MOD - 1
    BY QueueAssumption
  <2>4. \A p \in 1 .. Len(hs[i]) : [hs[i][p] EXCEPT !.index = 0] \in Nodes
    <3>1. \A x \in Nodes : [x EXCEPT !.index = 0] \in Nodes
      BY <2>3 DEF Nodes
    <3>2. \A p \in 1 .. Len(hs[i]) : hs[i][p] \in Nodes
      BY <2>1
    <3>3. QED BY <3>1, <3>2
  <2>5. QED BY <2>1, <2>2, <2>4
<1>3. \A x, y \in Nodes : ~Cmp(x, y) => ~Cmp([x EXCEPT !.index = 0], [y EXCEPT !.index = 0])
  <2>1. SUFFICES ASSUME NEW x \in Nodes, NEW y \in Nodes, ~Cmp(x, y)
                 PROVE  ~Cmp([x EXCEPT !.index = 0], [y EXCEPT !.index = 0])
    OBVIOUS
  <2>2. PICK a, b : a = [x EXCEPT !.index = 0] /\ b = [y EXCEPT !.index = 0]
    OBVIOUS
  <2>3. a.priority = x.priority /\ b.priority = y.priority /\ a.index = 0 /\ b.index = 0
    BY <2>2 DEF Nodes
  <2>4. QED BY <2>1, <2>2, <2>3 DEF Cmp
<1>4. ASSUME NEW i \in Heaps PROVE HeapUpTo(gs[i], Len(gs[i]))
  <2>1. hs[i] \in Seq(Nodes) /\ HeapUpTo(hs[i], Len(hs[i]))
    BY DEF Ranked
  <2>2. ASSUME NEW p \in 2 .. Len(hs[i]) PROVE ~Cmp(gs[i][p], gs[i][p \div 2])
    <3>1. p \in 1 .. Len(hs[i]) /\ p \div 2 \in 1 .. Len(hs[i])
      BY <2>1
    <3>2. hs[i][p] \in Nodes /\ hs[i][p \div 2] \in Nodes /\ ~Cmp(hs[i][p], hs[i][p \div 2])
      BY <2>1, <3>1 DEF HeapUpTo
    <3>3. QED BY <1>2, <1>3, <3>1, <3>2
  <2>3. QED BY <1>2, <2>2 DEF HeapUpTo
<1>5. \A p \in 1 .. Len(l) : /\ l[p] \in Heaps /\ hs[l[p]][1] \in Nodes
                             /\ gs[l[p]][1] = [hs[l[p]][1] EXCEPT !.index = 0]
                             /\ gs[l[p]][1] \in Nodes
  <2>1. SUFFICES ASSUME NEW p \in 1 .. Len(l)
                 PROVE  /\ l[p] \in Heaps /\ hs[l[p]][1] \in Nodes
                        /\ gs[l[p]][1] = [hs[l[p]][1] EXCEPT !.index = 0]
                        /\ gs[l[p]][1] \in Nodes
    OBVIOUS
  <2>2. l[p] \in Heaps /\ Len(hs[l[p]]) >= 1 /\ Len(hs[l[p]]) \in Nat /\ hs[l[p]][1] \in Nodes
    BY RankedAt
  <2>3. 1 \in 1 .. Len(hs[l[p]])
    BY <2>2
  <2>4. gs[l[p]][1] = [hs[l[p]][1] EXCEPT !.index = 0]
    BY <1>2, <2>2, <2>3
  <2>5. gs[l[p]] \in Seq(Nodes) /\ 1 \in 1 .. Len(gs[l[p]])
    BY <1>2, <2>2, <2>3
  <2>6. gs[l[p]][1] \in Nodes
    BY <2>5
  <2>7. QED BY <2>2, <2>4, <2>6
<1>6. Ordered(l, gs)
  <2>1. ASSUME NEW p \in 1 .. Len(l), NEW q \in 1 .. Len(l), p < q
        PROVE  l[p] # l[q] /\ ~Cmp(gs[l[q]][1], gs[l[p]][1])
    <3>1. l[p] # l[q] /\ ~Cmp(hs[l[q]][1], hs[l[p]][1])
      BY <2>1 DEF Ranked, Ordered
    <3>2. PICK x, y : x = hs[l[q]][1] /\ y = hs[l[p]][1]
      OBVIOUS
    <3>3. x \in Nodes /\ y \in Nodes /\ ~Cmp(x, y)
      BY <1>5, <3>1, <3>2
    <3>4. ~Cmp([x EXCEPT !.index = 0], [y EXCEPT !.index = 0])
      BY <1>3, <3>3
    <3>5. QED BY <1>5, <3>1, <3>2, <3>4
  <2>2. l \in Seq(Heaps)
    BY DEF Ranked, Ordered
  <2>3. QED BY <1>5, <2>1, <2>2 DEF Ordered
<1>7. gs \in [Heaps -> Seq(Nodes)]
  BY <1>1, <1>2 DEF ResetIndices
<1>8. \A i \in Heaps : i \in ToSet(l) <=> gs[i] # <<>>
  BY <1>2 DEF Ranked
<1>9. QED BY <1>1, <1>4, <1>6, <1>7, <1>8 DEF Ranked
(* Heaps are emptied as a whole.                                           *)
LEMMA Emptied ==
  ASSUME NEW hs, NEW l, Ranked(hs, l), NEW hit, hit \subseteq ToSet(l),
         NEW gs, gs = [i \in Heaps |-> IF i \in hit THEN <<>> ELSE hs[i]],
         NEW r, Ordered(r, gs), ToSet(r) = ToSet(l) \ hit
  PROVE  Ranked(gs, r)
<1>1. gs \in [Heaps -> Seq(Nodes)]
  BY DEF Ranked
<1>2. ASSUME NEW i \in Heaps PROVE HeapUpTo(gs[i], Len(gs[i]))
  <2>1. CASE i \in hit
    <3>1. gs[i] = <<>> /\ 2 .. 0 = {}
      BY <2>1
    <3>2. QED BY <3>1 DEF HeapUpTo
  <2>2. CASE i \notin hit
    BY <2>2 DEF Ranked
  <2>3. QED BY <2>1, <2>2
<1>3. ASSUME NEW i \in Heaps PROVE i \in ToSet(r) <=> gs[i] # <<>>
  BY DEF Ranked
<1>4. QED BY <1>1, <1>2, <1>3 DEF Ranked

(* Where the scan of queue_read stops.                                     *)
LEMMA ScanIs ==
  ASSUME NEW free, list \in Seq(Heaps)
  PROVE  /\ ScanStop(free) \in 0 .. Len(list)
         /\ ScanStop(free) # 0 => CanRun(ScanStop(free), free)
         /\ \A p \in 1 .. Len(list) :
              ScanStop(free) = 0 \/ p < ScanStop(free) => ~CanRun(p, free)
<1>1. PICK n, s : n = Len(list) /\ s = [p \in 1 .. n |-> CanRun(p, free)]
  OBVIOUS
<1>2. n \in Nat /\ s \in Seq(BOOLEAN) /\ Len(s) = n /\ \A p \in 1 .. n : s[p] = CanRun(p, free)
  <2>1. n \in Nat
    BY <1>1
  <2>2. \A p \in 1 .. n : CanRun(p, free) \in BOOLEAN
    BY DEF CanRun
  <2>3. s \in [1 .. n -> BOOLEAN]
    BY <1>1, <2>2
  <2>4. s \in Seq(BOOLEAN) /\ Len(s) = n
    BY <2>1, <2>3
  <2>5. \A p \in 1 .. n : s[p] = CanRun(p, free)
    BY <1>1
  <2>6. QED BY <2>1, <2>4, <2>5
<1>3. PICK I : I = {p \in 1 .. Len(s) : s[p]}
  OBVIOUS
<1>4. ScanStop(free) = IF I # {} THEN Min(I) ELSE 0
  BY <1>1, <1>3 DEF ScanStop, SelectInSeq
<1>5. I \in SUBSET Nat /\ \A p \in I : p \in 1 .. n /\ CanRun(p, free)
  BY <1>2, <1>3
<1>6. \A p \in 1 .. n : CanRun(p, free) => p \in I
  BY <1>2, <1>3
<1>7. CASE I = {}
  BY <1>1, <1>2, <1>4, <1>6, <1>7
<1>8. CASE I # {}
  <2>1. Min(I) \in I /\ \A y \in I : Min(I) <= y
    BY <1>5, <1>8, MinIs
  <2>2. PICK m : m = Min(I)
    OBVIOUS
  <2>3. ScanStop(free) = m /\ m \in 1 .. n /\ CanRun(m, free)
    BY <1>4, <1>5, <1>8, <2>1, <2>2
  <2>4. \A p \in 1 .. n : p < m => ~CanRun(p, free)
    BY <1>2, <1>6, <2>1, <2>2, <2>3
  <2>5. QED BY <1>1, <1>2, <2>3, <2>4
<1>9. QED BY <1>7, <1>8

-----------------------------------------------------------------------------
RankedInv == Ranked(heap, list) /\ sum_count \in 0 .. INDEX_MOD - 1

LEMMA RankedInit == Init => RankedInv
<1>1. SUFFICES ASSUME Init PROVE RankedInv
  OBVIOUS
<1>2. heap = [i \in Heaps |-> <<>>] /\ list = <<>> /\ sum_count = 0
  BY <1>1 DEF Init
<1>3. 0 \in 0 .. INDEX_MOD - 1
  BY QueueAssumption
<1>4. heap \in [Heaps -> Seq(Nodes)] /\ \A i \in Heaps : heap[i] = <<>>
  BY <1>2
<1>5. \A i \in Heaps : HeapUpTo(heap[i], Len(heap[i]))
  <2>1. 2 .. 0 = {} /\ Len(<<>>) = 0
    OBVIOUS
  <2>2. QED BY <1>4, <2>1 DEF HeapUpTo
<1>6. Ordered(list, heap) /\ ToSet(list) = {}
  <2>1. list \in Seq(Heaps) /\ Len(list) = 0 /\ 1 .. 0 = {} /\ DOMAIN list = {}
    BY <1>2
  <2>2. QED BY <2>1 DEF Ordered, ToSet
<1>7. QED BY <1>2, <1>3, <1>4, <1>5, <1>6 DEF RankedInv, Ranked

LEMMA NodeType ==
  ASSUME NEW t \in Tasks, NEW k \in Kinds, NEW pr \in 0 .. MaxPriority, NEW time \in Times,
         NEW x \in 0 .. INDEX_MOD - 1
  PROVE  [task |-> t, kind |-> k, priority |-> pr, time |-> time, index |-> x] \in Nodes
BY DEF Nodes

LEMMA RankedWrite ==
  ASSUME RankedInv, NEW t \in Tasks, NEW k \in Kinds, NEW pr \in 0 .. MaxPriority,
         NEW time \in Times, Write(t, k, pr, time)
  PROVE  RankedInv'
<1>1. PICK i, node, n :
        /\ i = QueueId(k[1], k[2])
        /\ node = [task |-> t, kind |-> k, priority |-> pr, time |-> time, index |-> sum_count]
        /\ n = Len(heap[i]) + 1
  OBVIOUS
<1>2. PICK hs, sum : /\ hs = [heap EXCEPT ![i] = KeepMaxHeap(Append(@, node), n, n)]
                     /\ sum = (sum_count + 1) % INDEX_MOD
  OBVIOUS
<1>3. /\ sum_count' = sum
      /\ heap' = IF sum = INDEX_MOD - 1 THEN ResetIndices(hs) ELSE hs
      /\ list' = IF n = 1 THEN InsertHeap(list, hs, i) ELSE MoveLeft(list, hs, i)
  BY <1>1, <1>2 DEF Write
<1>4. i \in Heaps /\ node \in Nodes
  BY <1>1, QueueIdType, NodeType DEF RankedInv
<1>5. Ranked(heap, list)
  BY DEF RankedInv
<1>6. Ranked(hs, list')
  <2>1. PICK r : r = list'
    OBVIOUS
  <2>2. r = IF n = 1 THEN InsertHeap(list, hs, i) ELSE MoveLeft(list, hs, i)
    BY <1>3, <2>1
  <2>3. n = Len(heap[i]) + 1 /\ hs = [heap EXCEPT ![i] = KeepMaxHeap(Append(@, node), n, n)]
    BY <1>1, <1>2
  <2>4. Ranked(hs, r)
    BY ONLY <1>4, <1>5, <2>2, <2>3, OneMore
  <2>5. QED BY <2>1, <2>4
<1>7. Ranked(ResetIndices(hs), list')
  BY <1>6, IndicesReset
<1>8. sum \in 0 .. INDEX_MOD - 1
  BY <1>2, QueueAssumption DEF RankedInv
<1>9. QED BY <1>3, <1>6, <1>7, <1>8 DEF RankedInv

LEMMA RankedLess ==
  ASSUME RankedInv, NEW i \in ToSet(list), NEW at \in 1 .. Len(heap[i]),
         heap' = [heap EXCEPT ![i] = TakeOut(@, at)],
         list' = ReorderAfterDel(list, heap', i),
         sum_count' \in {0, sum_count}
  PROVE  RankedInv'
<1>1. PICK gs, r : gs = heap' /\ r = list'
  OBVIOUS
<1>2. Ranked(gs, r)
  <2>1. gs = [heap EXCEPT ![i] = TakeOut(@, at)] /\ r = ReorderAfterDel(list, gs, i)
    BY <1>1
  <2>2. Ranked(heap, list)
    BY DEF RankedInv
  <2>3. i \in ToSet(list) /\ at \in 1 .. Len(heap[i])
    OBVIOUS
  <2>4. QED BY ONLY <2>1, <2>2, <2>3, OneLess
<1>3. sum_count' \in 0 .. INDEX_MOD - 1
  BY QueueAssumption DEF RankedInv
<1>4. QED BY <1>1, <1>2, <1>3 DEF RankedInv

LEMMA RankedCleanAll ==
  ASSUME RankedInv, CleanAll PROVE RankedInv'
<1>1. PICK gs, r, hit : gs = heap' /\ r = list' /\ hit = ToSet(list)
  OBVIOUS
<1>2. gs = [i \in Heaps |-> IF i \in hit THEN <<>> ELSE heap[i]] /\ r = <<>> /\ sum_count' = 0
  BY <1>1 DEF CleanAll
<1>3. Ordered(r, gs) /\ ToSet(r) = {}
  <2>1. r \in Seq(Heaps) /\ Len(r) = 0 /\ 1 .. 0 = {} /\ DOMAIN r = {}
    BY <1>2
  <2>2. QED BY <2>1 DEF Ordered, ToSet
<1>4. Ranked(heap, list) /\ hit \subseteq ToSet(list) /\ ToSet(r) = ToSet(list) \ hit
  BY <1>1, <1>3 DEF RankedInv
<1>5. Ranked(gs, r)
  BY ONLY <1>2, <1>3, <1>4, Emptied
<1>6. QED BY <1>1, <1>2, <1>5, QueueAssumption DEF RankedInv

LEMMA RankedCleanTasksOn ==
  ASSUME RankedInv, NEW mask, CleanTasksOn(mask) PROVE RankedInv'
<1>1. PICK gs, r, hit : /\ gs = heap' /\ r = list'
                        /\ hit = {i \in ToSet(list) : Mask(heap[i][1].kind) \cap mask # {}}
  OBVIOUS
<1>2. /\ gs = [i \in Heaps |-> IF i \in hit THEN <<>> ELSE heap[i]] /\ r = Without(list, hit)
      /\ sum_count' \in {0, sum_count}
  BY <1>1 DEF CleanTasksOn, SumAfter
<1>3. Ranked(heap, list) /\ Ordered(list, heap) /\ hit \subseteq ToSet(list)
  BY <1>1 DEF RankedInv, Ranked
<1>4. \A j \in Heaps : j \notin hit => gs[j] = heap[j]
  BY <1>2
<1>5. Ordered(r, gs) /\ ToSet(r) = ToSet(list) \ hit
  BY <1>2, <1>3, <1>4, WithoutKeeps
<1>6. Ranked(gs, r)
  BY ONLY <1>2, <1>3, <1>5, Emptied
<1>7. sum_count' \in 0 .. INDEX_MOD - 1
  BY <1>2, QueueAssumption DEF RankedInv
<1>8. QED BY <1>1, <1>6, <1>7 DEF RankedInv

LEMMA RankedStep == RankedInv /\ [Next]_vars => RankedInv'
<1>1. SUFFICES ASSUME RankedInv, [Next]_vars PROVE RankedInv'
  OBVIOUS
<1>2. Ranked(heap, list) /\ list \in Seq(Heaps)
  BY <1>1 DEF RankedInv, Ranked, Ordered
<1>3. ASSUME NEW t \in Tasks, NEW k \in Kinds, NEW pr \in 0 .. MaxPriority,
             NEW time \in Times, Write(t, k, pr, time)
      PROVE  RankedInv'
  BY <1>1, <1>3, RankedWrite
<1>4. ASSUME NEW free \in SUBSET Cores, Read(free) PROVE RankedInv'
  <2>1. PICK p, i : p = ScanStop(free) /\ i = list[p]
    OBVIOUS
  <2>2. /\ p # 0 /\ heap' = [heap EXCEPT ![i] = TakeOut(@, 1)]
        /\ list' = ReorderAfterDel(list, heap', i) /\ sum_count' \in {0, sum_count}
    BY <1>4, <2>1 DEF Read, SumAfter
  <2>3. p \in 1 .. Len(list)
    BY <1>2, <2>1, <2>2, ScanIs
  <2>4. i \in ToSet(list) /\ 1 \in 1 .. Len(heap[i])
    BY <1>2, <2>1, <2>3, RankedAt
  <2>5. QED BY <1>1, <2>2, <2>4, RankedLess
<1>5. ASSUME CleanAll PROVE RankedInv'
  BY <1>1, <1>5, RankedCleanAll
<1>6. ASSUME NEW c \in Cores, CleanTasksOn({c}) PROVE RankedInv'
  <2>1. PICK mask : mask = {c}
    OBVIOUS
  <2>2. QED BY <1>1, <1>6, <2>1, RankedCleanTasksOn
<1>7. ASSUME NEW t \in Tasks, CleanOne(t) PROVE RankedInv'
  <2>1. PICK i \in ToSet(list) : \E at \in DOMAIN heap[i] :
          /\ heap' = [heap EXCEPT ![i] = TakeOut(@, at)]
          /\ list' = ReorderAfterDel(list, heap', i) /\ sum_count' \in {0, sum_count}
    BY <1>7 DEF CleanOne, SumAfter
  <2>2. heap[i] \in Seq(Nodes)
    BY <1>2, RankedFirst
  <2>3. PICK at \in 1 .. Len(heap[i]) :
          /\ heap' = [heap EXCEPT ![i] = TakeOut(@, at)]
          /\ list' = ReorderAfterDel(list, heap', i) /\ sum_count' \in {0, sum_count}
    <3>1. DOMAIN heap[i] = 1 .. Len(heap[i])
      BY <2>2
    <3>2. QED BY <2>1, <3>1
  <2>4. QED BY <1>1, <2>3, RankedLess
<1>8. CASE UNCHANGED vars
  BY <1>1, <1>8 DEF vars, RankedInv
<1>9. QED BY <1>1, <1>3, <1>4, <1>5, <1>6, <1>7, <1>8 DEF Next

(* The heaps and the list are in order after every operation, whatever the *)
(* number of writes: also when sum_count comes to its end and keep_max_heap *)
(* meets nodes with the same index.                                        *)
THEOREM RankedAlways == Spec => []RankedInv
<1>1. Init => RankedInv
  BY RankedInit
<1>2. RankedInv /\ [Next]_vars => RankedInv'
  BY RankedStep
<1>3. QED BY <1>1, <1>2, PTL DEF Spec

(* Every heap of the queue keeps the heap property under keep_max_heap.    *)
THEOREM HeapsAlwaysOrdered == Spec => []HeapOrdered
<1>1. RankedInv => HeapOrdered
  BY DEF RankedInv, Ranked, HeapUpTo, HeapOrdered
<1>2. QED BY <1>1, RankedAlways, PTL

(* The list always holds each non-empty heap once, by the rank of its head. *)
THEOREM ListAlwaysOrdered == Spec => []ListOrdered
<1>1. RankedInv => ListOrdered
  <2>1. SUFFICES ASSUME RankedInv PROVE ListOrdered
    OBVIOUS
  <2>2. /\ list \in Seq(Heaps) /\ DOMAIN list = 1 .. Len(list)
        /\ \A p, q \in 1 .. Len(list) :
             p < q => list[p] # list[q] /\ ~Cmp(heap[list[q]][1], heap[list[p]][1])
    BY <2>1 DEF RankedInv, Ranked, Ordered
  <2>3. ToSet(list) = {i \in Heaps : heap[i] # <<>>}
    <3>1. ToSet(list) \subseteq Heaps
      BY <2>2 DEF ToSet
    <3>2. QED BY <2>1, <3>1 DEF RankedInv, Ranked
  <2>4. IsInjective(list)
    <3>1. \A p, q \in 1 .. Len(list) : p < q \/ q < p \/ p = q
      BY <2>2
    <3>2. QED BY <2>2, <3>1 DEF IsInjective
  <2>5. \A p, q \in DOMAIN list : p < q => ~Cmp(HeadAt(q), HeadAt(p))
    BY <2>2 DEF HeadAt
  <2>6. QED BY <2>3, <2>4, <2>5 DEF ListOrdered
<1>2. QED BY <1>1, RankedAlways, PTL
-----------------------------------------------------------------------------
(* As long as the indices are not reset they tell the nodes apart, every   *)
(* node is in the heap of its kind, and no task waits twice.               *)
Numbered(hs, sum) ==
  /\ \A i \in Heaps : NoTies(hs[i])
  /\ \A i \in Heaps : \A x \in ToSet(hs[i]) :
       x.index < sum /\ QueueId(x.kind[1], x.kind[2]) = i
  /\ \A i, j \in Heaps : \A x \in ToSet(hs[i]), y \in ToSet(hs[j]) :
       x.index = y.index \/ x.task = y.task => x = y

LEMMA NumberedLess ==
  ASSUME NEW hs, NEW sum, Numbered(hs, sum), NEW gs,
         \A i \in Heaps : NoTies(gs[i]) /\ ToSet(gs[i]) \subseteq ToSet(hs[i])
  PROVE  Numbered(gs, sum)
BY DEF Numbered

LEMMA NumberedMore ==
  ASSUME NEW hs, hs \in [Heaps -> Seq(Nodes)], NEW sum \in Nat, Numbered(hs, sum),
         NEW i \in Heaps, NEW node \in Nodes,
         QueueId(node.kind[1], node.kind[2]) = i, node.index = sum,
         \A j \in Heaps : \A x \in ToSet(hs[j]) : x.task # node.task,
         NEW gs, \A j \in Heaps : j # i => gs[j] = hs[j],
         NoTies(gs[i]), ToSet(gs[i]) = ToSet(hs[i]) \cup {node}
  PROVE  Numbered(gs, sum + 1)
<1>1. \A j \in Heaps : NoTies(gs[j])
  BY DEF Numbered
<1>2. \A j \in Heaps : \A x \in ToSet(hs[j]) : x.index \in Nat /\ x.index < sum
  <2>1. \A j \in Heaps : \A x \in ToSet(hs[j]) : x \in Nodes
    BY DEF ToSet
  <2>2. QED BY <2>1, Fields DEF Numbered
<1>3. \A j \in Heaps : \A x \in ToSet(gs[j]) : x \in ToSet(hs[j]) \/ (x = node /\ j = i)
  OBVIOUS
<1>4. ASSUME NEW j \in Heaps, NEW x \in ToSet(gs[j])
      PROVE  x.index < sum + 1 /\ QueueId(x.kind[1], x.kind[2]) = j
  <2>1. CASE x \in ToSet(hs[j])
    BY <1>2, <2>1 DEF Numbered
  <2>2. CASE x = node /\ j = i
    BY <2>2
  <2>3. QED BY <1>3, <2>1, <2>2
<1>5. ASSUME NEW j \in Heaps, NEW m \in Heaps, NEW x \in ToSet(gs[j]), NEW y \in ToSet(gs[m]),
             x.index = y.index \/ x.task = y.task
      PROVE  x = y
  <2>1. CASE x \in ToSet(hs[j]) /\ y \in ToSet(hs[m])
    BY <1>5, <2>1 DEF Numbered
  <2>2. CASE x \in ToSet(hs[j]) /\ y = node
    BY <1>2, <1>5, <2>2
  <2>3. CASE x = node /\ y \in ToSet(hs[m])
    BY <1>2, <1>5, <2>3
  <2>4. QED BY <1>3, <2>1, <2>2, <2>3
<1>6. QED BY <1>1, <1>4, <1>5 DEF Numbered

(* The sums of the two counters.                                           *)
LenOf(hs) == [i \in Heaps |-> Len(hs[i])]

Counts(hs, est, cur) ==
  /\ cur = Total(LenOf(hs), Heaps)
  /\ est \in [Heaps -> Nat]
  /\ \A i \in Heaps : est[i] = TimeSum(hs[i])

LEMMA HeapsFinite == IsFiniteSet(Heaps)
<1>1. HeapCount \in Int
  BY QueueAssumption DEF HeapCount
<1>2. QED BY <1>1, FS_Interval DEF Heaps

LEMMA LenOfNat ==
  ASSUME NEW hs, hs \in [Heaps -> Seq(Nodes)]
  PROVE  \A i \in Heaps : LenOf(hs)[i] = Len(hs[i]) /\ LenOf(hs)[i] \in Nat
BY DEF LenOf

LEMMA TimeSumNat == ASSUME NEW h \in Seq(Nodes) PROVE TimeSum(h) \in Nat
<1>1. PICK S, f : S = 1 .. Len(h) /\ f = TimeOf(h)
  OBVIOUS
<1>2. IsFiniteSet(S)
  <2>1. Len(h) \in Int
    OBVIOUS
  <2>2. QED BY <1>1, <2>1, FS_Interval
<1>3. \A p \in S : f[p] \in Nat
  <2>1. \A p \in S : h[p] \in Nodes /\ f[p] = h[p].time
    BY <1>1 DEF TimeOf
  <2>2. \A x \in Nodes : x.time \in Nat
    BY Fields
  <2>3. QED BY <2>1, <2>2
<1>4. Total(f, S) \in Nat
  BY <1>2, <1>3, TotalNat
<1>5. QED BY <1>1, <1>4 DEF TimeSum

LEMMA CountsOne ==
  ASSUME NEW hs, hs \in [Heaps -> Seq(Nodes)], NEW gs, gs \in [Heaps -> Seq(Nodes)],
         NEW i \in Heaps, \A j \in Heaps : j # i => gs[j] = hs[j]
  PROVE  Total(LenOf(gs), Heaps) - Len(gs[i]) = Total(LenOf(hs), Heaps) - Len(hs[i])
<1>1. PICK e, f, S : e = LenOf(hs) /\ f = LenOf(gs) /\ S = Heaps \ {i}
  OBVIOUS
<1>2. IsFiniteSet(Heaps) /\ IsFiniteSet(S)
  BY <1>1, HeapsFinite, FS_Subset
<1>3. \A j \in Heaps : e[j] = Len(hs[j]) /\ e[j] \in Int /\ f[j] = Len(gs[j]) /\ f[j] \in Int
  BY SMTT(30), <1>1, LenOfNat
<1>4. Total(e, Heaps) = e[i] + Total(e, Heaps \ {i}) /\ Total(f, Heaps) = f[i] + Total(f, Heaps \ {i})
  <2>1. i \in Heaps /\ IsFiniteSet(Heaps) /\ \A j \in Heaps : e[j] \in Int
    BY <1>2, <1>3
  <2>2. \A j \in Heaps : f[j] \in Int
    BY <1>3
  <2>3. Total(e, Heaps) = e[i] + Total(e, Heaps \ {i})
    BY ONLY <2>1, TotalPick
  <2>4. Total(f, Heaps) = f[i] + Total(f, Heaps \ {i})
    BY ONLY <2>1, <2>2, TotalPick
  <2>5. QED BY <2>3, <2>4
<1>5. Total(e, S) = Total(f, S) /\ Total(e, S) \in Int
  <2>1. \A j \in S : e[j] = f[j] /\ e[j] \in Int
    BY <1>1, <1>3
  <2>2. QED BY <1>2, <2>1, TotalSame, TotalType
<1>6. QED BY <1>1, <1>3, <1>4, <1>5

LEMMA CountsSome ==
  ASSUME NEW hs, hs \in [Heaps -> Seq(Nodes)], NEW hit \in SUBSET Heaps,
         NEW gs, gs = [i \in Heaps |-> IF i \in hit THEN <<>> ELSE hs[i]]
  PROVE  Total(LenOf(gs), Heaps) = Total(LenOf(hs), Heaps) - Total(LenOf(hs), hit)
<1>1. PICK e, f, S : e = LenOf(hs) /\ f = LenOf(gs) /\ S = Heaps \ hit
  OBVIOUS
<1>2. IsFiniteSet(hit) /\ IsFiniteSet(S) /\ S \cap hit = {} /\ S \cup hit = Heaps
  BY <1>1, HeapsFinite, FS_Subset
<1>3. gs \in [Heaps -> Seq(Nodes)] /\ \A j \in hit : Len(gs[j]) = 0
  OBVIOUS
<1>4. \A j \in Heaps : e[j] = Len(hs[j]) /\ e[j] \in Int /\ f[j] = Len(gs[j]) /\ f[j] \in Int
  <2>1. \A j \in Heaps : LenOf(hs)[j] = Len(hs[j]) /\ LenOf(hs)[j] \in Nat
    BY LenOfNat
  <2>2. \A j \in Heaps : LenOf(gs)[j] = Len(gs[j]) /\ LenOf(gs)[j] \in Nat
    BY <1>3, LenOfNat
  <2>3. QED BY <1>1, <2>1, <2>2
<1>5. Total(e, S \cup hit) = Total(e, S) + Total(e, hit)
  BY <1>2, <1>4, TotalUnion
<1>6. Total(f, S \cup hit) = Total(f, S) + Total(f, hit)
  BY <1>2, <1>4, TotalUnion
<1>7. Total(f, hit) = 0
  <2>1. \A j \in hit : f[j] = 0
    BY <1>3, <1>4
  <2>2. QED BY <1>2, <2>1, TotalZero
<1>8. Total(e, S) = Total(f, S) /\ Total(e, S) \in Int /\ Total(e, hit) \in Int
  <2>1. \A j \in S : e[j] = f[j] /\ e[j] \in Int
    BY <1>1, <1>4
  <2>2. \A j \in hit : e[j] \in Int
    BY <1>4
  <2>3. IsFiniteSet(S) /\ IsFiniteSet(hit)
    BY <1>2
  <2>4. Total(e, S) = Total(f, S) /\ Total(e, S) \in Int
    BY ONLY <2>1, <2>3, TotalSame, TotalType
  <2>5. Total(e, hit) \in Int
    BY ONLY <2>2, <2>3, TotalType
  <2>6. QED BY <2>4, <2>5
<1>9. Total(e, Heaps) = Total(e, S) + Total(e, hit) /\ Total(f, Heaps) = Total(f, S) + Total(f, hit)
  BY <1>2, <1>5, <1>6
<1>10. Total(f, Heaps) = Total(e, Heaps) - Total(e, hit)
  BY <1>7, <1>8, <1>9
<1>11. QED BY <1>1, <1>10

LEMMA NoneCounted ==
  ASSUME NEW hs, hs \in [Heaps -> Seq(Nodes)]
  PROVE  /\ Total(LenOf(hs), Heaps) \in Nat
         /\ Total(LenOf(hs), Heaps) = 0 <=> \A i \in Heaps : hs[i] = <<>>
<1>1. PICK e : e = LenOf(hs)
  OBVIOUS
<1>2. IsFiniteSet(Heaps) /\ \A i \in Heaps : e[i] = Len(hs[i]) /\ e[i] \in Nat
  BY <1>1, HeapsFinite, LenOfNat
<1>3. Total(e, Heaps) \in Nat
  BY <1>2, TotalNat
<1>4. ASSUME NEW i \in Heaps, Total(e, Heaps) = 0 PROVE hs[i] = <<>>
  <2>1. Total(e, Heaps) = e[i] + Total(e, Heaps \ {i})
    <3>1. IsFiniteSet(Heaps) /\ i \in Heaps /\ \A j \in Heaps : e[j] \in Int
      BY <1>2
    <3>2. QED BY ONLY <3>1, TotalPick
  <2>2. Total(e, Heaps \ {i}) \in Nat
    <3>1. PICK S : S = Heaps \ {i}
      OBVIOUS
    <3>2. IsFiniteSet(S) /\ \A j \in S : e[j] \in Nat
      BY <1>2, <3>1, FS_Subset
    <3>3. Total(e, S) \in Nat
      BY <3>2, TotalNat
    <3>4. QED BY <3>1, <3>3
  <2>3. Len(hs[i]) = 0
    BY <1>2, <1>4, <2>1, <2>2
  <2>4. QED BY <2>3
<1>5. ASSUME \A i \in Heaps : hs[i] = <<>> PROVE Total(e, Heaps) = 0
  BY <1>2, <1>5, TotalZero
<1>6. QED BY <1>1, <1>3, <1>4, <1>5
LEMMA LenSumIs ==
  ASSUME NEW hs, NEW S \in SUBSET Heaps
  PROVE  MapThenSumSet(LAMBDA i : Len(hs[i]), S) = Total(LenOf(hs), S)
<1> DEFINE Rec(it) == it = [s \in SUBSET S |-> IF s = {} THEN 0
                            ELSE Len(hs[CHOOSE x \in s : TRUE]) + it[s \ {CHOOSE x \in s : TRUE}]]
<1>1. MapThenSumSet(LAMBDA i : Len(hs[i]), S) = (CHOOSE it : Rec(it))[S]
  BY Zenon DEF MapThenSumSet, MapThenFoldSet
<1>2. IsFiniteSet(S)
  BY HeapsFinite, FS_Subset
<1>3. \A it : Rec(it) <=> IsSum(it, LenOf(hs), S)
  <2>1. \A s \in SUBSET S : s # {} => LenOf(hs)[CHOOSE x \in s : TRUE] = Len(hs[CHOOSE x \in s : TRUE])
    BY DEF LenOf
  <2>2. QED BY <2>1 DEF IsSum, Chosen
<1> HIDE DEF Rec
<1>4. IsSum(CHOOSE it : Rec(it), LenOf(hs), S)
  BY <1>2, <1>3, SumExists
<1>5. PICK it : IsSum(it, LenOf(hs), S) /\ Total(LenOf(hs), S) = it[S]
  BY <1>2, TotalIsSum
<1>6. (CHOOSE jt : Rec(jt))[S] = it[S]
  BY <1>2, <1>4, <1>5, SumUnique
<1>7. QED BY <1>1, <1>5, <1>6

LEMMA TimeSumIs ==
  ASSUME NEW h \in Seq(Nodes)
  PROVE  MapThenSumSet(LAMBDA p : h[p].time, DOMAIN h) = TimeSum(h)
<1> DEFINE S == 1 .. Len(h)
           Rec(it) == it = [s \in SUBSET S |-> IF s = {} THEN 0
                            ELSE h[CHOOSE x \in s : TRUE].time + it[s \ {CHOOSE x \in s : TRUE}]]
<1>0. DOMAIN h = S /\ Len(h) \in Int
  OBVIOUS
<1>1. MapThenSumSet(LAMBDA p : h[p].time, S) = (CHOOSE it : Rec(it))[S]
  BY Zenon DEF MapThenSumSet, MapThenFoldSet
<1>2. IsFiniteSet(S)
  BY <1>0, FS_Interval
<1>3. \A it : Rec(it) <=> IsSum(it, TimeOf(h), S)
  <2>1. \A s \in SUBSET S : s # {} => TimeOf(h)[CHOOSE x \in s : TRUE] = h[CHOOSE x \in s : TRUE].time
    BY DEF TimeOf
  <2>2. QED BY <2>1 DEF IsSum, Chosen
<1>4. TimeSum(h) = Total(TimeOf(h), S)
  BY DEF TimeSum
<1>5. MapThenSumSet(LAMBDA p : h[p].time, DOMAIN h) = (CHOOSE it : Rec(it))[S]
  BY <1>0, <1>1
<1> HIDE DEF Rec, S
<1>6. IsSum(CHOOSE it : Rec(it), TimeOf(h), S)
  BY <1>2, <1>3, SumExists
<1>7. PICK it : IsSum(it, TimeOf(h), S) /\ Total(TimeOf(h), S) = it[S]
  BY <1>2, TotalIsSum
<1>8. (CHOOSE jt : Rec(jt))[S] = it[S]
  <2>1. PICK f, jt, U : f = TimeOf(h) /\ jt = (CHOOSE w : Rec(w)) /\ U = S
    OBVIOUS
  <2>2. IsFiniteSet(U) /\ IsSum(jt, f, U) /\ IsSum(it, f, U)
    BY <1>2, <1>6, <1>7, <2>1
  <2>3. jt[U] = it[U]
    BY ONLY <2>2, SumUnique
  <2>4. QED BY <2>1, <2>3
<1>9. QED BY <1>4, <1>5, <1>7, <1>8

(* Every node has its own task, so that no more nodes wait than there are  *)
(* tasks.                                                                  *)
TasksIn(hs, S) == {t \in Tasks : \E i \in S : \E x \in ToSet(hs[i]) : x.task = t}

LEMMA HeapCounts ==
  ASSUME NEW hs, hs \in [Heaps -> Seq(Nodes)], NEW sum, Numbered(hs, sum), NEW i \in Heaps
  PROVE  Cardinality(TasksIn(hs, {i})) = Len(hs[i])
<1>1. PICK h, T, S : h = hs[i] /\ T = TasksIn(hs, {i}) /\ S = 1 .. Len(h)
  OBVIOUS
<1>2. h \in Seq(Nodes) /\ DOMAIN h = S /\ Len(h) \in Nat
  BY <1>1
<1>3. \A p \in S : h[p] \in Nodes /\ h[p].task \in Tasks /\ h[p] \in ToSet(h)
  <2>1. \A p \in S : h[p] \in Nodes /\ h[p] \in ToSet(h)
    BY <1>1, <1>2 DEF ToSet
  <2>2. QED BY <2>1, Fields
<1>4. PICK f : f = [p \in S |-> h[p].task]
  OBVIOUS
<1>5. \A p, q \in S : f[p] = f[q] => p = q
  <2>1. SUFFICES ASSUME NEW p \in S, NEW q \in S, f[p] = f[q] PROVE p = q
    OBVIOUS
  <2>2. h[p].task = h[q].task
    BY <1>4, <2>1
  <2>3. h[p] = h[q]
    BY <1>1, <1>3, <2>2 DEF Numbered
  <2>4. NoTies(h)
    BY <1>1 DEF Numbered
  <2>5. QED BY <1>1, <2>3, <2>4 DEF NoTies
<1>6. \A p \in S : f[p] \in T
  <2>1. \A p \in S : f[p] = h[p].task /\ f[p] \in Tasks
    BY <1>3, <1>4
  <2>2. QED BY <1>1, <1>3, <2>1 DEF TasksIn
<1>7. \A t \in T : \E p \in S : f[p] = t
  <2>1. SUFFICES ASSUME NEW t \in T PROVE \E p \in S : f[p] = t
    OBVIOUS
  <2>2. PICK x \in ToSet(h) : x.task = t
    BY <1>1 DEF TasksIn
  <2>3. PICK p \in S : x = h[p]
    BY <1>2, <2>2 DEF ToSet
  <2>4. QED BY <1>4, <2>2, <2>3
<1>8. f \in [S -> T]
  BY <1>4, <1>6
<1>9. f \in Surjection(S, T) /\ f \in Injection(S, T)
  BY <1>5, <1>7, <1>8 DEF Surjection, Injection, IsInjective
<1>10. IsFiniteSet(S) /\ Cardinality(S) = Len(h)
  <2>1. PICK a, b : a = 1 /\ b = Len(h)
    OBVIOUS
  <2>2. IsFiniteSet(a .. b) /\ Cardinality(a .. b) = IF a > b THEN 0 ELSE b - a + 1
    <3>1. a \in Int /\ b \in Int
      BY <1>2, <2>1
    <3>2. QED BY ONLY <3>1, FS_Interval
  <2>3. QED BY <1>1, <1>2, <2>1, <2>2
<1>11. Cardinality(T) = Cardinality(S)
  BY <1>9, <1>10, FS_Surjection
<1>12. QED BY <1>1, <1>10, <1>11

LEMMA AllCounted ==
  ASSUME NEW hs, hs \in [Heaps -> Seq(Nodes)], NEW sum, Numbered(hs, sum)
  PROVE  Total(LenOf(hs), Heaps) <= Cardinality(Tasks)
<1> DEFINE UpTo(n) == \A s \in SUBSET Heaps : Cardinality(s) = n =>
                        Total(LenOf(hs), s) = Cardinality(TasksIn(hs, s))
           N == {n \in Nat : UpTo(n)}
<1>1. \A s \in SUBSET Heaps : IsFiniteSet(s) /\ Cardinality(s) \in Nat
  BY HeapsFinite, FS_Subset, FS_CardinalityType
<1>2. \A s \in SUBSET Heaps : IsFiniteSet(TasksIn(hs, s))
  <2>1. \A s \in SUBSET Heaps : TasksIn(hs, s) \in SUBSET Tasks
    BY DEF TasksIn
  <2>2. QED BY <2>1, FS_Subset, QueueAssumption
<1>3. UpTo(0)
  <2>1. \A s \in SUBSET Heaps : Cardinality(s) = 0 => s = {}
    BY <1>1, FS_EmptySet
  <2>2. TasksIn(hs, {}) = {}
    BY DEF TasksIn
  <2>3. QED BY <2>1, <2>2, TotalEmpty, FS_EmptySet
<1>4. ASSUME NEW n \in Nat, UpTo(n) PROVE UpTo(n + 1)
  <2>1. SUFFICES ASSUME NEW s \in SUBSET Heaps, Cardinality(s) = n + 1
                 PROVE  Total(LenOf(hs), s) = Cardinality(TasksIn(hs, s))
    OBVIOUS
  <2>2. PICK i \in s : TRUE
    BY <2>1, FS_EmptySet
  <2>3. PICK r, f, A, B : /\ r = s \ {i} /\ f = LenOf(hs)
                          /\ A = TasksIn(hs, r) /\ B = TasksIn(hs, {i})
    OBVIOUS
  <2>4. r \in SUBSET Heaps /\ i \in Heaps /\ Cardinality(r) = n
    BY <1>1, <2>1, <2>2, <2>3, Smaller
  <2>5. Total(f, r) = Cardinality(A)
    BY <1>4, <2>3, <2>4
  <2>6. Cardinality(B) = Len(hs[i])
    BY <2>3, <2>4, HeapCounts
  <2>7. \A j \in Heaps : f[j] = Len(hs[j]) /\ f[j] \in Nat
    BY <2>3, LenOfNat
  <2>8. Total(f, s) = f[i] + Total(f, r)
    <3>1. IsFiniteSet(s) /\ (\A y \in s : f[y] \in Int) /\ i \in s
      BY <1>1, <2>2, <2>7
    <3>2. Total(f, s) = f[i] + Total(f, s \ {i})
      BY ONLY <3>1, TotalPick
    <3>3. QED BY <2>3, <3>2
  <2>9. TasksIn(hs, s) = A \cup B
    BY <2>2, <2>3 DEF TasksIn
  <2>10. A \cap B = {}
    <3>1. SUFFICES ASSUME NEW t, t \in A, t \in B PROVE FALSE
      OBVIOUS
    <3>2. PICK j \in r : \E x \in ToSet(hs[j]) : x.task = t
      BY <2>3, <3>1 DEF TasksIn
    <3>3. PICK x \in ToSet(hs[j]), y \in ToSet(hs[i]) : x.task = t /\ y.task = t
      BY <2>3, <3>1, <3>2 DEF TasksIn
    <3>4. x = y /\ j \in Heaps /\ j # i
      BY <2>3, <2>4, <3>3 DEF Numbered
    <3>5. QueueId(x.kind[1], x.kind[2]) = j /\ QueueId(x.kind[1], x.kind[2]) = i
      BY <2>4, <3>3, <3>4 DEF Numbered
    <3>6. QED BY <3>4, <3>5
  <2>11. Cardinality(A \cup B) = Cardinality(A) + Cardinality(B)
    <3>1. IsFiniteSet(A) /\ IsFiniteSet(B)
      BY <1>2, <2>3, <2>4
    <3>2. Cardinality(A) \in Nat /\ Cardinality(B) \in Nat
      BY <3>1, FS_CardinalityType
    <3>3. Cardinality({}) = 0
      BY FS_EmptySet
    <3>4. Cardinality(A \cup B) = Cardinality(A) + Cardinality(B) - Cardinality(A \cap B)
      BY <3>1, FS_Union
    <3>5. Cardinality(A \cap B) = 0
      BY ONLY <2>10, <3>3
    <3>6. QED BY <3>2, <3>4, <3>5
  <2>12. f[i] = Len(hs[i]) /\ f[i] \in Nat
    BY <2>4, <2>7
  <2>13. Cardinality(A) \in Nat
    BY <1>2, <2>3, <2>4, FS_CardinalityType
  <2>14. QED BY <2>3, <2>5, <2>6, <2>8, <2>9, <2>11, <2>12, <2>13
<1>5. \A n \in Nat : n \in N
  <2>1. 0 \in N /\ \A n \in Nat : n \in N => n + 1 \in N
    BY <1>3, <1>4
  <2> HIDE DEF N
  <2>2. QED BY <2>1, NaturalInduction
<1>6. Total(LenOf(hs), Heaps) = Cardinality(TasksIn(hs, Heaps))
  BY <1>1, <1>5
<1>7. TasksIn(hs, Heaps) \in SUBSET Tasks
  BY DEF TasksIn
<1>8. Cardinality(TasksIn(hs, Heaps)) <= Cardinality(Tasks)
  BY <1>7, QueueAssumption, FS_Subset
<1>9. QED BY <1>6, <1>8
-----------------------------------------------------------------------------
(* The counters, as long as the indices are not reset.                     *)
ExactInv ==
  /\ RankedInv
  /\ Numbered(heap, sum_count)
  /\ Counts(heap, estimated, cur_count)
  /\ cur_count = 0 => sum_count = 0

LEMMA NothingIn == ToSet(<<>>) = {} /\ NoTies(<<>>) /\ TimeSum(<<>>) = 0
<1>1. Len(<<>>) = 0 /\ 1 .. 0 = {} /\ DOMAIN <<>> = {}
  OBVIOUS
<1>2. ToSet(<<>>) = {} /\ NoTies(<<>>)
  BY <1>1 DEF ToSet, NoTies
<1>3. TimeSum(<<>>) = 0
  BY <1>1, TotalEmpty DEF TimeSum
<1>4. QED BY <1>2, <1>3

LEMMA NumberedNone ==
  ASSUME NEW hs, \A i \in Heaps : hs[i] = <<>>, NEW sum PROVE Numbered(hs, sum)
BY NothingIn DEF Numbered

LEMMA ExactInit == Init => ExactInv
<1>1. SUFFICES ASSUME Init PROVE ExactInv
  OBVIOUS
<1>2. RankedInv
  BY <1>1, RankedInit
<1>3. /\ heap = [i \in Heaps |-> <<>>] /\ estimated = [i \in Heaps |-> 0]
      /\ cur_count = 0 /\ sum_count = 0
  BY <1>1 DEF Init
<1>4. (\A i \in Heaps : heap[i] = <<>>) /\ heap \in [Heaps -> Seq(Nodes)]
  BY <1>3
<1>5. Numbered(heap, sum_count)
  BY <1>4, NumberedNone
<1>6. Total(LenOf(heap), Heaps) = 0
  BY <1>4, NoneCounted
<1>7. Counts(heap, estimated, cur_count)
  BY <1>3, <1>4, <1>6, NothingIn DEF Counts
<1>8. QED BY <1>2, <1>3, <1>5, <1>7 DEF ExactInv

LEMMA ExactWrite ==
  ASSUME ExactInv, MaxWrites < INDEX_MOD - 1,
         NEW t \in Tasks, NEW k \in Kinds, NEW pr \in 0 .. MaxPriority,
         NEW time \in Times, Write(t, k, pr, time)
  PROVE  LET i == QueueId(k[1], k[2])
             node == [task |-> t, kind |-> k, priority |-> pr, time |-> time,
                      index |-> sum_count]
         IN  /\ ExactInv' /\ sum_count' = sum_count + 1
             /\ ToSet(heap'[i]) = ToSet(heap[i]) \cup {node}
             /\ \A j \in Heaps : j # i => heap'[j] = heap[j]
<1>1. PICK i, node, h, n, f, g :
        /\ i = QueueId(k[1], k[2])
        /\ node = [task |-> t, kind |-> k, priority |-> pr, time |-> time, index |-> sum_count]
        /\ h = heap[i] /\ n = Len(h) + 1
        /\ f = Append(h, node) /\ g = KeepMaxHeap(f, n, n)
  OBVIOUS
<1>2. /\ heap \in [Heaps -> Seq(Nodes)] /\ Ranked(heap, list)
      /\ sum_count \in 0 .. INDEX_MOD - 1 /\ INDEX_MOD \in Nat /\ MaxWrites \in Nat
  BY QueueAssumption DEF ExactInv, RankedInv, Ranked
<1>3. i \in Heaps /\ node \in Nodes
  BY <1>1, <1>2, QueueIdType, NodeType
<1>4. sum_count' = sum_count + 1 /\ sum_count' < INDEX_MOD - 1
  <2>1. sum_count < MaxWrites /\ sum_count' = (sum_count + 1) % INDEX_MOD
    BY DEF Write
  <2>2. QED BY <1>2, <2>1
<1>5. heap' = [heap EXCEPT ![i] = g]
  <2>1. PICK hs : hs = [heap EXCEPT ![i] = KeepMaxHeap(Append(@, node), n, n)]
    OBVIOUS
  <2>2. heap' = IF sum_count' = INDEX_MOD - 1 THEN ResetIndices(hs) ELSE hs
    BY <1>1, <2>1 DEF Write
  <2>3. heap' = hs
    BY <1>2, <1>4, <2>2
  <2>4. QED BY <1>1, <2>1, <2>3
<1>6. h \in Seq(Nodes) /\ HeapUpTo(h, Len(h)) /\ Len(h) \in Nat
  BY <1>1, <1>2, <1>3 DEF Ranked
<1>7. Rearranged(f, g, n)
  BY ONLY <1>1, <1>3, <1>6, Written
<1>8. /\ f \in Seq(Nodes) /\ Len(f) = Len(h) + 1 /\ ToSet(f) = ToSet(h) \cup {node}
      /\ NoTies(f) <=> NoTies(h) /\ \A p \in 1 .. Len(h) : h[p].index # node.index
      /\ TimeSum(f) = TimeSum(h) + node.time
  <2>1. h \in Seq(Nodes) /\ node \in Nodes /\ f = Append(h, node)
    BY <1>1, <1>3, <1>6
  <2>2. QED BY ONLY <2>1, Appended
<1>9. NoTies(f)
  <2>1. NoTies(h)
    BY <1>1, <1>3 DEF ExactInv, Numbered
  <2>2. ASSUME NEW p \in 1 .. Len(h) PROVE h[p].index # node.index
    <3>1. h[p] \in ToSet(h) /\ h[p] \in Nodes
      BY <1>6 DEF ToSet
    <3>2. h[p].index < sum_count /\ h[p].index \in Nat
      BY <1>1, <1>3, <3>1, Fields DEF ExactInv, Numbered
    <3>3. node.index = sum_count
      BY <1>1
    <3>4. QED BY <1>2, <3>2, <3>3
  <2>3. QED BY <1>8, <2>1, <2>2
<1>10. /\ g \in Seq(Nodes) /\ Len(g) = Len(h) + 1 /\ ToSet(g) = ToSet(h) \cup {node}
       /\ NoTies(g) /\ TimeSum(g) = TimeSum(h) + time
  <2>1. node.time = time
    BY <1>1
  <2>2. QED BY <1>7, <1>8, <1>9, <2>1 DEF Rearranged
<1>11. RankedInv'
  BY RankedWrite DEF ExactInv
<1>12. PICK gs : gs = heap'
  OBVIOUS
<1>13. gs \in [Heaps -> Seq(Nodes)] /\ gs[i] = g /\ \A j \in Heaps : j # i => gs[j] = heap[j]
  BY <1>2, <1>3, <1>5, <1>10, <1>12
<1>14. Numbered(gs, sum_count + 1)
  <2>1. /\ QueueId(node.kind[1], node.kind[2]) = i /\ node.index = sum_count /\ node.task = t
    BY <1>1
  <2>2. \A j \in Heaps : \A x \in ToSet(heap[j]) : x.task # node.task
    BY <2>1 DEF Write, Queued
  <2>3. NoTies(gs[i]) /\ ToSet(gs[i]) = ToSet(heap[i]) \cup {node}
    BY <1>1, <1>10, <1>13
  <2>4. Numbered(heap, sum_count) /\ sum_count \in Nat
    BY <1>2 DEF ExactInv
  <2>5. PICK hs, sum : hs = heap /\ sum = sum_count
    OBVIOUS
  <2>6. /\ hs \in [Heaps -> Seq(Nodes)] /\ sum \in Nat /\ Numbered(hs, sum)
        /\ QueueId(node.kind[1], node.kind[2]) = i /\ node.index = sum
        /\ \A j \in Heaps : \A x \in ToSet(hs[j]) : x.task # node.task
        /\ \A j \in Heaps : j # i => gs[j] = hs[j]
        /\ NoTies(gs[i]) /\ ToSet(gs[i]) = ToSet(hs[i]) \cup {node}
    BY <1>2, <1>13, <2>1, <2>2, <2>3, <2>4, <2>5
  <2>7. Numbered(gs, sum + 1)
    BY ONLY <1>3, <2>6, NumberedMore
  <2>8. QED BY <2>5, <2>7
<1>15. cur_count' = cur_count + 1 /\ estimated' = [estimated EXCEPT ![i] = @ + time]
  BY <1>1 DEF Write
<1>16. Counts(gs, estimated', cur_count')
  <2>1. Total(LenOf(gs), Heaps) - Len(gs[i]) = Total(LenOf(heap), Heaps) - Len(heap[i])
    BY <1>2, <1>3, <1>13, CountsOne
  <2>2. cur_count = Total(LenOf(heap), Heaps) /\ cur_count \in Nat /\ Total(LenOf(gs), Heaps) \in Nat
    BY <1>2, <1>13, NoneCounted DEF ExactInv, Counts
  <2>3. cur_count' = Total(LenOf(gs), Heaps)
    BY <1>1, <1>6, <1>10, <1>13, <1>15, <2>1, <2>2
  <2>4. time \in Nat
    BY QueueAssumption
  <2>5. estimated \in [Heaps -> Nat] /\ \A j \in Heaps : estimated[j] = TimeSum(heap[j])
    BY DEF ExactInv, Counts
  <2>6. estimated' \in [Heaps -> Nat] /\ \A j \in Heaps : estimated'[j] = TimeSum(gs[j])
    BY <1>1, <1>3, <1>10, <1>13, <1>15, <2>4, <2>5
  <2>7. QED BY <2>3, <2>6 DEF Counts
<1>17. cur_count' # 0
  <2>1. cur_count \in Nat
    BY <1>2, NoneCounted DEF ExactInv, Counts
  <2>2. QED BY <1>15, <2>1
<1>18. ExactInv'
  BY <1>4, <1>11, <1>12, <1>14, <1>16, <1>17 DEF ExactInv
<1>19. ToSet(heap'[i]) = ToSet(heap[i]) \cup {node} /\ \A j \in Heaps : j # i => heap'[j] = heap[j]
  BY <1>1, <1>10, <1>12, <1>13
<1>20. QED BY <1>1, <1>4, <1>18, <1>19

(* A step that only takes nodes away, and resets sum_count with the last.  *)
LEMMA ExactWhenLess ==
  ASSUME ExactInv, RankedInv', Counts(heap', estimated', cur_count'),
         sum_count' = SumAfter(cur_count', sum_count),
         \A i \in Heaps : NoTies(heap'[i]) /\ ToSet(heap'[i]) \subseteq ToSet(heap[i])
  PROVE  ExactInv'
<1>1. PICK gs : gs = heap'
  OBVIOUS
<1>2. gs \in [Heaps -> Seq(Nodes)]
  BY <1>1 DEF RankedInv, Ranked
<1>3. Numbered(heap, sum_count)
  BY DEF ExactInv
<1>4. Numbered(gs, sum_count)
  BY <1>1, <1>3, NumberedLess
<1>5. CASE cur_count' = 0
  <2>1. Total(LenOf(gs), Heaps) = 0
    BY <1>1, <1>5 DEF Counts
  <2>2. \A i \in Heaps : gs[i] = <<>>
    BY <1>2, <2>1, NoneCounted
  <2>3. Numbered(gs, sum_count') /\ sum_count' = 0
    BY <1>5, <2>2, NumberedNone DEF SumAfter
  <2>4. QED BY <1>1, <2>3 DEF ExactInv
<1>6. CASE cur_count' # 0
  BY <1>1, <1>4, <1>6 DEF ExactInv, SumAfter
<1>7. QED BY <1>5, <1>6

LEMMA ExactLess ==
  ASSUME ExactInv, NEW i \in ToSet(list), NEW at \in 1 .. Len(heap[i]),
         heap' = [heap EXCEPT ![i] = TakeOut(@, at)],
         list' = ReorderAfterDel(list, heap', i),
         estimated' = [estimated EXCEPT ![i] = @ - heap[i][at].time],
         cur_count' = cur_count - 1, sum_count' = SumAfter(cur_count - 1, sum_count)
  PROVE  /\ ExactInv'
         /\ i \in Heaps /\ ToSet(heap'[i]) = ToSet(heap[i]) \ {heap[i][at]}
         /\ \A j \in Heaps : j # i => heap'[j] = heap[j]
<1>1. heap \in [Heaps -> Seq(Nodes)] /\ Ranked(heap, list)
  BY DEF ExactInv, RankedInv, Ranked
<1>2. i \in Heaps /\ heap[i] \in Seq(Nodes)
  BY <1>1, RankedFirst
<1>3. PICK h, g, gs : h = heap[i] /\ g = TakeOut(h, at) /\ gs = heap'
  OBVIOUS
<1>4. h \in Seq(Nodes) /\ at \in 1 .. Len(h) /\ HeapUpTo(h, Len(h)) /\ NoTies(h) /\ Len(h) \in Nat
  BY <1>1, <1>2, <1>3 DEF Ranked, ExactInv, Numbered
<1>5. /\ g \in Seq(Nodes) /\ Len(g) = Len(h) - 1
      /\ NoTies(g) /\ ToSet(g) = ToSet(h) \ {h[at]}
      /\ TimeSum(g) = TimeSum(h) - h[at].time
  BY ONLY <1>3, <1>4, TakenOut
<1>6. gs \in [Heaps -> Seq(Nodes)] /\ gs[i] = g /\ \A j \in Heaps : j # i => gs[j] = heap[j]
  BY <1>1, <1>2, <1>3, <1>5
<1>7. RankedInv'
  <2>1. sum_count' \in {0, sum_count}
    BY DEF SumAfter
  <2>2. QED BY <2>1, RankedLess DEF ExactInv
<1>8. Counts(gs, estimated', cur_count')
  <2>1. Total(LenOf(gs), Heaps) - Len(gs[i]) = Total(LenOf(heap), Heaps) - Len(heap[i])
    BY <1>1, <1>2, <1>6, CountsOne
  <2>2. cur_count = Total(LenOf(heap), Heaps) /\ cur_count \in Nat /\ Total(LenOf(gs), Heaps) \in Nat
    BY <1>1, <1>6, NoneCounted DEF ExactInv, Counts
  <2>3. cur_count' = Total(LenOf(gs), Heaps)
    <3>1. Len(heap[i]) = Len(h) /\ Len(gs[i]) = Len(h) - 1 /\ Len(h) \in Nat
      BY <1>3, <1>4, <1>5, <1>6
    <3>2. cur_count' = cur_count - 1
      OBVIOUS
    <3>3. QED BY <2>1, <2>2, <3>1, <3>2
  <2>4. TimeSum(g) \in Nat
    BY <1>5, TimeSumNat
  <2>5. estimated \in [Heaps -> Nat] /\ \A j \in Heaps : estimated[j] = TimeSum(heap[j])
    BY DEF ExactInv, Counts
  <2>6. estimated' \in [Heaps -> Nat] /\ \A j \in Heaps : estimated'[j] = TimeSum(gs[j])
    BY <1>2, <1>3, <1>5, <1>6, <2>4, <2>5
  <2>7. QED BY <2>3, <2>6 DEF Counts
<1>9. \A j \in Heaps : NoTies(gs[j]) /\ ToSet(gs[j]) \subseteq ToSet(heap[j])
  <2>1. \A j \in Heaps : NoTies(heap[j])
    BY DEF ExactInv, Numbered
  <2>2. QED BY <1>3, <1>5, <1>6, <2>1
<1>10. ExactInv'
  BY <1>3, <1>7, <1>8, <1>9, ExactWhenLess
<1>11. QED BY <1>2, <1>3, <1>5, <1>6, <1>10
LEMMA ExactEmptied ==
  ASSUME ExactInv, RankedInv', NEW hit, hit \subseteq Heaps,
         heap' = [i \in Heaps |-> IF i \in hit THEN <<>> ELSE heap[i]],
         estimated' = [i \in Heaps |-> IF i \in hit THEN 0 ELSE estimated[i]],
         cur_count' = cur_count - Total(LenOf(heap), hit),
         sum_count' = SumAfter(cur_count', sum_count)
  PROVE  ExactInv'
<1>1. heap \in [Heaps -> Seq(Nodes)]
  BY DEF ExactInv, RankedInv, Ranked
<1>2. PICK gs, est : gs = heap' /\ est = estimated'
  OBVIOUS
<1>3. /\ gs = [i \in Heaps |-> IF i \in hit THEN <<>> ELSE heap[i]]
      /\ est = [i \in Heaps |-> IF i \in hit THEN 0 ELSE estimated[i]]
  BY <1>2
<1>4. hit \in SUBSET Heaps
  OBVIOUS
<1>5. Total(LenOf(gs), Heaps) = Total(LenOf(heap), Heaps) - Total(LenOf(heap), hit)
  BY ONLY <1>1, <1>3, <1>4, CountsSome
<1>6. /\ cur_count = Total(LenOf(heap), Heaps)
      /\ estimated \in [Heaps -> Nat] /\ \A j \in Heaps : estimated[j] = TimeSum(heap[j])
  BY DEF ExactInv, Counts
<1>7. cur_count' = Total(LenOf(gs), Heaps)
  BY <1>5, <1>6
<1>8. est \in [Heaps -> Nat] /\ \A j \in Heaps : est[j] = TimeSum(gs[j])
  BY <1>3, <1>6, NothingIn
<1>9. Counts(gs, est, cur_count')
  BY <1>7, <1>8 DEF Counts
<1>10. \A j \in Heaps : NoTies(gs[j]) /\ ToSet(gs[j]) \subseteq ToSet(heap[j])
  <2>1. \A j \in Heaps : NoTies(heap[j])
    BY DEF ExactInv, Numbered
  <2>2. QED BY <1>3, <2>1, NothingIn
<1>11. QED BY <1>2, <1>9, <1>10, ExactWhenLess

LEMMA ExactCleanAll ==
  ASSUME ExactInv, CleanAll PROVE ExactInv'
<1>1. heap \in [Heaps -> Seq(Nodes)] /\ Ranked(heap, list)
  BY DEF ExactInv, RankedInv, Ranked
<1>2. PICK hit : hit = ToSet(list)
  OBVIOUS
<1>3. hit \subseteq Heaps
  BY <1>1, <1>2, RankedFirst
<1>4. RankedInv'
  BY RankedCleanAll DEF ExactInv
<1>5. /\ heap' = [i \in Heaps |-> IF i \in hit THEN <<>> ELSE heap[i]]
      /\ estimated' = [i \in Heaps |-> IF i \in hit THEN 0 ELSE estimated[i]]
      /\ cur_count' = 0 /\ sum_count' = 0
  BY <1>2 DEF CleanAll
<1>6. Total(LenOf(heap), hit) = cur_count
  <2>1. PICK e, S : e = LenOf(heap) /\ S = Heaps \ hit
    OBVIOUS
  <2>2. \A i \in Heaps : e[i] = Len(heap[i]) /\ e[i] \in Nat
    BY <1>1, <2>1, LenOfNat
  <2>3. \A i \in S : e[i] = 0
    <3>1. \A i \in S : heap[i] = <<>> /\ i \in Heaps
      BY <1>1, <1>2, <2>1 DEF Ranked
    <3>2. QED BY <2>2, <3>1
  <2>4. IsFiniteSet(S) /\ IsFiniteSet(hit) /\ S \cap hit = {} /\ S \cup hit = Heaps
    BY <1>3, <2>1, HeapsFinite, FS_Subset
  <2>5. \A i \in S \cup hit : e[i] \in Int
    BY <2>2, <2>4
  <2>6. Total(e, S \cup hit) = Total(e, S) + Total(e, hit)
    BY ONLY <2>4, <2>5, TotalUnion
  <2>7. Total(e, S) = 0
    BY ONLY <2>3, <2>4, TotalZero
  <2>8. Total(e, hit) \in Int
    <3>1. \A i \in hit : e[i] \in Int
      BY <2>5
    <3>2. QED BY ONLY <2>4, <3>1, TotalType
  <2>9. Total(e, Heaps) = Total(e, hit)
    BY <2>4, <2>6, <2>7, <2>8
  <2>10. QED BY <2>1, <2>9 DEF ExactInv, Counts
<1>7. cur_count \in Nat
  BY <1>1, NoneCounted DEF ExactInv, Counts
<1>8. cur_count' = cur_count - Total(LenOf(heap), hit) /\ sum_count' = SumAfter(cur_count', sum_count)
  BY <1>5, <1>6, <1>7 DEF SumAfter
<1>9. QED BY <1>3, <1>4, <1>5, <1>8, ExactEmptied

LEMMA ExactCleanTasksOn ==
  ASSUME ExactInv, NEW mask, CleanTasksOn(mask) PROVE ExactInv'
<1>1. Ranked(heap, list)
  BY DEF ExactInv, RankedInv
<1>2. PICK hit : hit = {i \in ToSet(list) : Mask(heap[i][1].kind) \cap mask # {}}
  OBVIOUS
<1>3. hit \subseteq Heaps
  BY <1>1, <1>2, RankedFirst
<1>4. RankedInv'
  BY RankedCleanTasksOn DEF ExactInv
<1>5. /\ heap' = [i \in Heaps |-> IF i \in hit THEN <<>> ELSE heap[i]]
      /\ estimated' = [i \in Heaps |-> IF i \in hit THEN 0 ELSE estimated[i]]
      /\ cur_count' = cur_count - MapThenSumSet(LAMBDA i : Len(heap[i]), hit)
      /\ sum_count' = SumAfter(cur_count', sum_count)
  BY <1>2 DEF CleanTasksOn
<1>6. MapThenSumSet(LAMBDA i : Len(heap[i]), hit) = Total(LenOf(heap), hit)
  BY <1>3, LenSumIs
<1>7. cur_count' = cur_count - Total(LenOf(heap), hit)
  BY <1>5, <1>6
<1>8. QED BY <1>3, <1>4, <1>5, <1>7, ExactEmptied

(* What a read and a clean of one task take.                               *)
LEMMA ReadTakes ==
  ASSUME ExactInv, NEW free, Read(free)
  PROVE  LET p == ScanStop(free)
             i == list[p]
         IN  /\ ExactInv' /\ p \in 1 .. Len(list) /\ CanRun(p, free)
             /\ \A q \in 1 .. Len(list) : q < p => ~CanRun(q, free)
             /\ i \in Heaps /\ ToSet(heap'[i]) = ToSet(heap[i]) \ {heap[i][1]}
             /\ \A j \in Heaps : j # i => heap'[j] = heap[j]
<1>1. PICK p, i : p = ScanStop(free) /\ i = list[p]
  OBVIOUS
<1>2. Ranked(heap, list) /\ list \in Seq(Heaps)
  BY DEF ExactInv, RankedInv, Ranked, Ordered
<1>3. /\ p # 0 /\ heap' = [heap EXCEPT ![i] = TakeOut(@, 1)]
      /\ list' = ReorderAfterDel(list, heap', i)
      /\ estimated' = [estimated EXCEPT ![i] = @ - heap[i][1].time]
      /\ cur_count' = cur_count - 1 /\ sum_count' = SumAfter(cur_count - 1, sum_count)
  BY <1>1 DEF Read
<1>4. /\ p \in 1 .. Len(list) /\ CanRun(p, free)
      /\ \A q \in 1 .. Len(list) : q < p => ~CanRun(q, free)
  BY <1>1, <1>2, <1>3, ScanIs
<1>5. i \in ToSet(list) /\ 1 \in 1 .. Len(heap[i])
  BY <1>1, <1>2, <1>4, RankedAt
<1>6. /\ ExactInv' /\ i \in Heaps /\ ToSet(heap'[i]) = ToSet(heap[i]) \ {heap[i][1]}
      /\ \A j \in Heaps : j # i => heap'[j] = heap[j]
  BY <1>3, <1>5, ExactLess
<1>7. QED BY <1>1, <1>4, <1>6

LEMMA CleanOneTakes ==
  ASSUME ExactInv, NEW t, CleanOne(t)
  PROVE  /\ ExactInv'
         /\ \E i \in ToSet(list) : \E at \in 1 .. Len(heap[i]) :
              /\ i \in Heaps /\ heap[i] \in Seq(Nodes) /\ heap[i][at].task = t
              /\ ToSet(heap'[i]) = ToSet(heap[i]) \ {heap[i][at]}
              /\ \A j \in Heaps : j # i => heap'[j] = heap[j]
<1>1. PICK i \in ToSet(list) : \E at \in DOMAIN heap[i] :
        /\ heap[i][at].task = t
        /\ heap' = [heap EXCEPT ![i] = TakeOut(@, at)]
        /\ list' = ReorderAfterDel(list, heap', i)
        /\ estimated' = [estimated EXCEPT ![i] = @ - heap[i][at].time]
        /\ cur_count' = cur_count - 1 /\ sum_count' = SumAfter(cur_count - 1, sum_count)
  BY DEF CleanOne
<1>2. heap[i] \in Seq(Nodes) /\ DOMAIN heap[i] = 1 .. Len(heap[i])
  <2>1. Ranked(heap, list)
    BY DEF ExactInv, RankedInv
  <2>2. heap[i] \in Seq(Nodes)
    BY <2>1, RankedFirst
  <2>3. QED BY <2>2
<1>3. PICK at \in 1 .. Len(heap[i]) :
        /\ heap[i][at].task = t
        /\ heap' = [heap EXCEPT ![i] = TakeOut(@, at)]
        /\ list' = ReorderAfterDel(list, heap', i)
        /\ estimated' = [estimated EXCEPT ![i] = @ - heap[i][at].time]
        /\ cur_count' = cur_count - 1 /\ sum_count' = SumAfter(cur_count - 1, sum_count)
  BY <1>1, <1>2
<1>4. /\ ExactInv' /\ i \in Heaps /\ ToSet(heap'[i]) = ToSet(heap[i]) \ {heap[i][at]}
      /\ \A j \in Heaps : j # i => heap'[j] = heap[j]
  BY <1>3, ExactLess
<1>5. QED BY <1>2, <1>3, <1>4

LEMMA ExactStep ==
  ASSUME MaxWrites < INDEX_MOD - 1 PROVE ExactInv /\ [Next]_vars => ExactInv'
<1>1. SUFFICES ASSUME ExactInv, [Next]_vars PROVE ExactInv'
  OBVIOUS
<1>2. ASSUME NEW t \in Tasks, NEW k \in Kinds, NEW pr \in 0 .. MaxPriority,
             NEW time \in Times, Write(t, k, pr, time)
      PROVE  ExactInv'
  BY <1>1, <1>2, ExactWrite
<1>3. ASSUME NEW free \in SUBSET Cores, Read(free) PROVE ExactInv'
  BY <1>1, <1>3, ReadTakes
<1>4. ASSUME CleanAll PROVE ExactInv'
  BY <1>1, <1>4, ExactCleanAll
<1>5. ASSUME NEW c \in Cores, CleanTasksOn({c}) PROVE ExactInv'
  <2>1. PICK mask : mask = {c}
    OBVIOUS
  <2>2. QED BY <1>1, <1>5, <2>1, ExactCleanTasksOn
<1>6. ASSUME NEW t \in Tasks, CleanOne(t) PROVE ExactInv'
  BY <1>1, <1>6, CleanOneTakes
<1>7. CASE UNCHANGED vars
  BY <1>1, <1>7 DEF vars, ExactInv, RankedInv
<1>8. QED BY <1>1, <1>2, <1>3, <1>4, <1>5, <1>6, <1>7 DEF Next

(* With fewer writes between two moments the queue is empty than sum_count *)
(* can number, what the counters count stays exact.                        *)
THEOREM ExactAlways ==
  ASSUME MaxWrites < INDEX_MOD - 1 PROVE Spec => []ExactInv
<1>1. Init => ExactInv
  BY ExactInit
<1>2. ExactInv /\ [Next]_vars => ExactInv'
  BY ExactStep
<1>3. QED BY <1>1, <1>2, PTL DEF Spec

(* cur_count and every estimated_time agree with the heaps after every     *)
(* operation, and sum_count restarts whenever the queue drains.            *)
THEOREM CountersAlwaysExact ==
  ASSUME MaxWrites < INDEX_MOD - 1 PROVE Spec => []CountersExact
<1>1. ExactInv => CountersExact
  <2>1. SUFFICES ASSUME ExactInv PROVE CountersExact
    OBVIOUS
  <2>2. /\ heap \in [Heaps -> Seq(Nodes)] /\ cur_count = Total(LenOf(heap), Heaps)
        /\ \A i \in Heaps : estimated[i] = TimeSum(heap[i])
        /\ cur_count = 0 => sum_count = 0
    BY <2>1 DEF ExactInv, RankedInv, Ranked, Counts
  <2>3. MapThenSumSet(LAMBDA i : Len(heap[i]), Heaps) = Total(LenOf(heap), Heaps)
    BY LenSumIs
  <2>4. ASSUME NEW i \in Heaps
        PROVE  estimated[i] = MapThenSumSet(LAMBDA p : heap[i][p].time, DOMAIN heap[i])
    <3>1. heap[i] \in Seq(Nodes)
      BY <2>2
    <3>2. MapThenSumSet(LAMBDA p : heap[i][p].time, DOMAIN heap[i]) = TimeSum(heap[i])
      BY <3>1, TimeSumIs
    <3>3. QED BY <2>2, <3>2
  <2>5. QED BY <2>2, <2>3, <2>4 DEF CountersExact
<1>2. QED BY <1>1, ExactAlways, PTL

(* The variables keep their types: no estimated_time falls below zero, and *)
(* cur_count never exceeds the number of tasks.                            *)
THEOREM QueueTypeCorrect ==
  ASSUME MaxWrites < INDEX_MOD - 1 PROVE Spec => []TypeOK
<1>1. ExactInv => TypeOK
  <2>1. SUFFICES ASSUME ExactInv PROVE TypeOK
    OBVIOUS
  <2>2. /\ heap \in [Heaps -> Seq(Nodes)] /\ list \in Seq(Heaps)
        /\ sum_count \in 0 .. INDEX_MOD - 1 /\ estimated \in [Heaps -> Nat]
        /\ cur_count = Total(LenOf(heap), Heaps) /\ Numbered(heap, sum_count)
    BY <2>1 DEF ExactInv, RankedInv, Ranked, Ordered, Counts
  <2>3. cur_count \in Nat /\ cur_count <= Cardinality(Tasks)
    BY <2>2, NoneCounted, AllCounted
  <2>4. Cardinality(Tasks) \in Nat
    BY QueueAssumption, FS_CardinalityType
  <2>5. QED BY <2>2, <2>3, <2>4 DEF TypeOK
<1>2. QED BY <1>1, ExactAlways, PTL
-----------------------------------------------------------------------------
(* Each kind has a heap of its own.                                        *)
LEMMA LaterKinds ==
  ASSUME NEW N \in Nat, NEW c \in Nat, NEW d \in Nat, NEW s \in Nat, NEW r \in Nat,
         1 <= c, c < d, d <= N, c + s <= N
  PROVE  ((2 * N - c + 2) * (c - 1)) \div 2 + s < ((2 * N - d + 2) * (d - 1)) \div 2 + r
<1>1. PICK X, Y : X = (2 * N - c + 2) * (c - 1) /\ Y = (2 * N - d + 2) * (d - 1)
  OBVIOUS
<1>2. PICK a, e : a = d - c - 1 /\ e = N - d
  OBVIOUS
<1>3. a \in Nat /\ e \in Nat /\ d = c + a + 1 /\ N = c + a + 1 + e
  BY <1>2
<1>4. X \in Int /\ Y \in Int
  BY <1>1
<1>5. Y - X - 2 * (N - c + 1) = a * (a + 2 * e + 3)
  BY <1>1, <1>3
<1>6. a * (a + 2 * e + 3) >= 0
  <2>1. a + 2 * e + 3 \in Nat
    BY <1>3
  <2>2. QED BY <1>3, <2>1
<1>7. Y >= X + 2 * (s + 1)
  <2>1. PICK z : z = a * (a + 2 * e + 3)
    OBVIOUS
  <2>2. Y - X - 2 * (N - c + 1) = z /\ z >= 0 /\ z \in Int
    BY <1>3, <1>5, <1>6, <2>1
  <2>3. QED BY ONLY <1>4, <2>2, N \in Nat, c \in Nat, s \in Nat, c + s <= N
<1>8. X \div 2 + s < Y \div 2 + r
  BY <1>4, <1>7
<1>9. QED BY <1>1, <1>8

LEMMA QueueIdInjective ==
  ASSUME NEW k \in Kinds, NEW m \in Kinds, QueueId(k[1], k[2]) = QueueId(m[1], m[2])
  PROVE  k = m
<1>1. NCores \in Nat
  BY QueueAssumption
<1>2. /\ k[1] \in Nat /\ 1 <= k[1] /\ k[2] \in Nat /\ k[1] + k[2] <= NCores /\ k = <<k[1], k[2]>>
      /\ m[1] \in Nat /\ 1 <= m[1] /\ m[2] \in Nat /\ m[1] + m[2] <= NCores /\ m = <<m[1], m[2]>>
  BY <1>1 DEF Kinds, Cores
<1>3. PICK N, c, s, d, r : N = NCores /\ c = k[1] /\ s = k[2] /\ d = m[1] /\ r = m[2]
  OBVIOUS
<1>4. /\ N \in Nat /\ c \in Nat /\ s \in Nat /\ d \in Nat /\ r \in Nat
      /\ 1 <= c /\ 1 <= d /\ c + s <= N /\ d + r <= N /\ c <= N /\ d <= N
  BY <1>1, <1>2, <1>3
<1>5. ((2 * N - c + 2) * (c - 1)) \div 2 + s = ((2 * N - d + 2) * (d - 1)) \div 2 + r
  BY <1>3 DEF QueueId
<1>6. PICK A, B : A = ((2 * N - c + 2) * (c - 1)) \div 2 /\ B = ((2 * N - d + 2) * (d - 1)) \div 2
  OBVIOUS
<1>7. A \in Int /\ B \in Int
  BY <1>4, <1>6
<1>8. ~(c < d)
  <2>1. SUFFICES ASSUME c < d PROVE FALSE
    OBVIOUS
  <2>2. A + s < B + r
    BY <1>4, <1>6, <2>1, LaterKinds
  <2>3. QED BY <1>4, <1>5, <1>6, <1>7, <2>2
<1>9. ~(d < c)
  <2>1. SUFFICES ASSUME d < c PROVE FALSE
    OBVIOUS
  <2>2. B + r < A + s
    BY <1>4, <1>6, <2>1, LaterKinds
  <2>3. QED BY <1>4, <1>5, <1>6, <1>7, <2>2
<1>10. c = d
  BY <1>4, <1>8, <1>9
<1>11. A = B /\ s = r
  BY <1>4, <1>5, <1>6, <1>7, <1>10
<1>12. QED BY <1>2, <1>3, <1>10, <1>11
-----------------------------------------------------------------------------
(* The heaps and the list as TaskPool sees them: the heads of the list are *)
(* the best entries of their kinds, and the list order is their order.     *)
Home(x) == QueueId(x.kind[1], x.kind[2])

LEMMA EntryFields ==
  ASSUME NEW x, NEW y
  PROVE  /\ EntryOf(x).task = x.task /\ EntryOf(x).kind = x.kind
         /\ EntryOf(x).priority = x.priority /\ EntryOf(x).index = x.index
         /\ Pool!Better(EntryOf(x), EntryOf(y)) <=> Cmp(x, y)
         /\ Pool!Mask(EntryOf(x).kind) = Mask(x.kind)
BY DEF EntryOf, Pool!Better, Cmp, Pool!Mask, Mask

LEMMA QueuedIs ==
  ASSUME ExactInv
  PROVE  /\ \A x \in Queued : /\ x \in Nodes /\ x.index < sum_count
                              /\ Home(x) \in Heaps /\ x \in ToSet(heap[Home(x)])
         /\ \A i \in Heaps : \A x \in ToSet(heap[i]) : x \in Queued /\ Home(x) = i
         /\ \A x, y \in Queued : x.index = y.index \/ x.task = y.task => x = y
         /\ \A x, y \in Queued : EntryOf(x) = EntryOf(y) => x = y
<1>1. heap \in [Heaps -> Seq(Nodes)] /\ Numbered(heap, sum_count)
  BY DEF ExactInv, RankedInv, Ranked
<1>2. ASSUME NEW i \in Heaps, NEW x \in ToSet(heap[i])
      PROVE  x \in Nodes /\ x.index < sum_count /\ Home(x) = i /\ x \in Queued
  <2>1. x \in Nodes
    BY <1>1 DEF ToSet
  <2>2. QED BY <1>1, <2>1 DEF Numbered, Home, Queued
<1>3. \A x \in Queued : \E i \in Heaps : x \in ToSet(heap[i])
  BY DEF Queued
<1>4. \A x, y \in Queued : x.index = y.index \/ x.task = y.task => x = y
  BY <1>1, <1>3 DEF Numbered
<1>5. \A x, y \in Queued : EntryOf(x) = EntryOf(y) => x = y
  BY <1>4, EntryFields
<1>6. QED BY <1>2, <1>3, <1>4, <1>5

LEMMA HeadsOrdered ==
  ASSUME ExactInv
  PROVE  /\ \A p \in 1 .. Len(list) : /\ HeadAt(p) \in Queued /\ HeadAt(p) \in Nodes
                                      /\ list[p] \in Heaps /\ Home(HeadAt(p)) = list[p]
         /\ \A p, q \in 1 .. Len(list) : Cmp(HeadAt(p), HeadAt(q)) <=> p < q
<1>1. Ranked(heap, list) /\ Len(list) \in Nat
  BY DEF ExactInv, RankedInv, Ranked, Ordered
<1>2. ASSUME NEW p \in 1 .. Len(list)
      PROVE  /\ HeadAt(p) \in Queued /\ HeadAt(p) \in Nodes
             /\ list[p] \in Heaps /\ Home(HeadAt(p)) = list[p]
  <2>1. list[p] \in Heaps /\ heap[list[p]] \in Seq(Nodes) /\ Len(heap[list[p]]) >= 1
    BY <1>1, RankedAt
  <2>2. 1 \in DOMAIN heap[list[p]]
    BY <2>1
  <2>3. HeadAt(p) \in ToSet(heap[list[p]])
    BY <2>2 DEF HeadAt, ToSet
  <2>4. QED BY <2>1, <2>3, QueuedIs
<1>3. ASSUME NEW p \in 1 .. Len(list), NEW q \in 1 .. Len(list), p < q
      PROVE  Cmp(HeadAt(p), HeadAt(q)) /\ ~Cmp(HeadAt(q), HeadAt(p))
  <2>1. list[p] # list[q] /\ ~Cmp(HeadAt(q), HeadAt(p))
    BY <1>1, <1>3 DEF Ranked, Ordered, HeadAt
  <2>2. HeadAt(p) # HeadAt(q)
    BY <1>2, <2>1
  <2>3. HeadAt(p).index # HeadAt(q).index
    BY <1>2, <2>2, QueuedIs
  <2>4. QED BY <1>2, <2>1, <2>3, CmpTotal
<1>4. ASSUME NEW p \in 1 .. Len(list), NEW q \in 1 .. Len(list)
      PROVE  Cmp(HeadAt(p), HeadAt(q)) <=> p < q
  <2>1. CASE p = q
    BY <1>2, <2>1, CmpOrder
  <2>2. p < q \/ q < p \/ p = q
    BY <1>1
  <2>3. QED BY <1>1, <1>3, <2>1, <2>2
<1>5. QED BY <1>2, <1>4

LEMMA HeadOfHeap ==
  ASSUME ExactInv, NEW x \in Queued
  PROVE  \E p \in 1 .. Len(list) :
           /\ list[p] = Home(x)
           /\ x = HeadAt(p) \/ (Cmp(HeadAt(p), x) /\ ~Cmp(x, HeadAt(p)))
<1>1. Ranked(heap, list)
  BY DEF ExactInv, RankedInv
<1>2. PICK i : i = Home(x)
  OBVIOUS
<1>3. i \in Heaps /\ x \in ToSet(heap[i]) /\ x \in Nodes
  BY <1>2, QueuedIs
<1>4. PICK h : h = heap[i]
  OBVIOUS
<1>5. h \in Seq(Nodes) /\ HeapUpTo(h, Len(h)) /\ DOMAIN h = 1 .. Len(h) /\ Len(h) \in Nat
  BY <1>1, <1>3, <1>4 DEF Ranked
<1>6. PICK at \in 1 .. Len(h) : x = h[at]
  BY <1>3, <1>4, <1>5 DEF ToSet
<1>7. Len(h) \in 1 .. Len(h)
  BY <1>5, <1>6
<1>8. ~Cmp(x, h[1])
  <2>1. PICK n : n = Len(h)
    OBVIOUS
  <2>2. h \in Seq(Nodes) /\ n \in 1 .. Len(h) /\ HeapUpTo(h, n)
    BY <1>5, <1>7, <2>1
  <2>3. \A p \in 1 .. n : ~Cmp(h[p], h[1])
    BY ONLY <2>2, RootBest
  <2>4. QED BY <1>6, <2>1, <2>3
<1>9. i \in ToSet(list) /\ DOMAIN list = 1 .. Len(list)
  <2>1. h # <<>>
    BY <1>7
  <2>2. QED BY <1>1, <1>3, <1>4, <2>1 DEF Ranked, Ordered
<1>10. PICK p \in 1 .. Len(list) : list[p] = i
  BY <1>9 DEF ToSet
<1>11. HeadAt(p) = h[1]
  BY <1>4, <1>10 DEF HeadAt
<1>12. HeadAt(p) \in Queued /\ HeadAt(p) \in Nodes
  BY HeadsOrdered
<1>13. CASE x # HeadAt(p)
  <2>1. x.index # HeadAt(p).index
    BY <1>12, <1>13, QueuedIs
  <2>2. ~Cmp(x, HeadAt(p))
    BY <1>8, <1>11
  <2>3. Cmp(HeadAt(p), x)
    BY ONLY <1>3, <1>12, <2>1, <2>2, CmpTotal
  <2>4. QED BY <1>2, <1>10, <2>2, <2>3
<1>14. QED BY <1>2, <1>10, <1>13

LEMMA HeadIs ==
  ASSUME ExactInv, NEW x \in Queued
  PROVE  Pool!IsHead(EntryOf(x)) <=> \E p \in 1 .. Len(list) : x = HeadAt(p)
<1>1. PICK p \in 1 .. Len(list) :
        list[p] = Home(x) /\ (x = HeadAt(p) \/ (Cmp(HeadAt(p), x) /\ ~Cmp(x, HeadAt(p))))
  BY HeadOfHeap
<1>2. HeadAt(p) \in Queued /\ Home(HeadAt(p)) = Home(x)
  BY <1>1, HeadsOrdered
<1>3. x \in Nodes /\ HeadAt(p) \in Nodes
  BY <1>2, QueuedIs
<1>4. HeadAt(p).kind = x.kind
  BY <1>2, <1>3, Fields, QueueIdInjective DEF Home
<1>5. ASSUME Pool!IsHead(EntryOf(x)) PROVE x = HeadAt(p)
  <2>1. EntryOf(HeadAt(p)) \in Waiting
    BY <1>2 DEF Waiting
  <2>2. ~Pool!Better(EntryOf(HeadAt(p)), EntryOf(x))
    BY <1>4, <1>5, <2>1, EntryFields DEF Pool!IsHead
  <2>3. QED BY <1>1, <2>2, EntryFields
<1>6. ASSUME NEW q \in 1 .. Len(list), x = HeadAt(q) PROVE Pool!IsHead(EntryOf(x))
  <2>1. EntryOf(x) \in Waiting
    BY DEF Waiting
  <2>2. ASSUME NEW f \in Waiting, f.kind = EntryOf(x).kind PROVE ~Pool!Better(f, EntryOf(x))
    <3>1. PICK y \in Queued : f = EntryOf(y)
      BY DEF Waiting
    <3>2. y.kind = x.kind
      BY <2>2, <3>1, EntryFields
    <3>3. PICK r \in 1 .. Len(list) :
            list[r] = Home(y) /\ (y = HeadAt(r) \/ (Cmp(HeadAt(r), y) /\ ~Cmp(y, HeadAt(r))))
      BY HeadOfHeap
    <3>4. list[r] = list[q]
      BY <1>6, <3>2, <3>3, HeadsOrdered DEF Home
    <3>5. HeadAt(r) = x
      BY <1>6, <3>4 DEF HeadAt
    <3>6. ~Cmp(y, x)
      BY <1>3, <3>3, <3>5, CmpOrder
    <3>7. QED BY <3>1, <3>6, EntryFields
  <2>3. QED BY <2>1, <2>2 DEF Pool!IsHead
<1>7. QED BY <1>5, <1>6

LEMMA AheadIs ==
  ASSUME ExactInv, NEW p \in 1 .. Len(list)
  PROVE  Pool!Ahead(EntryOf(HeadAt(p))) = {EntryOf(HeadAt(q)) : q \in 1 .. p - 1}
<1>1. Len(list) \in Nat /\ \A q \in 1 .. p - 1 : q \in 1 .. Len(list) /\ q < p
  BY DEF ExactInv, RankedInv, Ranked, Ordered
<1>2. ASSUME NEW h \in Pool!Ahead(EntryOf(HeadAt(p)))
      PROVE  \E q \in 1 .. p - 1 : h = EntryOf(HeadAt(q))
  <2>1. h \in Waiting /\ Pool!IsHead(h) /\ Pool!Better(h, EntryOf(HeadAt(p)))
    BY DEF Pool!Ahead
  <2>2. PICK x \in Queued : h = EntryOf(x)
    BY <2>1 DEF Waiting
  <2>3. PICK q \in 1 .. Len(list) : x = HeadAt(q)
    BY <2>1, <2>2, HeadIs
  <2>4. Cmp(HeadAt(q), HeadAt(p))
    BY <2>1, <2>2, <2>3, EntryFields
  <2>5. q \in 1 .. p - 1
    BY <1>1, <2>4, HeadsOrdered
  <2>6. QED BY <2>2, <2>3, <2>5
<1>3. ASSUME NEW q \in 1 .. p - 1 PROVE EntryOf(HeadAt(q)) \in Pool!Ahead(EntryOf(HeadAt(p)))
  <2>1. q \in 1 .. Len(list) /\ q < p
    BY <1>1
  <2>2. HeadAt(q) \in Queued /\ Cmp(HeadAt(q), HeadAt(p))
    BY <2>1, HeadsOrdered
  <2>3. Pool!IsHead(EntryOf(HeadAt(q)))
    BY <2>1, <2>2, HeadIs
  <2>4. QED BY <2>2, <2>3, EntryFields DEF Pool!Ahead, Waiting
<1>4. QED BY <1>2, <1>3

(* The running totals of the scan say what the better heads say one by one. *)
LEMMA MaskFree ==
  ASSUME ExactInv, NEW p \in 1 .. Len(list)
  PROVE  Mask(HeadAt(p).kind) \cap NeedMask(p) = {} <=>
           \A q \in 1 .. p - 1 : Mask(HeadAt(q).kind) \cap Mask(HeadAt(p).kind) = {}
BY DEF NeedMask

LEMMA MustWaitIs ==
  ASSUME ExactInv, NEW p \in 1 .. Len(list)
  PROVE  MustWait(p) <=>
           \E q \in 1 .. p - 1 :
             \/ HeadAt(q).priority - HeadAt(p).priority > MAX_PRIORITY_GAP
             \/ HeadAt(p).index - HeadAt(q).index > MAX_PREEMPT_COUNT
<1>1. Len(list) \in Nat /\ \A q \in 1 .. p - 1 : q \in 1 .. Len(list)
  BY DEF ExactInv, RankedInv, Ranked, Ordered
<1>2. MaxPriority \in Nat /\ MAX_PRIORITY_GAP \in Nat /\ MAX_PREEMPT_COUNT \in Nat /\ INDEX_MOD \in Nat \ {0}
  BY QueueAssumption
<1>3. \A q \in 1 .. Len(list) : HeadAt(q).priority \in 0 .. MaxPriority /\ HeadAt(q).index \in 0 .. INDEX_MOD - 1
  BY HeadsOrdered DEF Nodes
<1>4. PICK P, I :
        /\ P = {HeadAt(q).priority : q \in 1 .. p - 1} \cup {0}
        /\ I = {HeadAt(q).index : q \in 1 .. p - 1} \cup {INDEX_MOD - 1}
  OBVIOUS
<1>5. P \in SUBSET (0 .. MaxPriority) /\ P # {} /\ I \in SUBSET Nat /\ I # {}
  BY <1>1, <1>2, <1>3, <1>4
<1>6. (\A y \in P : y \in Int) /\ \A y \in I : y \in Int
  BY <1>2, <1>5
<1>7. PICK m, k : m = MaxPrioritySeen(p) /\ k = MinIndexSeen(p)
  OBVIOUS
<1>8. m \in P /\ \A y \in P : y <= m
  <2>1. m = Max(P)
    BY <1>4, <1>7 DEF MaxPrioritySeen
  <2>2. QED BY <1>2, <1>5, <2>1, MaxIs
<1>9. k \in I /\ \A y \in I : k <= y
  <2>1. k = Min(I)
    BY <1>4, <1>7 DEF MinIndexSeen
  <2>2. QED BY <1>5, <2>1, MinIs
<1>10. PICK b, x : b = HeadAt(p).priority /\ x = HeadAt(p).index
  OBVIOUS
<1>11. b \in Nat /\ x \in Nat /\ x <= INDEX_MOD - 1
  BY <1>2, <1>3, <1>10
<1>12. m - b > MAX_PRIORITY_GAP <=> \E q \in 1 .. p - 1 : HeadAt(q).priority - b > MAX_PRIORITY_GAP
  <2>1. ASSUME m - b > MAX_PRIORITY_GAP
        PROVE  \E q \in 1 .. p - 1 : HeadAt(q).priority - b > MAX_PRIORITY_GAP
    <3>1. m # 0
      BY <1>2, <1>11, <2>1
    <3>2. QED BY <1>4, <1>8, <2>1, <3>1
  <2>2. ASSUME NEW q \in 1 .. p - 1, HeadAt(q).priority - b > MAX_PRIORITY_GAP
        PROVE  m - b > MAX_PRIORITY_GAP
    <3>1. HeadAt(q).priority \in P
      BY <1>4
    <3>2. HeadAt(q).priority <= m
      BY <1>8, <3>1
    <3>3. HeadAt(q).priority \in Int /\ m \in Int
      BY <1>8, <1>6, <3>1
    <3>4. QED BY <1>2, <1>11, <2>2, <3>2, <3>3
  <2>3. QED BY <2>1, <2>2
<1>13. x - k > MAX_PREEMPT_COUNT <=> \E q \in 1 .. p - 1 : x - HeadAt(q).index > MAX_PREEMPT_COUNT
  <2>1. ASSUME x - k > MAX_PREEMPT_COUNT
        PROVE  \E q \in 1 .. p - 1 : x - HeadAt(q).index > MAX_PREEMPT_COUNT
    <3>1. k # INDEX_MOD - 1
      BY <1>2, <1>11, <2>1
    <3>2. QED BY <1>4, <1>9, <2>1, <3>1
  <2>2. ASSUME NEW q \in 1 .. p - 1, x - HeadAt(q).index > MAX_PREEMPT_COUNT
        PROVE  x - k > MAX_PREEMPT_COUNT
    <3>1. HeadAt(q).index \in I
      BY <1>4
    <3>2. k <= HeadAt(q).index
      BY <1>9, <3>1
    <3>3. HeadAt(q).index \in Int /\ k \in Int
      BY <1>9, <1>6, <3>1
    <3>4. QED BY <1>2, <1>11, <2>2, <3>2, <3>3
  <2>3. QED BY <2>1, <2>2
<1>14. MustWait(p) <=> m - b > MAX_PRIORITY_GAP \/ x - k > MAX_PREEMPT_COUNT
  BY <1>7, <1>10 DEF MustWait
<1>15. QED BY <1>10, <1>12, <1>13, <1>14

LEMMA QualifiesIs ==
  ASSUME ExactInv, NEW p \in 1 .. Len(list), NEW free
  PROVE  CanRun(p, free) <=> Pool!Qualifies(EntryOf(HeadAt(p)), free)
<1>1. PICK e : e = EntryOf(HeadAt(p))
  OBVIOUS
<1>2. Pool!IsHead(e)
  BY <1>1, HeadsOrdered, HeadIs
<1>3. Pool!Ahead(e) = {EntryOf(HeadAt(q)) : q \in 1 .. p - 1}
  BY <1>1, AheadIs
<1>4. Pool!Fits(e, free) <=> Mask(HeadAt(p).kind) \subseteq free
  BY <1>1, EntryFields DEF Pool!Fits
<1>5. (\A h \in Pool!Ahead(e) : Pool!Mask(h.kind) \cap Pool!Mask(e.kind) = {}) <=>
        Mask(HeadAt(p).kind) \cap NeedMask(p) = {}
  <2>1. \A q \in 1 .. p - 1 :
          Pool!Mask(EntryOf(HeadAt(q)).kind) = Mask(HeadAt(q).kind)
    BY EntryFields
  <2>2. Pool!Mask(e.kind) = Mask(HeadAt(p).kind)
    BY <1>1, EntryFields
  <2>3. (\A h \in Pool!Ahead(e) : Pool!Mask(h.kind) \cap Pool!Mask(e.kind) = {}) <=>
          \A q \in 1 .. p - 1 : Mask(HeadAt(q).kind) \cap Mask(HeadAt(p).kind) = {}
    BY <1>3, <2>1, <2>2
  <2>4. QED BY <2>3, MaskFree
<1>6. (\A h \in Pool!Ahead(e) : /\ h.priority - e.priority <= MAX_PRIORITY_GAP
                                /\ e.index - h.index <= MAX_PREEMPT_COUNT) <=> ~MustWait(p)
  <2>1. \A q \in 1 .. p - 1 : /\ EntryOf(HeadAt(q)).priority = HeadAt(q).priority
                              /\ EntryOf(HeadAt(q)).index = HeadAt(q).index
    BY EntryFields
  <2>2. e.priority = HeadAt(p).priority /\ e.index = HeadAt(p).index
    BY <1>1, EntryFields
  <2>3. \A q \in 1 .. Len(list) : HeadAt(q).priority \in Int /\ HeadAt(q).index \in Int
    BY HeadsOrdered, Fields
  <2>4. Len(list) \in Nat /\ \A q \in 1 .. p - 1 : q \in 1 .. Len(list)
    BY DEF ExactInv, RankedInv, Ranked, Ordered
  <2>5. MAX_PRIORITY_GAP \in Int /\ MAX_PREEMPT_COUNT \in Int
    BY QueueAssumption
  <2>6. (\A h \in Pool!Ahead(e) : /\ h.priority - e.priority <= MAX_PRIORITY_GAP
                                  /\ e.index - h.index <= MAX_PREEMPT_COUNT) <=>
        \A q \in 1 .. p - 1 : /\ HeadAt(q).priority - HeadAt(p).priority <= MAX_PRIORITY_GAP
                              /\ HeadAt(p).index - HeadAt(q).index <= MAX_PREEMPT_COUNT
    BY <1>3, <2>1, <2>2
  <2>7. \A q \in 1 .. p - 1 :
          /\ ~(HeadAt(q).priority - HeadAt(p).priority > MAX_PRIORITY_GAP) <=>
               HeadAt(q).priority - HeadAt(p).priority <= MAX_PRIORITY_GAP
          /\ ~(HeadAt(p).index - HeadAt(q).index > MAX_PREEMPT_COUNT) <=>
               HeadAt(p).index - HeadAt(q).index <= MAX_PREEMPT_COUNT
    BY <2>3, <2>4, <2>5
  <2>8. QED BY <2>6, <2>7, MustWaitIs
<1>7. Pool!MayOvertake(e) <=> Mask(HeadAt(p).kind) \cap NeedMask(p) = {} \/ ~MustWait(p)
  BY <1>5, <1>6 DEF Pool!MayOvertake
<1>8. QED BY <1>1, <1>2, <1>4, <1>7 DEF CanRun, Pool!Qualifies

LEMMA SelectedIs ==
  ASSUME ExactInv, NEW free
  PROVE  /\ ScanStop(free) = 0 => \A e \in Waiting : ~Pool!Selected(e, free)
         /\ ScanStop(free) # 0 => Pool!Selected(EntryOf(HeadAt(ScanStop(free))), free)
<1>1. list \in Seq(Heaps) /\ Len(list) \in Nat
  BY DEF ExactInv, RankedInv, Ranked, Ordered
<1>2. PICK p : p = ScanStop(free)
  OBVIOUS
<1>3. /\ p \in 0 .. Len(list)
      /\ p # 0 => CanRun(p, free)
      /\ \A q \in 1 .. Len(list) : p = 0 \/ q < p => ~CanRun(q, free)
  BY <1>1, <1>2, ScanIs
<1>4. ASSUME p = 0, NEW e \in Waiting PROVE ~Pool!Selected(e, free)
  <2>1. SUFFICES ASSUME Pool!Selected(e, free) PROVE FALSE
    OBVIOUS
  <2>2. PICK x \in Queued : e = EntryOf(x)
    BY DEF Waiting
  <2>3. Pool!Qualifies(e, free) /\ Pool!IsHead(e)
    BY <2>1 DEF Pool!Selected, Pool!Qualifies
  <2>4. PICK q \in 1 .. Len(list) : x = HeadAt(q)
    BY <2>2, <2>3, HeadIs
  <2>5. QED BY <1>3, <1>4, <2>2, <2>3, <2>4, QualifiesIs
<1>5. ASSUME p # 0 PROVE Pool!Selected(EntryOf(HeadAt(p)), free)
  <2>1. p \in 1 .. Len(list)
    <3>1. p \in 0 .. Len(list) /\ p # 0 /\ Len(list) \in Nat
      BY <1>1, <1>3, <1>5
    <3>2. QED BY <3>1
  <2>2. Pool!Qualifies(EntryOf(HeadAt(p)), free)
    BY <1>3, <1>5, <2>1, QualifiesIs
  <2>3. ASSUME NEW q \in 1 .. p - 1 PROVE ~Pool!Qualifies(EntryOf(HeadAt(q)), free)
    <3>1. q \in 1 .. Len(list) /\ q < p
      BY <1>1, <2>1
    <3>2. QED BY <1>3, <3>1, QualifiesIs
  <2>4. Pool!Ahead(EntryOf(HeadAt(p))) = {EntryOf(HeadAt(q)) : q \in 1 .. p - 1}
    BY <2>1, AheadIs
  <2>5. QED BY <2>2, <2>3, <2>4 DEF Pool!Selected
<1>6. QED BY <1>2, <1>4, <1>5

(* Whatever cores are free, queue_read finds the task the selection rule   *)
(* of TaskPool names, and none when that rule names none.                  *)
THEOREM ScanAlwaysSelects ==
  ASSUME MaxWrites < INDEX_MOD - 1 PROVE Spec => []ScanSelects
<1>1. ExactInv => ScanSelects
  BY SelectedIs DEF ScanSelects
<1>2. QED BY <1>1, ExactAlways, PTL
-----------------------------------------------------------------------------
(* What each operation does to the waiting tasks.                          *)
NodesIn(hs) == UNION {ToSet(hs[i]) : i \in Heaps}

LEMMA NoneWaiting ==
  ASSUME NEW hs, hs \in [Heaps -> Seq(Nodes)], NEW est, NEW cur, Counts(hs, est, cur)
  PROVE  cur = 0 <=> NodesIn(hs) = {}
<1>1. cur = 0 <=> \A i \in Heaps : hs[i] = <<>>
  BY NoneCounted DEF Counts
<1>2. ASSUME NEW i \in Heaps PROVE hs[i] = <<>> <=> ToSet(hs[i]) = {}
  <2>1. hs[i] \in Seq(Nodes)
    OBVIOUS
  <2>2. hs[i] # <<>> => hs[i][1] \in ToSet(hs[i])
    BY <2>1 DEF ToSet
  <2>3. QED BY <2>2, NothingIn
<1>3. QED BY <1>1, <1>2 DEF NodesIn

LEMMA WaitingAfter ==
  ASSUME ExactInv' PROVE cur_count' = 0 <=> Waiting' = {}
<1>1. PICK gs, est, cur : gs = heap' /\ est = estimated' /\ cur = cur_count'
  OBVIOUS
<1>2. gs \in [Heaps -> Seq(Nodes)] /\ Counts(gs, est, cur)
  BY <1>1 DEF ExactInv, RankedInv, Ranked
<1>3. cur = 0 <=> NodesIn(gs) = {}
  BY <1>2, NoneWaiting
<1>4. QED BY <1>1, <1>3 DEF Waiting, Queued, NodesIn

LEMMA PoolSum ==
  ASSUME ExactInv', sum_count' = SumAfter(cur_count', sum_count), NEW rest, Waiting' = rest
  PROVE  sum_count' = Pool!SumAfter(rest, sum_count)
<1>1. cur_count' = 0 <=> Waiting' = {}
  BY WaitingAfter
<1>2. QED BY <1>1 DEF SumAfter, Pool!SumAfter

LEMMA PoolWrite ==
  ASSUME ExactInv, MaxWrites < INDEX_MOD - 1,
         NEW t \in Tasks, NEW k \in Kinds, NEW pr \in 0 .. MaxPriority,
         NEW time \in Times, Write(t, k, pr, time)
  PROVE  Pool!Write(t, k, pr)
<1>1. PICK i, node :
        /\ i = QueueId(k[1], k[2])
        /\ node = [task |-> t, kind |-> k, priority |-> pr, time |-> time, index |-> sum_count]
  OBVIOUS
<1>2. /\ i \in Heaps /\ ToSet(heap'[i]) = ToSet(heap[i]) \cup {node}
      /\ \A j \in Heaps : j # i => heap'[j] = heap[j]
      /\ sum_count' = sum_count + 1
  <2>1. i \in Heaps
    BY <1>1, QueueIdType
  <2>2. QED BY <1>1, <2>1, ExactWrite
<1>3. Queued' = Queued \cup {node}
  BY <1>2 DEF Queued
<1>4. EntryOf(node) = [task |-> t, kind |-> k, priority |-> pr, index |-> sum_count]
  BY <1>1 DEF EntryOf
<1>5. Waiting' = Waiting \cup {EntryOf(node)}
  BY <1>3 DEF Waiting
<1>6. \A e \in Waiting : e.task # t
  BY EntryFields DEF Write, Waiting
<1>7. sum_count < MaxWrites
  BY DEF Write
<1>8. QED BY <1>2, <1>4, <1>5, <1>6, <1>7 DEF Pool!Write

(* One node leaves. *)
LEMMA PoolLess ==
  ASSUME ExactInv, NEW i \in Heaps, NEW x \in ToSet(heap[i]),
         ToSet(heap'[i]) = ToSet(heap[i]) \ {x},
         \A j \in Heaps : j # i => heap'[j] = heap[j]
  PROVE  Waiting' = Waiting \ {EntryOf(x)} /\ x \in Queued /\ EntryOf(x) \in Waiting
<1>1. x \in Queued /\ \A j \in Heaps : j # i => x \notin ToSet(heap[j])
  BY QueuedIs
<1>2. Queued' = Queued \ {x}
  BY <1>1 DEF Queued
<1>3. \A y \in Queued : EntryOf(y) = EntryOf(x) => y = x
  BY <1>1, QueuedIs
<1>4. QED BY <1>1, <1>2, <1>3 DEF Waiting

LEMMA PoolRead ==
  ASSUME ExactInv, NEW free \in SUBSET Cores, Read(free)
  PROVE  \E e \in Waiting : Pool!Read(e, free)
<1>1. PICK p, i, x : p = ScanStop(free) /\ i = list[p] /\ x = heap[i][1]
  OBVIOUS
<1>2. /\ ExactInv' /\ p \in 1 .. Len(list)
      /\ i \in Heaps /\ ToSet(heap'[i]) = ToSet(heap[i]) \ {x}
      /\ \A j \in Heaps : j # i => heap'[j] = heap[j]
  BY <1>1, ReadTakes
<1>3. x = HeadAt(p) /\ x \in ToSet(heap[i])
  <2>1. x = HeadAt(p)
    BY <1>1 DEF HeadAt
  <2>2. x \in Queued /\ Home(x) = i
    BY <1>1, <1>2, <2>1, HeadsOrdered
  <2>3. QED BY <2>1, <2>2, QueuedIs
<1>4. Waiting' = Waiting \ {EntryOf(x)} /\ EntryOf(x) \in Waiting
  BY <1>2, <1>3, PoolLess
<1>5. Pool!Selected(EntryOf(x), free)
  BY <1>1, <1>2, <1>3, SelectedIs
<1>6. sum_count' = SumAfter(cur_count', sum_count)
  BY DEF Read
<1>7. sum_count' = Pool!SumAfter(Waiting \ {EntryOf(x)}, sum_count)
  BY <1>2, <1>4, <1>6, PoolSum
<1>8. QED BY <1>4, <1>5, <1>7 DEF Pool!Read

LEMMA PoolCleanAll ==
  ASSUME ExactInv, CleanAll PROVE Pool!CleanAll
<1>1. Ranked(heap, list) /\ list \in Seq(Heaps)
  BY DEF ExactInv, RankedInv, Ranked, Ordered
<1>2. list # <<>> /\ sum_count' = 0 /\ cur_count' = 0
  BY DEF CleanAll
<1>3. Waiting # {}
  <2>1. 1 \in 1 .. Len(list)
    BY <1>1, <1>2
  <2>2. QED BY <2>1, HeadsOrdered DEF Waiting
<1>4. ExactInv'
  BY ExactCleanAll
<1>5. Waiting' = {}
  <2>1. cur_count' = 0 <=> Waiting' = {}
    BY <1>4, WaitingAfter
  <2>2. QED BY <1>2, <2>1
<1>6. QED BY <1>2, <1>3, <1>5 DEF Pool!CleanAll

LEMMA PoolCleanTasksOn ==
  ASSUME ExactInv, NEW mask, CleanTasksOn(mask) PROVE Pool!CleanTasksOn(mask)
<1>1. Ranked(heap, list) /\ DOMAIN list = 1 .. Len(list)
  BY DEF ExactInv, RankedInv, Ranked, Ordered
<1>2. PICK hit : hit = {i \in ToSet(list) : Mask(heap[i][1].kind) \cap mask # {}}
  OBVIOUS
<1>3. /\ hit # {} /\ heap' = [i \in Heaps |-> IF i \in hit THEN <<>> ELSE heap[i]]
      /\ sum_count' = SumAfter(cur_count', sum_count)
  BY <1>2 DEF CleanTasksOn
<1>4. ExactInv'
  BY ExactCleanTasksOn
<1>5. ASSUME NEW x \in Queued
      PROVE  Home(x) \in hit <=> Mask(x.kind) \cap mask # {}
  <2>1. PICK p \in 1 .. Len(list) : list[p] = Home(x)
    BY HeadOfHeap
  <2>2. PICK h : h = HeadAt(p)
    OBVIOUS
  <2>3. h \in Nodes /\ Home(h) = Home(x) /\ x \in Nodes /\ h = heap[Home(x)][1]
    <3>1. h = heap[Home(x)][1]
      BY <2>1, <2>2 DEF HeadAt
    <3>2. QED BY <2>1, <2>2, <3>1, HeadsOrdered, QueuedIs
  <2>4. h.kind = x.kind
    BY <2>3, Fields, QueueIdInjective DEF Home
  <2>5. Home(x) \in ToSet(list)
    BY <1>1, <2>1 DEF ToSet
  <2>6. QED BY <1>2, <2>3, <2>4, <2>5
<1>6. Queued' = {x \in Queued : Mask(x.kind) \cap mask = {}}
  <2>1. ASSUME NEW x \in Queued' PROVE x \in Queued /\ Mask(x.kind) \cap mask = {}
    <3>1. PICK i \in Heaps : x \in ToSet(heap'[i])
      BY DEF Queued
    <3>2. i \notin hit /\ x \in ToSet(heap[i])
      BY <1>3, <3>1, NothingIn
    <3>3. x \in Queued /\ Home(x) = i
      BY <3>2, QueuedIs
    <3>4. QED BY <1>5, <3>2, <3>3
  <2>2. ASSUME NEW x \in Queued, Mask(x.kind) \cap mask = {} PROVE x \in Queued'
    <3>1. Home(x) \notin hit /\ Home(x) \in Heaps /\ x \in ToSet(heap[Home(x)])
      BY <1>5, <2>2, QueuedIs
    <3>2. heap'[Home(x)] = heap[Home(x)]
      BY <1>3, <3>1
    <3>3. QED BY <3>1, <3>2 DEF Queued
  <2>3. QED BY <2>1, <2>2
<1>7. PICK rest : rest = {e \in Waiting : Pool!Mask(e.kind) \cap mask = {}}
  OBVIOUS
<1>8. Waiting' = rest
  <2>1. \A x \in Queued : Pool!Mask(EntryOf(x).kind) = Mask(x.kind)
    BY EntryFields
  <2>2. QED BY <1>6, <1>7, <2>1 DEF Waiting
<1>9. rest # Waiting
  <2>1. PICK i \in hit : TRUE
    BY <1>3
  <2>2. PICK p \in 1 .. Len(list) : i = list[p]
    BY <1>1, <1>2, <2>1 DEF ToSet
  <2>3. HeadAt(p) \in Queued /\ Mask(HeadAt(p).kind) \cap mask # {}
    BY <1>2, <2>1, <2>2, HeadsOrdered DEF HeadAt
  <2>4. EntryOf(HeadAt(p)) \in Waiting /\ EntryOf(HeadAt(p)) \notin rest
    BY <1>7, <2>3, EntryFields DEF Waiting
  <2>5. QED BY <2>4
<1>10. sum_count' = Pool!SumAfter(rest, sum_count)
  BY <1>3, <1>4, <1>8, PoolSum
<1>11. QED BY <1>7, <1>8, <1>9, <1>10 DEF Pool!CleanTasksOn

LEMMA PoolCleanOne ==
  ASSUME ExactInv, NEW t, CleanOne(t) PROVE Pool!CleanOne(t)
<1>1. PICK i \in ToSet(list) : \E at \in 1 .. Len(heap[i]) :
        /\ i \in Heaps /\ heap[i] \in Seq(Nodes) /\ heap[i][at].task = t
        /\ ToSet(heap'[i]) = ToSet(heap[i]) \ {heap[i][at]}
        /\ \A j \in Heaps : j # i => heap'[j] = heap[j]
  BY CleanOneTakes
<1>2. PICK at \in 1 .. Len(heap[i]) :
        /\ i \in Heaps /\ heap[i] \in Seq(Nodes) /\ heap[i][at].task = t
        /\ ToSet(heap'[i]) = ToSet(heap[i]) \ {heap[i][at]}
        /\ \A j \in Heaps : j # i => heap'[j] = heap[j]
  BY <1>1
<1>3. PICK x : x = heap[i][at]
  OBVIOUS
<1>4. x \in ToSet(heap[i])
  <2>1. DOMAIN heap[i] = 1 .. Len(heap[i])
    BY <1>2
  <2>2. QED BY <1>2, <1>3, <2>1 DEF ToSet
<1>5. Waiting' = Waiting \ {EntryOf(x)} /\ x \in Queued /\ EntryOf(x) \in Waiting
  BY <1>2, <1>3, <1>4, PoolLess
<1>6. PICK rest : rest = {e \in Waiting : e.task # t}
  OBVIOUS
<1>7. Waiting' = rest
  <2>1. \A y \in Queued : y.task = t => y = x
    BY <1>2, <1>3, <1>5, QueuedIs
  <2>2. x.task = t
    BY <1>2, <1>3
  <2>3. \A e \in Waiting : e.task = t <=> e = EntryOf(x)
    BY <2>1, <2>2, EntryFields DEF Waiting
  <2>4. QED BY <1>5, <1>6, <2>3
<1>8. sum_count' = SumAfter(cur_count', sum_count)
  BY DEF CleanOne
<1>9. ExactInv'
  BY CleanOneTakes
<1>10. sum_count' = Pool!SumAfter(rest, sum_count)
  BY <1>7, <1>8, <1>9, PoolSum
<1>11. QED BY <1>5, <1>6, <1>7, <1>10 DEF Pool!CleanOne

(* Each operation of the queue is the operation of the same name on the    *)
(* set of waiting tasks.                                                   *)
LEMMA StepAgrees ==
  ASSUME ExactInv, MaxWrites < INDEX_MOD - 1 PROVE OperationsAgree
<1>1. ASSUME NEW t \in Tasks, NEW k \in Kinds, NEW pr \in 0 .. MaxPriority,
             NEW time \in Times, Write(t, k, pr, time)
      PROVE  Pool!Write(t, k, pr)
  BY <1>1, PoolWrite
<1>2. ASSUME NEW free \in SUBSET Cores, Read(free)
      PROVE  \E e \in Waiting : Pool!Read(e, free)
  BY <1>2, PoolRead
<1>3. CleanAll => Pool!CleanAll
  BY PoolCleanAll
<1>4. ASSUME NEW c \in Cores, CleanTasksOn({c}) PROVE Pool!CleanTasksOn({c})
  <2>1. PICK mask : mask = {c}
    OBVIOUS
  <2>2. CleanTasksOn(mask)
    BY <1>4, <2>1
  <2>3. QED BY <2>1, <2>2, PoolCleanTasksOn
<1>5. ASSUME NEW t \in Tasks, CleanOne(t) PROVE Pool!CleanOne(t)
  BY <1>5, PoolCleanOne
<1>6. QED BY <1>1, <1>2, <1>3, <1>4, <1>5 DEF OperationsAgree

LEMMA StepImplements ==
  ASSUME MaxWrites < INDEX_MOD - 1
  PROVE  ExactInv /\ [Next]_vars => [Pool!PoolNext]_<<Waiting, sum_count>> /\ [OperationsAgree]_vars
<1>1. SUFFICES ASSUME ExactInv, [Next]_vars
               PROVE  [Pool!PoolNext]_<<Waiting, sum_count>> /\ [OperationsAgree]_vars
  OBVIOUS
<1>2. OperationsAgree
  BY <1>1, StepAgrees
<1>3. Pool!Kinds = Kinds /\ Pool!Cores = Cores
  BY DEF Pool!Kinds, Kinds, Pool!Cores, Cores
<1>4. ASSUME NEW t \in Tasks, NEW k \in Kinds, NEW pr \in 0 .. MaxPriority,
             NEW time \in Times, Write(t, k, pr, time)
      PROVE  Pool!PoolNext
  BY <1>2, <1>3, <1>4 DEF OperationsAgree, Pool!PoolNext
<1>5. ASSUME NEW free \in SUBSET Cores, Read(free) PROVE Pool!PoolNext
  BY <1>2, <1>3, <1>5 DEF OperationsAgree, Pool!PoolNext
<1>6. ASSUME CleanAll PROVE Pool!PoolNext
  BY <1>2, <1>6 DEF OperationsAgree, Pool!PoolNext
<1>7. ASSUME NEW c \in Cores, CleanTasksOn({c}) PROVE Pool!PoolNext
  BY <1>2, <1>3, <1>7 DEF OperationsAgree, Pool!PoolNext
<1>8. ASSUME NEW t \in Tasks, CleanOne(t) PROVE Pool!PoolNext
  BY <1>2, <1>8 DEF OperationsAgree, Pool!PoolNext
<1>9. CASE UNCHANGED vars
  BY <1>9 DEF vars, Waiting, Queued
<1>10. QED BY <1>1, <1>2, <1>4, <1>5, <1>6, <1>7, <1>8, <1>9 DEF Next

LEMMA InitImplements == Init => Pool!PoolInit
<1>1. SUFFICES ASSUME Init PROVE Pool!PoolInit
  OBVIOUS
<1>2. \A i \in Heaps : ToSet(heap[i]) = {}
  BY <1>1, NothingIn DEF Init
<1>3. Waiting = {}
  BY <1>2 DEF Waiting, Queued
<1>4. QED BY <1>1, <1>3 DEF Init, Pool!PoolInit

(* The heaps and the list implement TaskPool: a write adds its task, a     *)
(* clean drops exactly the tasks it names, and queue_read takes one task   *)
(* that the selection rule allows; nothing else is lost or changed.        *)
THEOREM QueueImplementsPool ==
  ASSUME MaxWrites < INDEX_MOD - 1 PROVE Spec => PoolSpec
<1>1. ExactInv /\ [Next]_vars => [Pool!PoolNext]_<<Waiting, sum_count>> /\ [OperationsAgree]_vars
  BY StepImplements
<1>2. QED BY <1>1, InitImplements, ExactAlways, PTL
     DEF Spec, PoolSpec, Pool!PoolSpec, Pool!poolVars

-----------------------------------------------------------------------------
(* The choice of cores: the sliding window finds the first of the least    *)
(* loaded runs of cores, and the loads it is given are the times of the    *)
(* waiting tasks.                                                          *)
(*                                                                         *)
(* The window is described by the cores it covers: before round i its      *)
(* positions lie between lo, the first core of the next run, and i, its    *)
(* loads decrease, and every core from lo on has one in the window that is *)
(* no earlier and no less loaded (Covers).  So its first is the busiest.   *)
Covers(w, load, lo, i) ==
  /\ w \in Seq(Nat)
  /\ \A p \in 1 .. Len(w) : lo <= w[p] /\ w[p] < i
  /\ \A p, q \in 1 .. Len(w) : p < q => w[p] < w[q] /\ load[w[p]] > load[w[q]]
  /\ \A j \in lo .. i - 1 : \E p \in 1 .. Len(w) : w[p] >= j /\ load[w[p]] >= load[j]

(* The first core of the run that ends with core i - 1. *)
FirstOf(i, cnt) == IF i < cnt THEN 0 ELSE i - cnt

LEMMA SlideCovers ==
  ASSUME NEW i \in Nat, NEW cnt \in Nat \ {0}, NEW load, NEW w, Covers(w, load, FirstOf(i, cnt), i)
  PROVE  Covers(Slide(w, cnt, i), load, FirstOf(i + 1, cnt), i)
<1>1. PICK L, lo, up : L = Len(w) /\ lo = FirstOf(i, cnt) /\ up = FirstOf(i + 1, cnt)
  OBVIOUS
<1>2. /\ w \in Seq(Nat) /\ L \in Nat /\ lo \in Nat /\ up \in Nat /\ lo <= up
      /\ \A p \in 1 .. L : w[p] \in Nat
  BY <1>1 DEF Covers, FirstOf
<1>3. w # <<>> => Head(w) = w[1] /\ L >= 1
  BY <1>1, <1>2
<1>4. CASE w # <<>> /\ i - Head(w) >= cnt
  <2>1. i >= cnt /\ w[1] = lo /\ up = lo + 1 /\ lo = i - cnt /\ L >= 1
    <3>1. w[1] >= lo /\ w[1] \in Nat /\ i - w[1] >= cnt /\ L >= 1
      BY <1>1, <1>2, <1>3, <1>4 DEF Covers
    <3>2. QED BY <1>1, <3>1 DEF FirstOf
  <2>2. PICK v : v = Tail(w)
    OBVIOUS
  <2>3. v \in Seq(Nat) /\ Len(v) = L - 1 /\ \A p \in 1 .. L - 1 : v[p] = w[p + 1]
    BY <1>1, <1>2, <1>4, <2>2
  <2>4. \A p \in 1 .. L - 1 : p + 1 \in 1 .. L /\ 1 < p + 1
    BY <1>2
  <2>5. \A p \in 1 .. L - 1 : up <= v[p] /\ v[p] < i
    <3>1. \A p \in 1 .. L - 1 : w[1] < w[p + 1] /\ w[p + 1] < i /\ w[p + 1] \in Nat
      BY <1>1, <1>2, <2>1, <2>4 DEF Covers
    <3>2. QED BY <2>1, <2>3, <3>1
  <2>6. \A p, q \in 1 .. L - 1 : p < q => v[p] < v[q] /\ load[v[p]] > load[v[q]]
    <3>1. \A p, q \in 1 .. L - 1 : p < q => p + 1 < q + 1
      BY <1>2
    <3>2. QED BY <1>1, <2>3, <2>4, <3>1 DEF Covers
  <2>7. ASSUME NEW j \in up .. i - 1
        PROVE  \E p \in 1 .. L - 1 : v[p] >= j /\ load[v[p]] >= load[j]
    <3>1. j \in lo .. i - 1
      BY <1>2
    <3>2. PICK p \in 1 .. L : w[p] >= j /\ load[w[p]] >= load[j]
      BY <1>1, <3>1 DEF Covers
    <3>3. p # 1
      BY <1>2, <2>1, <3>2
    <3>4. p - 1 \in 1 .. L - 1 /\ v[p - 1] = w[p]
      BY <1>2, <2>3, <3>3
    <3>5. QED BY <3>2, <3>4
  <2>8. Slide(w, cnt, i) = v
    BY <1>4, <2>2 DEF Slide
  <2>9. QED BY <1>1, <2>3, <2>5, <2>6, <2>7, <2>8 DEF Covers
<1>5. CASE ~(w # <<>> /\ i - Head(w) >= cnt)
  <2>1. Slide(w, cnt, i) = w
    BY <1>5 DEF Slide
  <2>2. \A p \in 1 .. L : up <= w[p]
    <3>1. L = 0 \/ (L >= 1 /\ i - w[1] < cnt)
      BY <1>1, <1>2, <1>3, <1>5
    <3>2. ASSUME NEW p \in 1 .. L PROVE w[1] <= w[p]
      <4>1. 1 \in 1 .. L /\ (p = 1 \/ 1 < p)
        BY <1>2
      <4>2. p = 1 \/ w[1] < w[p]
        BY <1>1, <4>1 DEF Covers
      <4>3. w[1] \in Nat /\ w[p] \in Nat
        BY <1>2, <4>1
      <4>4. QED BY <4>2, <4>3
    <3>3. \A p \in 1 .. L : lo <= w[p]
      BY <1>1 DEF Covers
    <3>4. ASSUME NEW p \in 1 .. L PROVE up <= w[p]
      <4>1. w[p] \in Nat /\ w[1] \in Nat /\ i - w[1] < cnt /\ w[1] <= w[p]
        BY <1>2, <3>1, <3>2
      <4>2. i - w[p] < cnt
        BY <4>1
      <4>3. QED BY <1>1, <4>1, <4>2 DEF FirstOf
    <3>5. QED BY <3>4
  <2>3. \A j \in up .. i - 1 : j \in lo .. i - 1
    BY <1>2
  <2>4. QED BY <1>1, <2>1, <2>2, <2>3 DEF Covers
<1>6. QED BY <1>4, <1>5

(* Loads of the cores below n. *)
LoadsOf(load, n) == \A c \in 0 .. n - 1 : load[c] \in Nat

LEMMA PushCovers ==
  ASSUME NEW i \in Nat, NEW lo \in Nat, lo <= i, NEW load, LoadsOf(load, i + 1),
         NEW w, Covers(w, load, lo, i)
  PROVE  Covers(Push(w, load, i), load, lo, i + 1)
<1>1. PICK L : L = Len(w)
  OBVIOUS
<1>2. w \in Seq(Nat) /\ L \in Nat /\ \A p \in 1 .. L : w[p] \in 0 .. i - 1
  BY <1>1 DEF Covers
<1>3. \A c \in 0 .. i : load[c] \in Nat
  BY DEF LoadsOf
<1>4. PICK A, k : A = {p \in 1 .. L : load[w[p]] > load[i]} /\ k = IF A # {} THEN Max(A) ELSE 0
  OBVIOUS
<1>5. k \in 0 .. L /\ (\A p \in 1 .. k : load[w[p]] > load[i])
      /\ \A p \in 1 .. L : p > k => load[w[p]] <= load[i]
  <2>1. \A p \in 1 .. L : load[w[p]] \in Nat /\ load[i] \in Nat
    BY <1>2, <1>3
  <2>2. CASE A = {}
    <3>1. k = 0 /\ k \in 0 .. L /\ 1 .. k = {}
      BY <1>2, <1>4, <2>2
    <3>2. \A p \in 1 .. L : ~(load[w[p]] > load[i])
      BY <1>4, <2>2
    <3>3. \A p \in 1 .. L : load[w[p]] <= load[i]
      BY <2>1, <3>2
    <3>4. QED BY <3>1, <3>3
  <2>3. CASE A # {}
    <3>1. A \in SUBSET (0 .. L)
      BY <1>4
    <3>2. k \in A /\ \A y \in A : y <= k
      BY <1>2, <1>4, <2>3, <3>1, MaxIs
    <3>3. k \in 1 .. L /\ load[w[k]] > load[i]
      <4>1. \A y \in A : y \in 1 .. L /\ load[w[y]] > load[i]
        BY <1>4
      <4>2. QED BY <3>2, <4>1
    <3>4. ASSUME NEW p \in 1 .. k PROVE load[w[p]] > load[i]
      <4>1. p \in 1 .. L /\ (p = k \/ p < k)
        BY <1>2, <3>3
      <4>2. p = k \/ load[w[p]] > load[w[k]]
        BY <1>1, <3>3, <4>1 DEF Covers
      <4>3. load[w[p]] \in Nat /\ load[w[k]] \in Nat /\ load[i] \in Nat
        BY <2>1, <3>3, <4>1
      <4>4. QED BY <3>3, <4>2, <4>3
    <3>5. \A p \in 1 .. k : load[w[p]] > load[i]
      BY <3>4
    <3>6. ASSUME NEW p \in 1 .. L, p > k PROVE load[w[p]] <= load[i]
      <4>1. p \notin A
        <5>1. \A y \in A : y \in 1 .. L
          BY <1>4
        <5>2. p \in A => p <= k
          BY <3>2
        <5>3. QED BY <3>3, <3>6, <5>2
      <4>2. ~(load[w[p]] > load[i])
        BY <1>4, <4>1
      <4>3. QED BY <2>1, <4>2
    <3>7. QED BY <3>3, <3>5, <3>6
  <2>4. QED BY <2>2, <2>3
<1>6. PICK v : v = Append(SubSeq(w, 1, k), i)
  OBVIOUS
<1>7. /\ v \in Seq(Nat) /\ Len(v) = k + 1 /\ v[k + 1] = i
      /\ \A p \in 1 .. k : v[p] = w[p]
  BY <1>1, <1>2, <1>5, <1>6
<1>8. Push(w, load, i) = v
  BY <1>1, <1>4, <1>6 DEF Push, SelectLastInSeq
<1>9. \A p \in 1 .. k + 1 : p = k + 1 \/ (p \in 1 .. k /\ p \in 1 .. L)
  BY <1>2, <1>5
<1>10. \A p \in 1 .. k + 1 : lo <= v[p] /\ v[p] < i + 1
  <2>1. \A p \in 1 .. L : lo <= w[p] /\ w[p] < i
    BY <1>1 DEF Covers
  <2>2. \A p \in 1 .. L : w[p] < i + 1
    BY <1>2
  <2>3. QED BY <1>7, <1>9, <2>1, <2>2
<1>11. ASSUME NEW p \in 1 .. k + 1, NEW q \in 1 .. k + 1, p < q
       PROVE  v[p] < v[q] /\ load[v[p]] > load[v[q]]
  <2>1. p \in 1 .. k /\ p \in 1 .. L
    BY <1>5, <1>9, <1>11
  <2>2. CASE q = k + 1
    BY <1>2, <1>5, <1>7, <2>1, <2>2
  <2>3. CASE q \in 1 .. k /\ q \in 1 .. L
    BY <1>1, <1>7, <1>11, <2>1, <2>3 DEF Covers
  <2>4. QED BY <1>9, <2>2, <2>3
<1>12. ASSUME NEW j \in lo .. i
       PROVE  \E p \in 1 .. k + 1 : v[p] >= j /\ load[v[p]] >= load[j]
  <2>0. k + 1 \in 1 .. k + 1 /\ i >= j /\ load[i] \in Nat /\ load[j] \in Nat
    BY <1>3, <1>5
  <2>1. CASE j = i
    BY <1>7, <2>0, <2>1
  <2>2. CASE j # i
    <3>1. j \in lo .. i - 1
      BY <2>2
    <3>2. PICK p \in 1 .. L : w[p] >= j /\ load[w[p]] >= load[j]
      BY <1>1, <3>1 DEF Covers
    <3>3. CASE p <= k
      <4>1. p \in 1 .. k /\ p \in 1 .. k + 1
        BY <1>5, <3>3
      <4>2. QED BY <1>7, <3>2, <4>1
    <3>4. CASE p > k
      <4>1. load[w[p]] <= load[i] /\ load[w[p]] \in Nat
        BY <1>2, <1>3, <1>5, <3>4
      <4>2. load[i] >= load[j]
        BY <2>0, <3>2, <4>1
      <4>3. QED BY <1>7, <2>0, <4>2
    <3>5. QED BY <1>5, <3>3, <3>4
  <2>3. QED BY <2>1, <2>2
<1>13. lo .. (i + 1) - 1 = lo .. i
  OBVIOUS
<1>14. QED BY <1>7, <1>8, <1>10, <1>11, <1>12, <1>13 DEF Covers

(* The first core of the window is the busiest of those it covers. *)
LEMMA HeadBusiest ==
  ASSUME NEW cnt \in Nat \ {0}, NEW lo \in Nat, NEW i, i = lo + cnt, NEW load, LoadsOf(load, i),
         NEW w, Covers(w, load, lo, i)
  PROVE  load[Head(w)] = Busiest(load, lo, cnt) /\ load[Head(w)] \in Nat
<1>1. PICK L, D, S : L = Len(w) /\ D = lo .. lo + cnt - 1 /\ S = {load[c] : c \in D}
  OBVIOUS
<1>2. w \in Seq(Nat) /\ L \in Nat /\ \A p \in 1 .. L : w[p] \in D
  BY <1>1 DEF Covers
<1>3. \A j \in D : \E p \in 1 .. L : w[p] >= j /\ load[w[p]] >= load[j]
  <2>1. lo .. i - 1 = D
    BY <1>1
  <2>2. QED BY <1>1, <2>1 DEF Covers
<1>4. L >= 1
  <2>1. lo \in D
    BY <1>1
  <2>2. QED BY <1>2, <1>3, <2>1
<1>5. Head(w) = w[1] /\ w[1] \in D
  BY <1>1, <1>2, <1>4
<1>6. \A c \in D : load[c] \in Nat
  BY <1>1 DEF LoadsOf
<1>7. \A j \in D : load[j] <= load[w[1]]
  <2>1. SUFFICES ASSUME NEW j \in D PROVE load[j] <= load[w[1]]
    OBVIOUS
  <2>2. PICK p \in 1 .. L : load[w[p]] >= load[j]
    BY <1>3
  <2>3. p = 1 \/ load[w[1]] > load[w[p]]
    BY <1>1, <1>2, <1>4 DEF Covers
  <2>4. load[w[1]] \in Nat /\ load[w[p]] \in Nat /\ load[j] \in Nat
    BY <1>2, <1>5, <1>6
  <2>5. QED BY <2>2, <2>3, <2>4
<1>8. PICK m : m = load[w[1]]
  OBVIOUS
<1>9. m \in S /\ m \in Nat /\ S \subseteq Nat /\ \A y \in S : y <= m
  BY <1>1, <1>5, <1>6, <1>7, <1>8
<1>10. Max(S) = m
  <2>1. \A x \in S : (\A y \in S : x >= y) => x = m
    BY <1>9
  <2>2. m \in S /\ \A y \in S : m >= y
    BY <1>9
  <2>3. QED BY <2>1, <2>2 DEF Max
<1>11. Busiest(load, lo, cnt) = Max(S)
  BY <1>1 DEF Busiest
<1>12. QED BY <1>5, <1>8, <1>9, <1>10, <1>11

-----------------------------------------------------------------------------
(* What the loop of task_schedule knows before core i: the least of the    *)
(* runs that end before it, and that it is the first such.                 *)
LeastUpTo(core, min, load, cnt, i) ==
  /\ i < cnt => core = -1
  /\ i >= cnt => /\ core \in 0 .. i - cnt
                 /\ min = Busiest(load, core, cnt)
                 /\ \A start \in 0 .. i - cnt :
                      /\ Busiest(load, start, cnt) \in Nat
                      /\ min <= Busiest(load, start, cnt)
                      /\ start < core => min < Busiest(load, start, cnt)

Scanned(s, load, cnt, i) ==
  /\ s \in [window : Seq(Nat), min : Nat, core : Int]
  /\ Covers(s.window, load, FirstOf(i, cnt), i)
  /\ LeastUpTo(s.core, s.min, load, cnt, i)

LEMMA ScanStart ==
  ASSUME NEW cnt \in Nat \ {0}, NEW load
  PROVE  Scanned([window |-> <<>>, min |-> 0, core |-> -1], load, cnt, 0)
<1>1. PICK s : s = [window |-> <<>>, min |-> 0, core |-> -1]
  OBVIOUS
<1>2. s \in [window : Seq(Nat), min : Nat, core : Int] /\ s.window = <<>> /\ s.core = -1
  BY <1>1
<1>3. FirstOf(0, cnt) = 0 /\ 0 .. 0 - 1 = {} /\ 0 < cnt /\ ~(0 >= cnt)
  BY DEF FirstOf
<1>4. Covers(<<>>, load, 0, 0)
  <2>1. <<>> \in Seq(Nat) /\ Len(<<>>) = 0 /\ 1 .. 0 = {}
    OBVIOUS
  <2>2. QED BY <1>3, <2>1 DEF Covers
<1>5. LeastUpTo(s.core, s.min, load, cnt, 0)
  BY <1>2, <1>3 DEF LeastUpTo
<1>6. QED BY <1>1, <1>2, <1>3, <1>4, <1>5 DEF Scanned

LEMMA ScanStep ==
  ASSUME NEW i \in Nat, NEW cnt \in Nat \ {0}, NEW load, LoadsOf(load, i + 1),
         NEW s, Scanned(s, load, cnt, i)
  PROVE  Scanned(ScanCore(s, load, cnt, i), load, cnt, i + 1)
<1>1. PICK lo, v, w : /\ lo = FirstOf(i + 1, cnt) /\ v = Slide(s.window, cnt, i)
                      /\ w = Push(v, load, i)
  OBVIOUS
<1>2. lo \in Nat /\ lo <= i
  BY <1>1 DEF FirstOf
<1>3. Covers(v, load, lo, i)
  BY <1>1, SlideCovers DEF Scanned
<1>4. Covers(w, load, lo, i + 1)
  BY <1>1, <1>2, <1>3, PushCovers
<1>5. PICK m, t : m = load[Head(w)] /\ t = ScanCore(s, load, cnt, i)
  OBVIOUS
<1>6. t = IF i >= cnt - 1 /\ (s.core = -1 \/ s.min > m)
          THEN [window |-> w, min |-> m, core |-> i + 1 - cnt]
          ELSE [s EXCEPT !.window = w]
  BY <1>1, <1>5 DEF ScanCore
<1>7. s \in [window : Seq(Nat), min : Nat, core : Int] /\ w \in Seq(Nat)
  BY <1>4 DEF Scanned, Covers
<1>8. PICK c, b : c = s.core /\ b = s.min
  OBVIOUS
<1>9. c \in Int /\ b \in Nat /\ LeastUpTo(c, b, load, cnt, i)
  BY <1>7, <1>8 DEF Scanned
<1>10. CASE i < cnt - 1
  <2>1. t = [s EXCEPT !.window = w]
    BY <1>6, <1>10
  <2>2. t \in [window : Seq(Nat), min : Nat, core : Int] /\ t.window = w /\ t.core = c
    BY <1>7, <1>8, <2>1
  <2>3. c = -1
    BY <1>9, <1>10 DEF LeastUpTo
  <2>4. i + 1 < cnt /\ ~(i + 1 >= cnt)
    BY <1>10
  <2>5. LeastUpTo(t.core, t.min, load, cnt, i + 1)
    BY <2>2, <2>3, <2>4 DEF LeastUpTo
  <2>6. QED BY <1>1, <1>4, <1>5, <2>2, <2>5 DEF Scanned
<1>11. CASE i >= cnt - 1
  <2>1. lo = i + 1 - cnt /\ i + 1 = lo + cnt /\ ~(i + 1 < cnt) /\ i + 1 >= cnt
        /\ (i + 1) - cnt = lo
    BY <1>1, <1>11 DEF FirstOf
  <2>2. m = Busiest(load, lo, cnt) /\ m \in Nat
    <3>1. PICK j : j = i + 1
      OBVIOUS
    <3>2. j = lo + cnt /\ LoadsOf(load, j) /\ Covers(w, load, lo, j)
      BY <1>4, <2>1, <3>1
    <3>3. QED BY <1>2, <1>5, <3>2, HeadBusiest
  <2>3. \A st \in 0 .. lo : st = lo \/ (i >= cnt /\ st \in 0 .. i - cnt /\ st < lo)
    BY <1>2, <2>1
  <2>4. i >= cnt => c # -1
    BY <1>9 DEF LeastUpTo
  <2>5. i < cnt => c = -1 /\ lo = 0
    BY <1>9, <1>11, <2>1 DEF LeastUpTo
  <2>6. \A st \in 0 .. i - cnt : i >= cnt =>
          /\ Busiest(load, st, cnt) \in Nat /\ b <= Busiest(load, st, cnt)
          /\ st < c => b < Busiest(load, st, cnt)
    BY <1>9 DEF LeastUpTo
  <2>7. CASE c = -1 \/ b > m
    <3>1. t = [window |-> w, min |-> m, core |-> lo]
      BY <1>6, <1>8, <1>11, <2>1, <2>7
    <3>2. t \in [window : Seq(Nat), min : Nat, core : Int] /\ t.window = w /\ t.core = lo /\ t.min = m
      BY <1>2, <1>7, <2>2, <3>1
    <3>3. ASSUME NEW st \in 0 .. lo
          PROVE  /\ Busiest(load, st, cnt) \in Nat /\ m <= Busiest(load, st, cnt)
                 /\ st < lo => m < Busiest(load, st, cnt)
      <4>1. CASE st = lo
        BY <2>2, <4>1
      <4>2. CASE i >= cnt /\ st \in 0 .. i - cnt
        <5>1. b > m
          BY <2>4, <2>7, <4>2
        <5>2. PICK x : x = Busiest(load, st, cnt)
          OBVIOUS
        <5>3. x \in Nat /\ b <= x
          BY <2>6, <4>2, <5>2
        <5>4. QED BY <1>9, <2>2, <5>1, <5>2, <5>3
      <4>3. QED BY <2>3, <4>1, <4>2
    <3>4. lo \in 0 .. lo
      BY <1>2
    <3>5. LeastUpTo(t.core, t.min, load, cnt, i + 1)
      BY <2>1, <2>2, <3>2, <3>3, <3>4 DEF LeastUpTo
    <3>6. QED BY <1>1, <1>4, <1>5, <3>2, <3>5 DEF Scanned
  <2>8. CASE ~(c = -1 \/ b > m)
    <3>1. t = [s EXCEPT !.window = w]
      BY <1>6, <1>8, <2>8
    <3>2. /\ t \in [window : Seq(Nat), min : Nat, core : Int]
          /\ t.window = w /\ t.core = c /\ t.min = b
      BY <1>7, <1>8, <3>1
    <3>3. i >= cnt
      BY <2>5, <2>8
    <3>4. c \in 0 .. i - cnt /\ c \in 0 .. lo /\ b = Busiest(load, c, cnt) /\ c < lo
      <4>1. c \in 0 .. i - cnt /\ b = Busiest(load, c, cnt)
        BY <1>9, <3>3 DEF LeastUpTo
      <4>2. QED BY <1>2, <2>1, <4>1
    <3>5. ASSUME NEW st \in 0 .. lo
          PROVE  /\ Busiest(load, st, cnt) \in Nat /\ b <= Busiest(load, st, cnt)
                 /\ st < c => b < Busiest(load, st, cnt)
      <4>1. CASE st = lo
        BY <1>9, <2>2, <2>8, <3>4, <4>1
      <4>2. CASE st \in 0 .. i - cnt
        BY <2>6, <3>3, <4>2
      <4>3. QED BY <2>3, <4>1, <4>2
    <3>6. LeastUpTo(t.core, t.min, load, cnt, i + 1)
      BY <2>1, <3>2, <3>4, <3>5 DEF LeastUpTo
    <3>7. QED BY <1>1, <1>4, <1>5, <3>2, <3>6 DEF Scanned
  <2>9. QED BY <2>7, <2>8
<1>12. QED BY <1>10, <1>11

(* The rounds of the loop of task_schedule. *)
LEMMA ScanLoop ==
  ASSUME NEW load, NEW n \in Nat, NEW cnt
  PROVE  \E scan : /\ scan[0] = [window |-> <<>>, min |-> 0, core |-> -1]
                   /\ \A i \in 0 .. n - 1 : scan[i + 1] = ScanCore(scan[i], load, cnt, i)
                   /\ Schedule(load, n, cnt) = scan[n].core
<1> DEFINE Body(s, i) == IF i = 0 THEN [window |-> <<>>, min |-> 0, core |-> -1]
                         ELSE ScanCore(s[i - 1], load, cnt, i - 1)
           N == {m \in Nat : \E s : s = [i \in 0 .. m |-> Body(s, i)]}
<1>1. 0 \in N
  <2> DEFINE s == [i \in 0 .. 0 |-> [window |-> <<>>, min |-> 0, core |-> -1]]
  <2>1. s = [i \in 0 .. 0 |-> Body(s, i)]
    OBVIOUS
  <2> HIDE DEF s
  <2>2. QED BY <2>1
<1>2. ASSUME NEW m \in Nat, m \in N PROVE m + 1 \in N
  <2>1. PICK s : s = [i \in 0 .. m |-> Body(s, i)]
    BY <1>2
  <2> DEFINE t == [i \in 0 .. m + 1 |-> Body(s, i)]
  <2>2. \A i \in 0 .. m : t[i] = s[i]
    <3>1. \A i \in 0 .. m : s[i] = Body(s, i)
      BY <2>1
    <3> HIDE DEF Body
    <3>2. QED BY <3>1
  <2>3. \A i \in 0 .. m + 1 : Body(s, i) = Body(t, i)
    <3> HIDE DEF t
    <3>1. QED BY <2>2
  <2> HIDE DEF Body
  <2>4. t = [i \in 0 .. m + 1 |-> Body(t, i)]
    BY <2>3
  <2> HIDE DEF t
  <2>5. \E r : r = [i \in 0 .. m + 1 |-> Body(r, i)]
    BY <2>4
  <2>6. QED BY <2>5
<1> HIDE DEF N
<1>3. n \in N
  BY <1>1, <1>2, NaturalInduction
<1> DEFINE S == CHOOSE s : s = [i \in 0 .. n |-> Body(s, i)]
<1>4. S = [i \in 0 .. n |-> Body(S, i)]
  <2>1. \E s : s = [i \in 0 .. n |-> Body(s, i)]
    BY <1>3 DEF N
  <2> HIDE DEF Body
  <2>2. QED BY <2>1
<1>5. Schedule(load, n, cnt) = S[n].core
  BY DEF Schedule
<1> HIDE DEF S
<1>6. S[0] = [window |-> <<>>, min |-> 0, core |-> -1]
  BY <1>4
<1>7. ASSUME NEW i \in 0 .. n - 1 PROVE S[i + 1] = ScanCore(S[i], load, cnt, i)
  <2>1. i + 1 \in 0 .. n /\ i + 1 # 0 /\ (i + 1) - 1 = i
    OBVIOUS
  <2>2. S[i + 1] = Body(S, i + 1)
    BY <1>4, <2>1
  <2>3. QED BY <2>1, <2>2
<1>8. QED BY <1>5, <1>6, <1>7

(* Whatever the loads, task_schedule returns the first of the runs of      *)
(* core_cnt cores whose busiest core has the least to do.                  *)
THEOREM ScheduleFindsLeast ==
  ASSUME NEW n \in Nat, NEW cnt \in 1 .. n, NEW load, LoadsOf(load, n)
  PROVE  Schedule(load, n, cnt) = LeastLoaded(load, n, cnt)
<1>1. PICK scan : /\ scan[0] = [window |-> <<>>, min |-> 0, core |-> -1]
                  /\ \A i \in 0 .. n - 1 : scan[i + 1] = ScanCore(scan[i], load, cnt, i)
                  /\ Schedule(load, n, cnt) = scan[n].core
  BY ScanLoop
<1>2. cnt \in Nat \ {0} /\ n >= cnt
  OBVIOUS
<1>3. Scanned(scan[n], load, cnt, n)
  <2> DEFINE N == {m \in Nat : m <= n => Scanned(scan[m], load, cnt, m)}
  <2>1. 0 \in N
    BY <1>1, <1>2, ScanStart
  <2>2. ASSUME NEW m \in Nat, m \in N PROVE m + 1 \in N
    <3>1. SUFFICES ASSUME m + 1 <= n PROVE Scanned(scan[m + 1], load, cnt, m + 1)
      OBVIOUS
    <3>2. PICK s : s = scan[m]
      OBVIOUS
    <3>3. Scanned(s, load, cnt, m) /\ LoadsOf(load, m + 1) /\ scan[m + 1] = ScanCore(s, load, cnt, m)
      <4>1. Scanned(scan[m], load, cnt, m)
        BY <2>2, <3>1
      <4>2. m \in 0 .. n - 1 /\ \A c \in 0 .. (m + 1) - 1 : c \in 0 .. n - 1
        BY <3>1
      <4>3. LoadsOf(load, m + 1)
        BY <4>2 DEF LoadsOf
      <4>4. scan[m + 1] = ScanCore(scan[m], load, cnt, m)
        BY <1>1, <4>2
      <4>5. QED BY <3>2, <4>1, <4>3, <4>4
    <3>4. QED BY <1>2, <3>3, ScanStep
  <2> HIDE DEF N
  <2>3. n \in N
    BY <2>1, <2>2, NaturalInduction
  <2>4. QED BY <2>3 DEF N
<1>4. PICK core, min : core = scan[n].core /\ min = scan[n].min
  OBVIOUS
<1>5. /\ core \in 0 .. n - cnt /\ min = Busiest(load, core, cnt)
      /\ \A start \in 0 .. n - cnt :
           /\ Busiest(load, start, cnt) \in Nat /\ min <= Busiest(load, start, cnt)
           /\ start < core => min < Busiest(load, start, cnt)
  BY <1>2, <1>3, <1>4 DEF Scanned, LeastUpTo
<1>6. PICK D, B : D = 0 .. n - cnt /\ B = {Busiest(load, start, cnt) : start \in D}
  OBVIOUS
<1>7. B \in SUBSET Nat /\ B # {} /\ min \in B /\ \A x \in B : min <= x
  BY <1>5, <1>6
<1>8. Min(B) = min
  <2>1. Min(B) \in B /\ \A x \in B : Min(B) <= x
    BY <1>7, MinIs
  <2>2. PICK x : x = Min(B)
    OBVIOUS
  <2>3. x \in Nat /\ min \in Nat /\ x <= min /\ min <= x
    BY <1>7, <2>1, <2>2
  <2>4. QED BY <2>2, <2>3
<1>9. PICK F : F = {start \in D : Busiest(load, start, cnt) = min}
  OBVIOUS
<1>10. F \in SUBSET Nat /\ F # {} /\ core \in F /\ \A x \in F : core <= x
  <2>1. core \in F /\ F # {} /\ F \in SUBSET Nat
    BY <1>5, <1>6, <1>9
  <2>2. ASSUME NEW x \in F PROVE core <= x
    <3>1. x \in 0 .. n - cnt /\ Busiest(load, x, cnt) = min
      BY <1>6, <1>9
    <3>2. ~(x < core)
      BY <1>5, <3>1
    <3>3. QED BY <1>5, <3>1, <3>2
  <2>3. QED BY <2>1, <2>2
<1>11. Min(F) = core
  <2>1. Min(F) \in F /\ \A x \in F : Min(F) <= x
    BY <1>10, MinIs
  <2>2. PICK x : x = Min(F)
    OBVIOUS
  <2>3. x \in Nat /\ core \in Nat /\ x <= core /\ core <= x
    BY <1>10, <2>1, <2>2
  <2>4. QED BY <2>2, <2>3
<1>12. LeastLoaded(load, n, cnt) = core
  BY <1>6, <1>8, <1>9, <1>11 DEF LeastLoaded
<1>13. QED BY <1>1, <1>4, <1>12

-----------------------------------------------------------------------------
(* task_add_load_in_queue counts the heaps in the order queue_write places *)
(* them: the index it has reached at a kind is the heap of that kind.      *)
LEMMA KindFields ==
  ASSUME NEW k \in Kinds
  PROVE  /\ NCores \in Nat /\ k[1] \in Nat /\ k[2] \in Nat /\ 1 <= k[1] /\ k[1] + k[2] <= NCores
         /\ k = <<k[1], k[2]>>
BY QueueAssumption DEF Kinds, Cores

LEMMA KindOfHeap ==
  ASSUME NEW i \in Heaps
  PROVE  \E k \in Kinds : QueueId(k[1], k[2]) = i
<1>1. PICK N, H : N = NCores /\ H = HeapCount
  OBVIOUS
<1>2. N \in Nat /\ N >= 1 /\ H = ((N + 1) * N) \div 2 /\ H \in Int
  BY <1>1, QueueAssumption DEF HeapCount
<1> DEFINE Found(m) == \E c, s \in 0 .. N : 1 <= c /\ c + s <= N /\ QueueId(c, s) = m
           M == {m \in Nat : m < H => Found(m)}
<1>3. 0 \in M
  <2>1. QueueId(1, 0) = 0
    <3>1. (2 * N - 1 + 2) * (1 - 1) = 0
      BY <1>2
    <3>2. QED BY <1>1, <3>1 DEF QueueId
  <2>2. 1 \in 0 .. N /\ 0 \in 0 .. N /\ 1 <= 1 /\ 1 + 0 <= N
    BY <1>2
  <2>3. QED BY <2>1, <2>2
<1>4. ASSUME NEW m \in Nat, m \in M PROVE m + 1 \in M
  <2>1. SUFFICES ASSUME m + 1 < H PROVE Found(m + 1)
    OBVIOUS
  <2>2. PICK c \in 0 .. N, s \in 0 .. N : 1 <= c /\ c + s <= N /\ QueueId(c, s) = m
    BY <1>2, <1>4, <2>1
  <2>3. PICK X : X = (2 * N - c + 2) * (c - 1)
    OBVIOUS
  <2>4. X \in Int /\ X \div 2 + s = m
    BY <1>1, <1>2, <2>2, <2>3 DEF QueueId
  <2>5. CASE c + s < N
    <3>1. QueueId(c, s + 1) = m + 1
      BY <1>1, <1>2, <2>3, <2>4 DEF QueueId
    <3>2. s + 1 \in 0 .. N /\ c + (s + 1) <= N
      BY <1>2, <2>5
    <3>3. QED BY <2>2, <3>1, <3>2
  <2>6. CASE c + s = N /\ c < N
    <3>1. PICK Y : Y = (2 * N - (c + 1) + 2) * ((c + 1) - 1)
      OBVIOUS
    <3>2. Y = X + 2 * (N - c + 1)
      BY <1>2, <2>3, <3>1
    <3>3. Y \div 2 = X \div 2 + (N - c + 1)
      BY <1>2, <2>4, <3>2
    <3>4. QueueId(c + 1, 0) = Y \div 2
      BY <1>1, <1>2, <3>1, <3>2, <2>4 DEF QueueId
    <3>5. s = N - c
      BY <1>2, <2>6
    <3>6. X \div 2 \in Int
      BY <2>4
    <3>7. QueueId(c + 1, 0) = m + 1
      BY <1>2, <2>4, <3>3, <3>4, <3>5, <3>6
    <3>8. c + 1 \in 0 .. N /\ 0 \in 0 .. N /\ 1 <= c + 1 /\ (c + 1) + 0 <= N
      BY <1>2, <2>6
    <3>9. QED BY <3>7, <3>8
  <2>7. CASE c = N
    <3>1. s = 0 /\ X = (N + 2) * (N - 1)
      BY <1>2, <2>2, <2>3, <2>7
    <3>2. PICK Y : Y = (N + 1) * N
      OBVIOUS
    <3>3. Y = X + 2
      BY <1>2, <3>1, <3>2
    <3>4. Y \div 2 = X \div 2 + 1 /\ H = Y \div 2
      BY <1>2, <2>4, <3>2, <3>3
    <3>5. QED BY <1>2, <2>1, <2>4, <3>1, <3>4
  <2>8. QED BY <1>2, <2>2, <2>5, <2>6, <2>7
<1>5. i \in Nat /\ i < H
  BY <1>1, <1>2 DEF Heaps
<1> HIDE DEF M, Found
<1>6. i \in M
  <2>1. \A m \in Nat : m \in M
    BY <1>3, <1>4, NaturalInduction
  <2>2. QED BY <1>5, <2>1
<1>7. PICK c \in 0 .. N, s \in 0 .. N : 1 <= c /\ c + s <= N /\ QueueId(c, s) = i
  BY <1>5, <1>6 DEF M, Found
<1>8. <<c, s>> \in Kinds
  BY <1>1, <1>2, <1>7 DEF Kinds, Cores
<1>9. <<c, s>>[1] = c /\ <<c, s>>[2] = s
  OBVIOUS
<1>10. QED BY <1>7, <1>8, <1>9

LEMMA EarlierKinds ==
  ASSUME NEW j \in Kinds, NEW k \in Kinds, j \in KindsUpTo(k)
  PROVE  QueueId(j[1], j[2]) < QueueId(k[1], k[2])
<1>1. PICK N, c, s, d, r : N = NCores /\ c = j[1] /\ s = j[2] /\ d = k[1] /\ r = k[2]
  OBVIOUS
<1>2. /\ N \in Nat /\ c \in Nat /\ s \in Nat /\ d \in Nat /\ r \in Nat
      /\ 1 <= c /\ 1 <= d /\ c + s <= N /\ d + r <= N /\ d <= N
  <2>1. d + r <= N /\ d \in Nat /\ r \in Nat /\ N \in Nat
    BY <1>1, KindFields
  <2>2. d <= N
    BY <2>1
  <2>3. QED BY <1>1, <2>1, <2>2, KindFields
<1>3. c < d \/ (c = d /\ s < r)
  BY <1>1 DEF KindsUpTo
<1>4. CASE c < d
  <2>1. ((2 * N - c + 2) * (c - 1)) \div 2 + s < ((2 * N - d + 2) * (d - 1)) \div 2 + r
    BY <1>2, <1>4, LaterKinds
  <2>2. QED BY <1>1, <2>1 DEF QueueId
<1>5. CASE c = d /\ s < r
  <2>1. PICK A : A = ((2 * N - c + 2) * (c - 1)) \div 2
    OBVIOUS
  <2>2. A \in Int
    BY <1>2, <2>1
  <2>3. A + s < A + r
    BY <1>2, <1>5, <2>2
  <2>4. QED BY <1>1, <1>5, <2>1, <2>3 DEF QueueId
<1>6. QED BY <1>3, <1>4, <1>5

LEMMA KindsCounted ==
  ASSUME NEW k \in Kinds
  PROVE  Cardinality(KindsUpTo(k)) = QueueId(k[1], k[2])
<1>1. PICK S, i : S = KindsUpTo(k) /\ i = QueueId(k[1], k[2])
  OBVIOUS
<1>2. i \in Heaps /\ i \in Nat
  BY <1>1, QueueIdType DEF Heaps
<1>3. PICK T, f : T = 0 .. i - 1 /\ f = [j \in S |-> QueueId(j[1], j[2])]
  OBVIOUS
<1>4. \A j \in S : j \in Kinds
  BY <1>1 DEF KindsUpTo
<1>5. ASSUME NEW j \in S PROVE f[j] \in T
  <2>1. QueueId(j[1], j[2]) \in Heaps /\ QueueId(j[1], j[2]) < i
    BY <1>1, <1>4, QueueIdType, EarlierKinds
  <2>2. QED BY <1>2, <1>3, <2>1 DEF Heaps
<1>6. ASSUME NEW j \in S, NEW m \in S, f[j] = f[m] PROVE j = m
  <2>1. QueueId(j[1], j[2]) = QueueId(m[1], m[2])
    BY <1>3, <1>6
  <2>2. QED BY <1>4, <2>1, QueueIdInjective
<1>7. ASSUME NEW t \in T PROVE \E j \in S : f[j] = t
  <2>1. t \in Heaps /\ t < i
    <3>1. HeapCount \in Int
      BY QueueAssumption DEF HeapCount
    <3>2. i \in 0 .. HeapCount - 1 /\ t \in 0 .. i - 1
      BY <1>2, <1>3 DEF Heaps
    <3> HIDE DEF HeapCount
    <3>3. QED BY <3>1, <3>2 DEF Heaps
  <2>2. PICK j \in Kinds : QueueId(j[1], j[2]) = t
    BY <2>1, KindOfHeap
  <2>3. j \in S \/ j = k \/ k \in KindsUpTo(j)
    <3>1. j[1] \in Nat /\ j[2] \in Nat /\ k[1] \in Nat /\ k[2] \in Nat
          /\ j = <<j[1], j[2]>> /\ k = <<k[1], k[2]>>
      BY KindFields
    <3>2. \/ j[1] < k[1] \/ (j[1] = k[1] /\ j[2] < k[2])
          \/ k[1] < j[1] \/ (j[1] = k[1] /\ k[2] < j[2])
          \/ j[1] = k[1] /\ j[2] = k[2]
      BY <3>1
    <3>3. QED BY <1>1, <3>1, <3>2 DEF KindsUpTo
  <2>4. k \in KindsUpTo(j) => i < t
    BY <1>1, <2>2, EarlierKinds
  <2>5. j = k => i = t
    BY <1>1, <2>2
  <2>6. t \in Int
    BY <1>3
  <2>7. j \in S
    BY <1>2, <2>1, <2>3, <2>4, <2>5, <2>6
  <2>8. QED BY <1>3, <2>2, <2>7
<1>8. f \in Injection(S, T) /\ f \in Surjection(S, T)
  <2>1. f \in [S -> T] /\ DOMAIN f = S
    BY <1>3, <1>5
  <2>2. QED BY <1>6, <1>7, <2>1 DEF Injection, Surjection, IsInjective
<1>9. IsFiniteSet(T) /\ Cardinality(T) = i
  BY <1>2, <1>3, FS_Interval
<1>10. Cardinality(S) = Cardinality(T)
  BY <1>8, <1>9, FS_Injection
<1>11. QED BY <1>1, <1>9, <1>10

-----------------------------------------------------------------------------
(* The loads of the cores are the times of the tasks that wait for them.   *)
NodeTime == [x \in Nodes |-> x.time]
KindTime == [k \in Kinds |-> estimated[QueueId(k[1], k[2])]]
KindsOn(c) == {k \in Kinds : c \in Mask(k)}
QueuedOn(c) == {q \in Queued : c \in Mask(q.kind)}

LEMMA KindsFinite == \A c : IsFiniteSet(KindsOn(c))
<1>1. IsFiniteSet(1 .. NCores) /\ IsFiniteSet(Cores)
  <2>1. PICK m : m = NCores - 1
    OBVIOUS
  <2>2. m \in Int /\ NCores \in Int /\ Cores = 0 .. m
    BY <2>1, QueueAssumption DEF Cores
  <2>3. QED BY <2>2, FS_Interval
<1>2. IsFiniteSet((1 .. NCores) \X Cores)
  BY <1>1, FS_Product
<1>3. \A c : KindsOn(c) \subseteq (1 .. NCores) \X Cores
  BY DEF KindsOn, Kinds
<1>4. QED BY <1>2, <1>3, FS_Subset

LEMMA QueueLoadIs ==
  ASSUME NEW c
  PROVE  QueueLoad(c) = Total(KindTime, KindsOn(c))
<1> DEFINE S == KindsOn(c)
           Rec(it) == it = [s \in SUBSET S |-> IF s = {} THEN 0
                            ELSE estimated[Cardinality(KindsUpTo(CHOOSE x \in s : TRUE))]
                                 + it[s \ {CHOOSE x \in s : TRUE}]]
<1>1. QueueLoad(c) = (CHOOSE it : Rec(it))[S]
  BY Zenon DEF QueueLoad, KindsOn, MapThenSumSet, MapThenFoldSet
<1>2. IsFiniteSet(S)
  BY KindsFinite
<1>3. \A it : Rec(it) <=> IsSum(it, KindTime, S)
  <2>1. ASSUME NEW s \in SUBSET S, s # {}
        PROVE  KindTime[CHOOSE x \in s : TRUE] = estimated[Cardinality(KindsUpTo(CHOOSE x \in s : TRUE))]
    <3>1. PICK k : k = CHOOSE x \in s : TRUE
      OBVIOUS
    <3>2. k \in Kinds
      BY <2>1, <3>1 DEF KindsOn
    <3>3. KindTime[k] = estimated[Cardinality(KindsUpTo(k))]
      BY <3>2, KindsCounted DEF KindTime
    <3>4. QED BY <3>1, <3>3
  <2>2. QED BY <2>1 DEF IsSum, Chosen
<1> HIDE DEF Rec, S
<1>4. IsSum(CHOOSE it : Rec(it), KindTime, S)
  BY <1>2, <1>3, SumExists
<1>5. PICK it : IsSum(it, KindTime, S) /\ Total(KindTime, S) = it[S]
  BY <1>2, TotalIsSum
<1>6. (CHOOSE jt : Rec(jt))[S] = it[S]
  <2>1. PICK f, jt, U : f = KindTime /\ jt = (CHOOSE w : Rec(w)) /\ U = S
    OBVIOUS
  <2>2. IsFiniteSet(U) /\ IsSum(jt, f, U) /\ IsSum(it, f, U)
    BY <1>2, <1>4, <1>5, <2>1
  <2>3. jt[U] = it[U]
    BY ONLY <2>2, SumUnique
  <2>4. QED BY <2>1, <2>3
<1>7. QED BY <1>1, <1>5, <1>6 DEF S

LEMMA TrueLoadIs ==
  ASSUME NEW c, IsFiniteSet(QueuedOn(c)), QueuedOn(c) \subseteq Nodes
  PROVE  TrueLoad(c) = Total(NodeTime, QueuedOn(c))
<1> DEFINE S == QueuedOn(c)
           Rec(it) == it = [s \in SUBSET S |-> IF s = {} THEN 0
                            ELSE (CHOOSE x \in s : TRUE).time + it[s \ {CHOOSE x \in s : TRUE}]]
<1>1. TrueLoad(c) = (CHOOSE it : Rec(it))[S]
  BY Zenon DEF TrueLoad, QueuedOn, MapThenSumSet, MapThenFoldSet
<1>2. IsFiniteSet(S)
  OBVIOUS
<1>3. \A it : Rec(it) <=> IsSum(it, NodeTime, S)
  <2>1. ASSUME NEW s \in SUBSET S, s # {}
        PROVE  NodeTime[CHOOSE x \in s : TRUE] = (CHOOSE x \in s : TRUE).time
    <3>1. PICK q : q = CHOOSE x \in s : TRUE
      OBVIOUS
    <3>2. q \in Nodes
      BY <2>1, <3>1
    <3>3. NodeTime[q] = q.time
      BY <3>2 DEF NodeTime
    <3>4. QED BY <3>1, <3>3
  <2>2. QED BY <2>1 DEF IsSum, Chosen
<1> HIDE DEF Rec, S
<1>4. IsSum(CHOOSE it : Rec(it), NodeTime, S)
  BY <1>2, <1>3, SumExists
<1>5. PICK it : IsSum(it, NodeTime, S) /\ Total(NodeTime, S) = it[S]
  BY <1>2, TotalIsSum
<1>6. (CHOOSE jt : Rec(jt))[S] = it[S]
  <2>1. PICK f, jt, U : f = NodeTime /\ jt = (CHOOSE w : Rec(w)) /\ U = S
    OBVIOUS
  <2>2. IsFiniteSet(U) /\ IsSum(jt, f, U) /\ IsSum(it, f, U)
    BY <1>2, <1>4, <1>5, <2>1
  <2>3. jt[U] = it[U]
    BY ONLY <2>2, SumUnique
  <2>4. QED BY <2>1, <2>3
<1>7. QED BY <1>1, <1>5, <1>6 DEF S

LEMMA HeapTime ==
  ASSUME NEW h \in Seq(Nodes), NoTies(h)
  PROVE  /\ IsFiniteSet(ToSet(h)) /\ ToSet(h) \subseteq Nodes
         /\ Total(NodeTime, ToSet(h)) = TimeSum(h)
<1>1. PICK S, f, g : S = 1 .. Len(h) /\ f = NodeTime /\ g = TimeOf(h)
  OBVIOUS
<1>2. IsFiniteSet(S) /\ DOMAIN h = S /\ \A p \in S : h[p] \in Nodes
  BY <1>1, FS_Interval
<1>3. \A p, q \in S : h[p] = h[q] => p = q
  BY <1>1 DEF NoTies
<1>4. \A p \in S : f[h[p]] \in Int /\ g[p] = f[h[p]]
  <2>1. \A x \in Nodes : x.time \in Nat /\ f[x] = x.time
    BY <1>1, Fields DEF NodeTime
  <2>2. \A p \in S : g[p] = h[p].time
    BY <1>1 DEF TimeOf
  <2>3. QED BY <1>2, <2>1, <2>2
<1>5. IsFiniteSet({h[p] : p \in S}) /\ Total(f, {h[p] : p \in S}) = Total(g, S)
  BY ONLY <1>2, <1>3, <1>4, TotalImage
<1>6. ToSet(h) = {h[p] : p \in S}
  BY <1>2 DEF ToSet
<1>7. QED BY <1>1, <1>2, <1>5, <1>6 DEF TimeSum

(* The loads of the code are those of the definition: the index counts to  *)
(* the heap of the kind, and no heap's estimate has drifted.               *)
LEMMA LoadsTrue ==
  ASSUME ExactInv, NEW c
  PROVE  QueueLoad(c) = TrueLoad(c) /\ TrueLoad(c) \in Nat
<1>1. /\ heap \in [Heaps -> Seq(Nodes)] /\ \A i \in Heaps : NoTies(heap[i])
      /\ \A i \in Heaps : estimated[i] = TimeSum(heap[i])
  BY DEF ExactInv, RankedInv, Ranked, Numbered, Counts
<1>2. PICK S, P, f, g : /\ S = KindsOn(c) /\ f = NodeTime /\ g = KindTime
                        /\ P = [k \in Kinds |-> ToSet(heap[QueueId(k[1], k[2])])]
  OBVIOUS
<1>3. IsFiniteSet(S) /\ \A k \in S : k \in Kinds
  BY <1>2, KindsFinite DEF KindsOn
<1>4. \A k \in S : QueueId(k[1], k[2]) \in Heaps /\ P[k] = ToSet(heap[QueueId(k[1], k[2])])
  BY <1>2, <1>3, QueueIdType
<1>5. ASSUME NEW k \in S
      PROVE  IsFiniteSet(P[k]) /\ P[k] \subseteq Nodes /\ g[k] = Total(f, P[k])
  <2>1. PICK i, h : i = QueueId(k[1], k[2]) /\ h = heap[i]
    OBVIOUS
  <2>2. i \in Heaps /\ h \in Seq(Nodes) /\ NoTies(h) /\ P[k] = ToSet(h) /\ estimated[i] = TimeSum(h)
    BY <1>1, <1>4, <2>1
  <2>3. g[k] = estimated[i]
    BY <1>2, <1>3, <2>1 DEF KindTime
  <2>4. IsFiniteSet(ToSet(h)) /\ ToSet(h) \subseteq Nodes /\ Total(NodeTime, ToSet(h)) = TimeSum(h)
    BY <2>2, HeapTime
  <2>5. QED BY <1>2, <2>2, <2>3, <2>4
<1>6. \A k \in S : \A x \in P[k] : x \in Queued /\ QueueId(x.kind[1], x.kind[2]) = QueueId(k[1], k[2])
  BY <1>4, QueuedIs DEF Home
<1>7. \A k \in S : \A x \in P[k] : x.kind = k
  <2>1. SUFFICES ASSUME NEW k \in S, NEW x \in P[k] PROVE x.kind = k
    OBVIOUS
  <2>2. PICK m : m = x.kind
    OBVIOUS
  <2>3. x \in Nodes
    BY <1>5
  <2>4. m \in Kinds
    BY <2>2, <2>3, Fields
  <2>5. QueueId(m[1], m[2]) = QueueId(k[1], k[2])
    BY <1>6, <2>2
  <2>6. m = k
    BY <1>3, <2>4, <2>5, QueueIdInjective
  <2>7. QED BY <2>2, <2>6
<1>8. \A k, m \in S : k # m => P[k] \cap P[m] = {}
  BY <1>7
<1>9. \A k \in S : \A x \in P[k] : f[x] \in Nat
  <2>1. \A x \in Nodes : x.time \in Nat /\ f[x] = x.time
    BY <1>2, Fields DEF NodeTime
  <2>2. QED BY <1>5, <2>1
<1>10. PICK U : U = UNION {P[k] : k \in S}
  OBVIOUS
<1>11. IsFiniteSet(U) /\ Total(f, U) = Total(g, S)
  <2>1. \A k \in S : IsFiniteSet(P[k]) /\ g[k] = Total(f, P[k])
    BY <1>5
  <2>2. \A k \in S : \A x \in P[k] : f[x] \in Int
    BY <1>9
  <2>3. IsFiniteSet(UNION {P[k] : k \in S}) /\ Total(f, UNION {P[k] : k \in S}) = Total(g, S)
    BY ONLY <1>3, <1>8, <2>1, <2>2, TotalParts
  <2>4. QED BY <1>10, <2>3
<1>12. U = QueuedOn(c)
  <2>1. ASSUME NEW x \in U PROVE x \in QueuedOn(c)
    <3>1. PICK k \in S : x \in P[k]
      BY <1>10
    <3>2. x \in Queued /\ x.kind = k
      BY <1>6, <1>7, <3>1
    <3>3. c \in Mask(k)
      BY <1>2 DEF KindsOn
    <3>4. QED BY <3>2, <3>3 DEF QueuedOn
  <2>2. ASSUME NEW x \in QueuedOn(c) PROVE x \in U
    <3>1. x \in Queued /\ c \in Mask(x.kind)
      BY DEF QueuedOn
    <3>2. x \in Nodes /\ x \in ToSet(heap[QueueId(x.kind[1], x.kind[2])])
      BY <3>1, QueuedIs DEF Home
    <3>3. x.kind \in S
      BY <1>2, <3>1, <3>2, Fields DEF KindsOn
    <3>4. x \in P[x.kind]
      BY <1>4, <3>2, <3>3
    <3>5. QED BY <1>10, <3>3, <3>4
  <2>3. QED BY <2>1, <2>2
<1>13. U \subseteq Nodes /\ \A x \in U : f[x] \in Nat
  BY <1>5, <1>9, <1>10
<1>14. QueueLoad(c) = Total(g, S)
  BY <1>2, QueueLoadIs
<1>15. TrueLoad(c) = Total(f, U)
  BY <1>2, <1>11, <1>12, <1>13, TrueLoadIs
<1>16. Total(f, U) \in Nat
  BY <1>11, <1>13, TotalNat
<1>17. QED BY <1>11, <1>14, <1>15, <1>16

(* With fewer writes between two moments the queue is empty than sum_count *)
(* can number, a task is always placed on the first of the runs of cores   *)
(* whose busiest core has the least to do, whatever has been queued, read  *)
(* and dropped and whatever runs on the hardware.                          *)
THEOREM AlwaysPlacedOnLeastLoaded ==
  ASSUME MaxWrites < INDEX_MOD - 1 PROVE Spec => []PlacedOnLeastLoaded
<1>1. ExactInv => PlacedOnLeastLoaded
  <2>1. SUFFICES ASSUME ExactInv PROVE PlacedOnLeastLoaded
    OBVIOUS
  <2>2. ASSUME NEW onHardware \in [Cores -> Remaining], NEW cnt \in 1 .. NCores
        PROVE  Schedule(Load(onHardware), NCores, cnt)
                 = LeastLoaded([c \in Cores |-> TrueLoad(c) + onHardware[c]], NCores, cnt)
    <3>1. \A c \in Cores : QueueLoad(c) = TrueLoad(c) /\ TrueLoad(c) \in Nat
      BY <2>1, LoadsTrue
    <3>2. PICK load : load = [c \in Cores |-> TrueLoad(c) + onHardware[c]]
      OBVIOUS
    <3>3. Load(onHardware) = load
      BY <3>1, <3>2 DEF Load
    <3>4. LoadsOf(load, NCores)
      <4>1. \A c \in Cores : onHardware[c] \in Nat
        BY ScheduleAssumption
      <4>2. \A c \in Cores : load[c] \in Nat
        BY <3>1, <3>2, <4>1
      <4>3. QED BY <4>2 DEF LoadsOf, Cores
    <3>5. NCores \in Nat
      BY QueueAssumption
    <3>6. Schedule(load, NCores, cnt) = LeastLoaded(load, NCores, cnt)
      BY <3>4, <3>5, ScheduleFindsLeast
    <3>7. QED BY <3>2, <3>3, <3>6
  <2>3. Window(4)
    <3>1. SUFFICES ASSUME NEW load \in [0 .. 4 - 1 -> 0 .. 3], NEW cnt \in 1 .. 4
                   PROVE  Schedule(load, 4, cnt) = LeastLoaded(load, 4, cnt)
      BY DEF Window
    <3>2. LoadsOf(load, 4)
      BY DEF LoadsOf
    <3>3. PICK n : n = 4
      OBVIOUS
    <3>4. n \in Nat /\ cnt \in 1 .. n /\ LoadsOf(load, n)
      BY <3>2, <3>3
    <3>5. Schedule(load, n, cnt) = LeastLoaded(load, n, cnt)
      BY <3>4, ScheduleFindsLeast
    <3>6. QED BY <3>3, <3>5
  <2>4. QED BY <2>2, <2>3 DEF PlacedOnLeastLoaded
<1>2. QED BY <1>1, ExactAlways, PTL
=============================================================================
