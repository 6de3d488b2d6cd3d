-------------------------- MODULE MemoryHeap_proofs --------------------------
(***************************************************************************)
(* Proofs about MemoryHeap.tla for every size of the heap, every number of *)
(* nodes and holders and every size and alignment a caller asks for.  The  *)
(* invariant Inv says that the nodes of the list are apart and lie end to  *)
(* end (Shape), and that handles and used nodes belong together (Owned).   *)
(* It gives the refinement of AddressRanges.  Counted adds that the sum of *)
(* the free nodes is free_bytes (with SumTheorems.tla), and Merged that no *)
(* two free nodes lie side by side, which gives that a request for which   *)
(* there is room is served.                                                *)
(***************************************************************************)
EXTENDS MemoryHeap, TLAPS, SequenceTheorems, SumTheorems

Records == [offset : 0 .. Size, size : 0 .. Size, status : {"INIT", "FREE", "USED"}]

EndOf(r) == r.offset + r.size
Separate(r, s) == EndOf(r) <= s.offset \/ EndOf(s) <= r.offset

(* A node array and a list that fit together.                              *)
Typed(ns, l) ==
  /\ ns \in [Nodes -> Records] /\ l \in Seq(Nodes)
  /\ \A n \in Nodes : ns[n].status = "INIT" => ns[n] = Spare

Listed(ns, l) ==
  /\ \A n \in Nodes : ns[n].status # "INIT" <=> \E p \in 1 .. Len(l) : l[p] = n
  /\ \A p, q \in 1 .. Len(l) : l[p] = l[q] => p = q

Ordered(ns, l) ==
  /\ \A n \in Nodes : ns[n].status # "INIT" => EndOf(ns[n]) <= Size
  /\ \A p, q \in 1 .. Len(l) : p < q => EndOf(ns[l[q]]) <= ns[l[p]].offset

EndToEnd(ns, l) ==
  /\ Len(l) > 0
  /\ \A p \in 1 .. Len(l) : EndOf(ns[l[p]]) = IF p = 1 THEN Size ELSE ns[l[p - 1]].offset
  /\ ns[l[Len(l)]].offset = 0

Shape(ns, l) == Typed(ns, l) /\ Listed(ns, l) /\ Ordered(ns, l) /\ EndToEnd(ns, l)

(* What a split and a merge leave alone: the used nodes.                   *)
SameUsed(ns, ms) ==
  \A n \in Nodes : ns[n].status = "USED" \/ ms[n].status = "USED" => ms[n] = ns[n]

Inv ==
  /\ Shape(nodes, list)
  /\ handle \in [Handles -> Blocks \cup {NoBlock}]
  /\ lost \subseteq Nodes
  /\ Owned
  /\ Aligned

-----------------------------------------------------------------------------
(* What the list operations return.                                        *)
LEMMA Insertion ==
  ASSUME NEW s \in Seq(Nodes), NEW at \in 1 .. Len(s), NEW e \in Nodes
  PROVE  /\ InsertAt(s, at, e) \in Seq(Nodes)
         /\ Len(InsertAt(s, at, e)) = Len(s) + 1
         /\ \A p \in 1 .. Len(s) + 1 :
              InsertAt(s, at, e)[p] = IF p < at THEN s[p] ELSE IF p = at THEN e ELSE s[p - 1]
BY DEF InsertAt

LEMMA Removal ==
  ASSUME NEW s \in Seq(Nodes), NEW at \in 1 .. Len(s)
  PROVE  /\ RemoveAt(s, at) \in Seq(Nodes)
         /\ Len(RemoveAt(s, at)) = Len(s) - 1
         /\ \A p \in 1 .. Len(s) - 1 :
              RemoveAt(s, at)[p] = IF p < at THEN s[p] ELSE s[p + 1]
<1> DEFINE low == SubSeq(s, 1, at - 1)
           high == SubSeq(s, at + 1, Len(s))
<1>1. low \in Seq(Nodes) /\ Len(low) = at - 1 /\ \A p \in 1 .. at - 1 : low[p] = s[p] OBVIOUS
<1>2. /\ high \in Seq(Nodes) /\ Len(high) = Len(s) - at
      /\ \A p \in 1 .. Len(s) - at : high[p] = s[p + at]
  <2>1. CASE at = Len(s)
    <3>1. high = <<>> BY <2>1
    <3>2. QED BY <3>1, <2>1
  <2>2. CASE at < Len(s) BY <2>2
  <2>3. QED BY <2>1, <2>2
<1>3. RemoveAt(s, at) = low \o high BY DEF RemoveAt
<1> HIDE DEF low, high
<1>4. low \o high \in Seq(Nodes) /\ Len(low \o high) = Len(s) - 1 BY <1>1, <1>2
<1>5. ASSUME NEW p \in 1 .. Len(s) - 1, p < at PROVE (low \o high)[p] = s[p]
  BY <1>1, <1>2, <1>5
<1>6. ASSUME NEW p \in 1 .. Len(s) - 1, ~(p < at) PROVE (low \o high)[p] = s[p + 1]
  <2>1. p - (at - 1) \in 1 .. Len(s) - at /\ p - (at - 1) + at = p + 1 BY <1>6
  <2>2. (low \o high)[p] = high[p - (at - 1)] BY <1>1, <1>2, <1>6
  <2>3. QED BY <1>2, <2>1, <2>2
<1>7. QED BY <1>3, <1>4, <1>5, <1>6

(* Rounding up reaches the alignment in less than one unit of it.          *)
LEMMA Skipping ==
  ASSUME NEW x \in Nat, NEW a \in Nat \ {0}
  PROVE  Skip(x, a) \in 0 .. a - 1 /\ (x + Skip(x, a)) % a = 0
<1>1. Skip(x, a) \in 0 .. a - 1 BY DEF Skip
<1>2. CASE x % a = 0
  <2>1. (a - (x % a)) % a = 0 BY <1>2
  <2>2. QED BY <1>1, <1>2, <2>1 DEF Skip
<1>3. CASE x % a # 0
  <2>1. (a - (x % a)) % a = a - (x % a) BY <1>3
  <2>2. x = a * (x \div a) + (x % a) /\ x \div a \in Nat OBVIOUS
  <2>3. x + (a - (x % a)) = a * (x \div a + 1) BY <2>2
  <2>4. (a * (x \div a + 1)) % a = 0 BY <2>2
  <2>5. QED BY <1>1, <2>1, <2>3, <2>4 DEF Skip
<1>4. QED BY <1>2, <1>3

LEMMA Asked ==
  ASSUME NEW s \in Sizes, NEW a \in Aligns
  PROVE  Rounded(s) \in Nat /\ AtLeastPage(a) \in Nat \ {0}
<1>1. s \in Nat /\ Page \in Nat \ {0} /\ a \in Nat \ {0} BY HeapAssumption
<1>2. Skip(s, Page) \in 0 .. Page - 1 BY <1>1, Skipping
<1>3. QED BY <1>1, <1>2 DEF Rounded, AlignUp, AtLeastPage

-----------------------------------------------------------------------------
(* A free node is split: the part above becomes a node in front of it.     *)
Parted(ns, n, new, size) ==
  [ns EXCEPT ![new] = [offset |-> ns[n].offset + size, size |-> ns[n].size - size,
                       status |-> "FREE"],
             ![n].size = size]

LEMMA Splitting ==
  ASSUME NEW ns, NEW l, Shape(ns, l), NEW at \in 1 .. Len(l), ns[l[at]].status = "FREE",
         NEW size \in 0 .. ns[l[at]].size, NEW new \in Nodes, ns[new] = Spare,
         NEW ms, ms = Parted(ns, l[at], new, size),
         NEW k, k = InsertAt(l, at, new)
  PROVE  /\ Shape(ms, k)
         /\ SameUsed(ns, ms)
         /\ at \in 1 .. Len(k) /\ k[at] = new /\ new # l[at]
         /\ ms[new] = [offset |-> ns[l[at]].offset + size,
                       size |-> ns[l[at]].size - size, status |-> "FREE"]
         /\ ms[l[at]].offset = ns[l[at]].offset /\ ms[l[at]].size = size
         /\ ms[l[at]].status = "FREE"
<1> DEFINE n == l[at]
<1>a. ns \in [Nodes -> Records] /\ l \in Seq(Nodes) /\ n \in Nodes /\ Size \in Nat
  BY HeapAssumption DEF Shape, Typed
<1>b. new # n /\ ns[new].status = "INIT" BY DEF Spare
<1>c. ns[n] \in Records /\ EndOf(ns[n]) <= Size BY <1>a DEF Shape, Ordered
<1>d. /\ ms[new] = [offset |-> ns[n].offset + size, size |-> ns[n].size - size, status |-> "FREE"]
      /\ ms[n] = [ns[n] EXCEPT !.size = size]
      /\ \A m \in Nodes : m # new /\ m # n => ms[m] = ns[m]
      /\ ms = [m \in Nodes |-> ms[m]]
  BY <1>a, <1>b DEF Parted
<1>e. /\ ms[n].offset = ns[n].offset /\ ms[n].size = size /\ ms[n].status = "FREE"
      /\ ms[new].status = "FREE"
  BY <1>c, <1>d DEF Records
<1>f. /\ k \in Seq(Nodes) /\ Len(k) = Len(l) + 1
      /\ \A p \in 1 .. Len(k) : k[p] = IF p < at THEN l[p] ELSE IF p = at THEN new ELSE l[p - 1]
  <2>1. /\ InsertAt(l, at, new) \in Seq(Nodes) /\ Len(InsertAt(l, at, new)) = Len(l) + 1
        /\ \A p \in 1 .. Len(l) + 1 :
             InsertAt(l, at, new)[p] = IF p < at THEN l[p] ELSE IF p = at THEN new ELSE l[p - 1]
    BY <1>a, Insertion
  <2>2. QED BY <2>1
<1>1. Typed(ms, k)
  <2>0. ns[n].offset \in 0 .. Size /\ ns[n].size \in 0 .. Size /\ ns[n].offset + ns[n].size <= Size
    BY <1>a, <1>c DEF Records, EndOf
  <2>1. ms[new] \in Records /\ ms[n] \in Records
    <3>1. /\ ns[n].offset + size \in 0 .. Size /\ ns[n].size - size \in 0 .. Size
          /\ size \in 0 .. Size
      BY SMTT(30), <2>0, <1>a
    <3>2. QED BY SMTT(30), <3>1, <1>a, <1>c, <1>d DEF Records
  <2>2. \A m \in Nodes : ms[m] \in Records BY <1>a, <1>d, <2>1
  <2>3. ms \in [Nodes -> Records] BY <1>d, <2>2
  <2>4. QED BY <1>d, <1>e, <1>f, <2>3 DEF Typed, Shape
<1>2. Ordered(ms, k)
  <2>1. \A m \in Nodes : ns[m].offset \in Nat /\ ns[m].size \in Nat BY <1>a DEF Records
  <2>2. /\ EndOf(ms[new]) = EndOf(ns[n]) /\ EndOf(ms[n]) = ms[new].offset
        /\ ms[n].offset = ns[n].offset
        /\ ns[n].offset <= ms[new].offset /\ ms[new].offset <= EndOf(ns[n])
        /\ ns[n].offset \in Nat /\ ms[new].offset \in Nat /\ EndOf(ns[n]) \in Nat
    <3>1. ns[n].offset \in Nat /\ ns[n].size \in Nat BY <2>1, <1>a
    <3>2. ms[new].offset = ns[n].offset + size /\ ms[new].size = ns[n].size - size BY <1>d
    <3>3. size \in Nat /\ size <= ns[n].size BY <3>1
    <3>4. EndOf(ms[n]) = ns[n].offset + size BY <1>e DEF EndOf
    <3>5. EndOf(ns[n]) = ns[n].offset + ns[n].size BY DEF EndOf
    <3>6. EndOf(ms[new]) = (ns[n].offset + size) + (ns[n].size - size) BY <3>2 DEF EndOf
    <3>7. ms[n].offset = ns[n].offset BY <1>e
    <3>8. EndOf(ms[new]) = EndOf(ns[n]) BY <3>1, <3>3, <3>5, <3>6
    <3>9. EndOf(ms[n]) = ms[new].offset BY <3>2, <3>4
    <3>10. EndOf(ns[n]) \in Nat BY <3>1, <3>5
    <3>11. ms[new].offset \in Nat /\ ns[n].offset <= ms[new].offset BY <3>1, <3>2, <3>3
    <3>12. ms[new].offset <= EndOf(ns[n]) BY <3>1, <3>2, <3>3, <3>5
    <3>13. QED BY <3>1, <3>7, <3>8, <3>9, <3>10, <3>11, <3>12
  <2>3. ASSUME NEW m \in Nodes, ms[m].status # "INIT" PROVE EndOf(ms[m]) <= Size
    <3>1. CASE m = new BY <2>2, <3>1, <1>c
    <3>2. CASE m = n BY <2>2, <3>2, <1>c, <1>a
    <3>3. CASE m \notin {n, new} BY <2>3, <3>3, <1>d DEF Shape, Ordered
    <3>4. QED BY <3>1, <3>2, <3>3
  <2> DEFINE Was(p) == IF p > at THEN p - 1 ELSE p
  <2>4. ASSUME NEW p \in 1 .. Len(k)
        PROVE  /\ Was(p) \in 1 .. Len(l)
               /\ ns[l[Was(p)]].offset <= ms[k[p]].offset /\ ms[k[p]].offset \in Nat
               /\ EndOf(ms[k[p]]) <= EndOf(ns[l[Was(p)]]) /\ EndOf(ms[k[p]]) \in Nat
    <3>0. \A q \in 1 .. Len(l) : q # at => l[q] \in Nodes /\ ms[l[q]] = ns[l[q]]
      BY <1>a, <1>b, <1>d DEF Shape, Listed
    <3>a. \A m \in Nodes : EndOf(ns[m]) \in Nat BY <2>1 DEF EndOf
    <3>1. CASE p < at
      <4>1. Was(p) = p /\ p \in 1 .. Len(l) /\ k[p] = l[p] /\ p # at BY <3>1, <1>a, <1>f
      <4>2. ms[k[p]] = ns[l[p]] /\ l[p] \in Nodes BY <4>1, <3>0
      <4>3. QED BY <4>1, <4>2, <3>a, <2>1
    <3>2. CASE p = at
      <4>1. Was(p) = p /\ p \in 1 .. Len(l) /\ k[p] = new BY <3>2, <1>a, <1>f
      <4>2. QED BY <4>1, <3>2, <2>2
    <3>3. CASE p = at + 1
      <4>1. Was(p) = at /\ p - 1 = at /\ p > at BY <3>3, <1>a
      <4>2. k[p] = n BY <4>1, <3>3, <1>a, <1>f
      <4>3. QED BY <4>1, <4>2, <2>2, <1>a
    <3>4. CASE p > at + 1
      <4>1. Was(p) = p - 1 /\ p - 1 \in 1 .. Len(l) /\ k[p] = l[p - 1] /\ p - 1 # at
        BY <3>4, <1>a, <1>f
      <4>2. ms[k[p]] = ns[l[p - 1]] /\ l[p - 1] \in Nodes BY <4>1, <3>0
      <4>3. QED BY <4>1, <4>2, <3>a, <2>1
    <3>5. QED BY <3>1, <3>2, <3>3, <3>4, <1>a, <1>f
  <2>5. ASSUME NEW p \in 1 .. Len(k), NEW q \in 1 .. Len(k), p < q
        PROVE  EndOf(ms[k[q]]) <= ms[k[p]].offset
    <3>1. CASE p = at /\ q = at + 1
      <4>1. k[p] = new /\ q - 1 = at BY <3>1, <1>a, <1>f
      <4>2. k[q] = n BY <4>1, <3>1, <1>a, <1>f
      <4>3. QED BY <4>1, <4>2, <2>2
    <3>2. CASE ~(p = at /\ q = at + 1)
      <4>1. Was(p) < Was(q) BY <3>2, <2>5, <1>a, <1>f
      <4>2. Was(p) \in 1 .. Len(l) /\ Was(q) \in 1 .. Len(l) BY <2>4
      <4>3. EndOf(ns[l[Was(q)]]) <= ns[l[Was(p)]].offset BY <4>1, <4>2 DEF Shape, Ordered
      <4>4. EndOf(ns[l[Was(q)]]) \in Nat /\ ns[l[Was(p)]].offset \in Nat
        <5> HIDE DEF Was
        <5>1. l[Was(p)] \in Nodes /\ l[Was(q)] \in Nodes BY <4>2, <1>a
        <5>2. ns[l[Was(q)]].offset \in Nat /\ ns[l[Was(q)]].size \in Nat BY <5>1, <2>1
        <5>3. ns[l[Was(p)]].offset \in Nat BY <5>1, <2>1
        <5>4. QED BY SMTT(30), <5>2, <5>3 DEF EndOf
      <4>5. ns[l[Was(p)]].offset <= ms[k[p]].offset /\ ms[k[p]].offset \in Nat BY <2>4
      <4>6. EndOf(ms[k[q]]) <= EndOf(ns[l[Was(q)]]) /\ EndOf(ms[k[q]]) \in Nat BY <2>4
      <4> HIDE DEF Was
      <4>7. QED BY <4>3, <4>4, <4>5, <4>6
    <3>3. QED BY <3>1, <3>2
  <2>6. QED BY <2>3, <2>5 DEF Ordered
<1>3. Listed(ms, k)
  <2>1. \A p \in 1 .. Len(l) : l[p] # new BY <1>b DEF Shape, Listed
  <2>2. ASSUME NEW p \in 1 .. Len(k), NEW q \in 1 .. Len(k), k[p] = k[q] PROVE p = q
    <3>1. \A i, j \in 1 .. Len(l) : l[i] = l[j] => i = j BY DEF Shape, Listed
    <3>2. \A i \in 1 .. Len(k) : i > at => i - 1 \in 1 .. Len(l) /\ k[i] = l[i - 1]
      BY <1>a, <1>f
    <3>3. \A i \in 1 .. Len(k) : i < at => i \in 1 .. Len(l) /\ k[i] = l[i] BY <1>a, <1>f
    <3>4. \A i \in 1 .. Len(k) : i = at => k[i] = new BY <1>f
    <3>a. ASSUME NEW i \in 1 .. Len(k), i # at PROVE k[i] # new
      <4>1. CASE i < at BY <4>1, <3>3, <2>1
      <4>2. CASE i > at BY <4>2, <3>2, <2>1
      <4>3. QED BY <4>1, <4>2, <3>a, <1>a, <1>f
    <3>5. CASE p = at \/ q = at BY <3>a, <3>4, <3>5, <2>2
    <3>6. CASE p < at /\ q < at BY <3>1, <3>3, <3>6, <2>2
    <3>7. CASE p > at /\ q > at
      <4>1. p - 1 = q - 1 BY SMTT(30), <3>1, <3>2, <3>7, <2>2
      <4>2. QED BY <4>1, <1>a, <1>f
    <3>8. CASE p < at /\ q > at
      <4>1. p = q - 1 BY <3>1, <3>2, <3>3, <3>8, <2>2
      <4>2. QED BY <4>1, <3>8, <1>a, <1>f
    <3>9. CASE p > at /\ q < at
      <4>1. p - 1 = q BY <3>1, <3>2, <3>3, <3>9, <2>2
      <4>2. QED BY <4>1, <3>9, <1>a, <1>f
    <3>10. QED BY <3>5, <3>6, <3>7, <3>8, <3>9, <1>a, <1>f
  <2>3. ASSUME NEW m \in Nodes PROVE ms[m].status # "INIT" <=> \E p \in 1 .. Len(k) : k[p] = m
    <3>1. CASE m = new BY <3>1, <1>d, <1>f, <1>a
    <3>2. CASE m # new
      <4>1. ms[m].status # "INIT" <=> ns[m].status # "INIT" BY <3>2, <1>d, <1>e
      <4>2. ASSUME NEW p \in 1 .. Len(l), l[p] = m PROVE \E q \in 1 .. Len(k) : k[q] = m
        <5>1. CASE p < at
          <6>1. p \in 1 .. Len(k) /\ k[p] = l[p] BY <5>1, <1>f, <1>a
          <6>2. QED BY <6>1, <4>2
        <5>2. CASE p >= at
          <6>1. p + 1 \in 1 .. Len(k) /\ k[p + 1] = l[p] BY <5>2, <1>f, <1>a
          <6>2. QED BY <6>1, <4>2
        <5>3. QED BY <5>1, <5>2, <1>a
      <4>3. ASSUME NEW q \in 1 .. Len(k), k[q] = m PROVE \E p \in 1 .. Len(l) : l[p] = m
        <5>1. CASE q < at BY <5>1, <4>3, <1>f, <1>a
        <5>2. CASE q > at
          <6>1. q - 1 \in 1 .. Len(l) /\ l[q - 1] = k[q] BY <5>2, <1>f, <1>a
          <6>2. QED BY <6>1, <4>3
        <5>3. QED BY <5>1, <5>2, <4>3, <3>2, <1>f, <1>a
      <4>4. QED BY <4>1, <4>2, <4>3 DEF Shape, Listed
    <3>3. QED BY <3>1, <3>2
  <2>4. QED BY <2>2, <2>3 DEF Listed
<1>4. EndToEnd(ms, k)
  <2>1. \A p \in 1 .. Len(l) : p # at => l[p] # n /\ l[p] # new
    BY <1>a, <1>b DEF Shape, Listed
  <2>2. ASSUME NEW p \in 1 .. Len(k)
        PROVE  EndOf(ms[k[p]]) = IF p = 1 THEN Size ELSE ms[k[p - 1]].offset
    <3>0. \A q \in 1 .. Len(l) : EndOf(ns[l[q]]) = IF q = 1 THEN Size ELSE ns[l[q - 1]].offset
      BY DEF Shape, EndToEnd
    <3>1. CASE p < at
      <4>1. k[p] = l[p] /\ p \in 1 .. Len(l) /\ ms[l[p]] = ns[l[p]] BY <3>1, <1>a, <1>d, <1>f, <2>1
      <4>2. p # 1 => k[p - 1] = l[p - 1] /\ ms[l[p - 1]] = ns[l[p - 1]]
        <5>1. p # 1 => p - 1 \in 1 .. Len(l) /\ p - 1 \in 1 .. Len(k) /\ p - 1 < at
          BY <3>1, <1>a, <1>f
        <5>2. QED BY <5>1, <1>a, <1>d, <1>f, <2>1
      <4>3. QED BY <4>1, <4>2, <3>0
    <3>2. CASE p = at
      <4>1. k[p] = new /\ EndOf(ms[new]) = EndOf(ns[n])
        BY <3>2, <1>f, <1>c, <1>d DEF EndOf, Records
      <4>2. p # 1 => k[p - 1] = l[p - 1] /\ ms[l[p - 1]] = ns[l[p - 1]]
        <5>1. p # 1 => p - 1 \in 1 .. Len(l) /\ p - 1 \in 1 .. Len(k) /\ p - 1 < at
          BY <3>2, <1>a, <1>f
        <5>2. QED BY <5>1, <1>a, <1>d, <1>f, <2>1
      <4>3. QED BY <4>1, <4>2, <3>0, <3>2
    <3>3. CASE p = at + 1
      <4>1. k[p] = n /\ k[p - 1] = new /\ p # 1
        <5>1. p - 1 = at /\ p - 1 \in 1 .. Len(k) BY <3>3, <1>a, <1>f
        <5>2. QED BY <5>1, <3>3, <1>f, <1>a
      <4>2. EndOf(ms[n]) = ms[new].offset BY <1>c, <1>d, <1>e DEF EndOf, Records
      <4>3. QED BY <4>1, <4>2
    <3>4. CASE p > at + 1
      <4>1. p - 1 \in 1 .. Len(l) /\ p - 1 \in 1 .. Len(k) /\ p - 2 \in 1 .. Len(l)
            /\ p - 1 > at /\ p - 1 # 1
        BY <3>4, <1>a, <1>f
      <4>2. k[p] = l[p - 1] /\ k[p - 1] = l[p - 2] BY <4>1, <3>4, <1>a, <1>f
      <4>3. ms[l[p - 1]] = ns[l[p - 1]] BY <4>1, <1>a, <1>d, <2>1
      <4>4. ms[l[p - 2]].offset = ns[l[p - 2]].offset
        <5>1. CASE p - 2 = at BY <5>1, <1>e
        <5>2. CASE p - 2 # at BY <5>2, <4>1, <1>a, <1>d, <2>1
        <5>3. QED BY <5>1, <5>2
      <4>5. EndOf(ns[l[p - 1]]) = ns[l[p - 2]].offset
        <5>1. (p - 1) - 1 = p - 2 OBVIOUS
        <5>2. QED BY <3>0, <4>1, <5>1
      <4>6. p # 1 BY <4>1
      <4>7. QED BY <4>2, <4>3, <4>4, <4>5, <4>6
    <3>5. QED BY <3>1, <3>2, <3>3, <3>4, <1>a, <1>f
  <2>3. ms[k[Len(k)]].offset = 0
    <3>1. k[Len(k)] = l[Len(l)]
      <4>1. Len(k) \in 1 .. Len(k) /\ Len(k) > at /\ Len(k) - 1 = Len(l) BY <1>a, <1>f
      <4>2. QED BY <4>1, <1>f
    <3>2. ns[l[Len(l)]].offset = 0 /\ Len(l) \in 1 .. Len(l) BY <1>a DEF Shape, EndToEnd
    <3>3. CASE at = Len(l) BY <3>1, <3>2, <3>3, <1>e
    <3>4. CASE at # Len(l) BY <3>1, <3>2, <3>4, <1>a, <1>d, <2>1
    <3>5. QED BY <3>3, <3>4
  <2>4. Len(k) > 0 BY <1>a, <1>f
  <2>5. QED BY <2>2, <2>3, <2>4 DEF EndToEnd
<1>5. SameUsed(ns, ms)
  BY <1>b, <1>d, <1>e DEF SameUsed
<1>6. at \in 1 .. Len(k) /\ k[at] = new BY <1>a, <1>f
<1>7. QED BY <1>1, <1>2, <1>3, <1>4, <1>5, <1>6, <1>b, <1>d, <1>e DEF Shape

(* Two free nodes side by side become one: the lower takes the upper.      *)
Joined(ns, lo, hi) == [ns EXCEPT ![lo].size = @ + ns[hi].size, ![hi] = Spare]

LEMMA Merging ==
  ASSUME NEW ns, NEW l, Shape(ns, l), NEW at \in 1 .. Len(l) - 1,
         NEW hi, hi = l[at], NEW lo, lo = l[at + 1],
         ns[hi].status = "FREE", ns[lo].status = "FREE",
         NEW ms, ms = Joined(ns, lo, hi),
         NEW k, k = RemoveAt(l, at)
  PROVE  /\ Shape(ms, k)
         /\ SameUsed(ns, ms)
         /\ at \in 1 .. Len(k) /\ k[at] = lo /\ hi # lo
         /\ ms[lo].status = "FREE"
<1>a. /\ ns \in [Nodes -> Records] /\ l \in Seq(Nodes) /\ Size \in Nat
      /\ at \in 1 .. Len(l) /\ at + 1 \in 1 .. Len(l) /\ Len(l) \in Nat
  BY HeapAssumption DEF Shape, Typed
<1>b. hi \in Nodes /\ lo \in Nodes /\ hi # lo
  <2>1. hi \in Nodes /\ lo \in Nodes BY <1>a
  <2>2. at # at + 1 BY <1>a
  <2>3. QED BY <1>a, <2>1, <2>2 DEF Shape, Listed
<1>c. /\ ms[hi] = Spare
      /\ ms[lo] = [ns[lo] EXCEPT !.size = ns[lo].size + ns[hi].size]
      /\ \A m \in Nodes : m # hi /\ m # lo => ms[m] = ns[m]
      /\ ms = [m \in Nodes |-> ms[m]]
  BY <1>a, <1>b DEF Joined
<1>d. /\ ms[lo].offset = ns[lo].offset /\ ms[lo].size = ns[lo].size + ns[hi].size
      /\ ms[lo].status = "FREE" /\ ms[hi].status = "INIT"
  <2>1. ns[lo] \in Records BY <1>a, <1>b
  <2>2. QED BY <2>1, <1>c DEF Records, Spare
<1>e. \A m \in Nodes : ns[m].offset \in Nat /\ ns[m].size \in Nat BY <1>a DEF Records
<1>f. EndOf(ns[lo]) = ns[hi].offset /\ EndOf(ns[hi]) <= Size
  <2>1. at + 1 # 1 /\ (at + 1) - 1 = at BY <1>a
  <2>2. EndOf(ns[l[at + 1]]) = ns[l[(at + 1) - 1]].offset BY <1>a, <2>1 DEF Shape, EndToEnd
  <2>3. EndOf(ns[hi]) <= Size BY <1>b DEF Shape, Ordered
  <2>4. QED BY <2>1, <2>2, <2>3
<1>g. EndOf(ms[lo]) = EndOf(ns[hi])
  <2>1. EndOf(ns[lo]) = ns[lo].offset + ns[lo].size /\ EndOf(ns[hi]) = ns[hi].offset + ns[hi].size
    BY DEF EndOf
  <2>2. EndOf(ms[lo]) = ns[lo].offset + (ns[lo].size + ns[hi].size) BY <1>d DEF EndOf
  <2>3. QED BY SMTT(30), <2>1, <2>2, <1>b, <1>e, <1>f
<1>h. /\ k \in Seq(Nodes) /\ Len(k) = Len(l) - 1
      /\ \A p \in 1 .. Len(k) : k[p] = IF p < at THEN l[p] ELSE l[p + 1]
  <2>1. /\ RemoveAt(l, at) \in Seq(Nodes) /\ Len(RemoveAt(l, at)) = Len(l) - 1
        /\ \A p \in 1 .. Len(l) - 1 : RemoveAt(l, at)[p] = IF p < at THEN l[p] ELSE l[p + 1]
    BY <1>a, Removal
  <2>2. QED BY <2>1
<1>1. Typed(ms, k)
  <2>1. ms[lo] \in Records
    <3>1. ns[lo] \in Records BY <1>a, <1>b
    <3>2. /\ ns[lo].offset \in Nat /\ ns[lo].size \in Nat /\ ns[hi].size \in Nat
          /\ ns[hi].offset \in Nat
      BY <1>b, <1>e
    <3>3. EndOf(ms[lo]) <= Size BY <1>f, <1>g
    <3>4. ns[lo].offset + (ns[lo].size + ns[hi].size) <= Size BY <3>3, <1>d DEF EndOf
    <3>5. ns[lo].size + ns[hi].size \in 0 .. Size BY <3>2, <3>4, <1>a
    <3>6. QED BY <3>1, <3>5, <1>c DEF Records
  <2>2. ms[hi] \in Records BY <1>a, <1>c DEF Records, Spare
  <2>3. \A m \in Nodes : ms[m] \in Records BY <1>a, <1>c, <2>1, <2>2
  <2>4. ms \in [Nodes -> Records] BY <2>3, <1>c
  <2>5. ASSUME NEW m \in Nodes, ms[m].status = "INIT" PROVE ms[m] = Spare
    <3>1. CASE m = hi BY <3>1, <1>c
    <3>2. CASE m # hi
      <4>1. ms[m] = ns[m] BY <3>2, <2>5, <1>c, <1>d
      <4>2. QED BY <4>1, <2>5 DEF Shape, Typed
    <3>3. QED BY <3>1, <3>2
  <2>6. QED BY <2>4, <2>5, <1>h DEF Typed
<1>i. /\ k[at] = lo
      /\ \A p \in 1 .. Len(k) : p < at => /\ k[p] = l[p] /\ p \in 1 .. Len(l)
                                          /\ l[p] \in Nodes /\ ms[k[p]] = ns[l[p]]
      /\ \A p \in 1 .. Len(k) : p > at => /\ k[p] = l[p + 1] /\ p + 1 \in 1 .. Len(l)
                                          /\ l[p + 1] \in Nodes /\ ms[k[p]] = ns[l[p + 1]]
  <2>1. at \in 1 .. Len(k) /\ k[at] = lo BY <1>a, <1>h
  <2>2. \A p \in 1 .. Len(l) : p # at /\ p # at + 1 => l[p] \in Nodes /\ ms[l[p]] = ns[l[p]]
    BY <1>a, <1>c DEF Shape, Listed
  <2>3. \A p \in 1 .. Len(k) : p < at => k[p] = l[p] /\ p \in 1 .. Len(l) /\ p # at /\ p # at + 1
    BY <1>a, <1>h
  <2>4. \A p \in 1 .. Len(k) : p > at =>
          k[p] = l[p + 1] /\ p + 1 \in 1 .. Len(l) /\ p + 1 # at /\ p + 1 # at + 1
    BY <1>a, <1>h
  <2>5. QED BY <2>1, <2>2, <2>3, <2>4
<1>2. Ordered(ms, k)
  <2>1. ASSUME NEW m \in Nodes, ms[m].status # "INIT" PROVE EndOf(ms[m]) <= Size
    <3>1. CASE m = lo BY <3>1, <1>f, <1>g
    <3>2. CASE m # lo BY <2>1, <3>2, <1>c, <1>d DEF Shape, Ordered
    <3>3. QED BY <3>1, <3>2
  <2>2. ASSUME NEW p \in 1 .. Len(k), NEW q \in 1 .. Len(k), p < q
        PROVE  EndOf(ms[k[q]]) <= ms[k[p]].offset
    <3>0. \A i, j \in 1 .. Len(l) : i < j => EndOf(ns[l[j]]) <= ns[l[i]].offset
      BY DEF Shape, Ordered
    <3>a. p \in Int /\ q \in Int BY <1>a, <1>h
    <3>1. CASE q < at
      <4>1. p < at BY <3>1, <3>a, <2>2, <1>a
      <4>2. ms[k[p]] = ns[l[p]] /\ ms[k[q]] = ns[l[q]] /\ p \in 1 .. Len(l) /\ q \in 1 .. Len(l)
        BY <3>1, <4>1, <1>i
      <4>3. QED BY <4>2, <3>0, <2>2
    <3>2. CASE q = at
      <4>1. p < at /\ p \in 1 .. Len(l) /\ ms[k[p]] = ns[l[p]] BY <3>2, <2>2, <1>i
      <4>2. EndOf(ns[l[at]]) <= ns[l[p]].offset BY <4>1, <3>0, <1>a
      <4>3. QED BY <4>1, <4>2, <3>2, <1>g, <1>i
    <3>3. CASE q > at /\ p = at
      <4>0. q + 1 \in 1 .. Len(l) /\ ms[k[q]] = ns[l[q + 1]] BY <3>3, <1>i
      <4>1. q + 1 \in 1 .. Len(l) /\ ms[k[q]] = ns[l[q + 1]] /\ at + 1 < q + 1
        BY <4>0, <3>3, <3>a, <1>a
      <4>2. EndOf(ns[l[q + 1]]) <= ns[l[at + 1]].offset BY <4>1, <3>0, <1>a
      <4>3. QED BY <4>1, <4>2, <3>3, <1>d, <1>i
    <3>4. CASE q > at /\ p < at
      <4>1. /\ q + 1 \in 1 .. Len(l) /\ ms[k[q]] = ns[l[q + 1]]
            /\ p \in 1 .. Len(l) /\ ms[k[p]] = ns[l[p]]
        BY <3>4, <1>i
      <4>2. p < q + 1 BY <3>a, <2>2
      <4>3. QED BY <4>1, <4>2, <3>0
    <3>5. CASE q > at /\ p > at
      <4>1. /\ q + 1 \in 1 .. Len(l) /\ ms[k[q]] = ns[l[q + 1]]
            /\ p + 1 \in 1 .. Len(l) /\ ms[k[p]] = ns[l[p + 1]]
        BY <3>5, <1>i
      <4>2. p + 1 < q + 1 BY <3>a, <2>2
      <4>3. QED BY <4>1, <4>2, <3>0
    <3>6. QED BY <3>1, <3>2, <3>3, <3>4, <3>5, <1>a, <1>h
  <2>3. QED BY <2>1, <2>2 DEF Ordered
<1>3. Listed(ms, k)
  <2>1. \A i, j \in 1 .. Len(l) : l[i] = l[j] => i = j BY DEF Shape, Listed
  <2>2. ASSUME NEW p \in 1 .. Len(k), NEW q \in 1 .. Len(k), k[p] = k[q] PROVE p = q
    <3> DEFINE Was(i) == IF i < at THEN i ELSE i + 1
    <3>1. \A i \in 1 .. Len(k) : Was(i) \in 1 .. Len(l) /\ k[i] = l[Was(i)] BY <1>a, <1>h
    <3>2. Was(p) = Was(q) BY ZenonT(30), <3>1, <2>1, <2>2
    <3>3. QED BY <3>2, <1>a, <1>h
  <2>3. ASSUME NEW m \in Nodes PROVE ms[m].status # "INIT" <=> \E p \in 1 .. Len(k) : k[p] = m
    <3>1. CASE m = hi
      <4>1. ms[m].status = "INIT" BY <3>1, <1>d
      <4>2. ASSUME NEW p \in 1 .. Len(k), k[p] = m PROVE FALSE
        <5>1. CASE p < at
          <6>1. l[p] = l[at] /\ p \in 1 .. Len(l) BY <5>1, <4>2, <3>1, <1>i
          <6>2. p = at BY <6>1, <2>1, <1>a
          <6>3. QED BY <6>2, <5>1, <1>a
        <5>2. CASE p = at BY <5>2, <4>2, <3>1, <1>i, <1>b
        <5>3. CASE p > at
          <6>1. l[p + 1] = l[at] /\ p + 1 \in 1 .. Len(l) BY <5>3, <4>2, <3>1, <1>i
          <6>2. p + 1 = at BY <6>1, <2>1, <1>a
          <6>3. QED BY <6>2, <5>3, <1>a
        <5>4. QED BY <5>1, <5>2, <5>3, <1>a, <1>h
      <4>3. QED BY <4>1, <4>2
    <3>2. CASE m # hi
      <4>1. ms[m].status # "INIT" <=> ns[m].status # "INIT" BY <3>2, <1>c, <1>d
      <4>2. ASSUME NEW p \in 1 .. Len(l), l[p] = m PROVE \E q \in 1 .. Len(k) : k[q] = m
        <5>1. CASE p < at BY <5>1, <4>2, <1>h, <1>a
        <5>2. CASE p > at
          <6>1. p - 1 \in 1 .. Len(k) /\ (p - 1) + 1 = p /\ ~(p - 1 < at) BY <5>2, <1>h, <1>a
          <6>2. k[p - 1] = l[p] BY <6>1, <1>h
          <6>3. QED BY <6>1, <6>2, <4>2
        <5>3. p # at BY <3>2, <4>2
        <5>4. QED BY <5>1, <5>2, <5>3, <1>a
      <4>3. ASSUME NEW q \in 1 .. Len(k), k[q] = m PROVE \E p \in 1 .. Len(l) : l[p] = m
        <5>1. CASE q < at BY <5>1, <4>3, <1>i
        <5>2. CASE q = at BY <5>2, <4>3, <1>i, <1>a
        <5>3. CASE q > at BY <5>3, <4>3, <1>i
        <5>4. QED BY <5>1, <5>2, <5>3, <1>a, <1>h
      <4>4. QED BY <4>1, <4>2, <4>3 DEF Shape, Listed
    <3>3. QED BY <3>1, <3>2
  <2>4. QED BY <2>2, <2>3 DEF Listed
<1>4. EndToEnd(ms, k)
  <2>0. \A q \in 1 .. Len(l) : EndOf(ns[l[q]]) = IF q = 1 THEN Size ELSE ns[l[q - 1]].offset
    BY DEF Shape, EndToEnd
  <2>1. ASSUME NEW p \in 1 .. Len(k)
        PROVE  EndOf(ms[k[p]]) = IF p = 1 THEN Size ELSE ms[k[p - 1]].offset
    <3>1. CASE p <= at
      <4>1. EndOf(ms[k[p]]) = EndOf(ns[l[p]]) /\ p \in 1 .. Len(l)
        <5>1. CASE p < at BY <5>1, <1>i
        <5>2. CASE p = at BY <5>2, <1>i, <1>g, <1>a
        <5>3. QED BY <5>1, <5>2, <3>1, <1>a
      <4>2. p # 1 => ms[k[p - 1]] = ns[l[p - 1]]
        <5>1. p # 1 => p - 1 \in 1 .. Len(k) /\ p - 1 < at BY <3>1, <1>a, <1>h
        <5>2. QED BY <5>1, <1>i
      <4>3. QED BY <4>1, <4>2, <2>0
    <3>2. CASE p > at
      <4>1. p # 1 /\ p + 1 \in 1 .. Len(l) /\ p + 1 # 1 /\ (p + 1) - 1 = p /\ p - 1 \in 1 .. Len(k)
        BY <3>2, <1>a, <1>h
      <4>2. EndOf(ms[k[p]]) = ns[l[p]].offset
        <5>1. ms[k[p]] = ns[l[p + 1]] BY <3>2, <1>i
        <5>2. EndOf(ns[l[p + 1]]) = ns[l[(p + 1) - 1]].offset BY <4>1, <2>0
        <5>3. QED BY <5>1, <5>2, <4>1
      <4>3. ms[k[p - 1]].offset = ns[l[p]].offset
        <5>1. CASE p - 1 = at
          <6>1. p = at + 1 BY <5>1, <1>a
          <6>2. QED BY <5>1, <6>1, <1>d, <1>i
        <5>2. CASE p - 1 > at
          <6>1. (p - 1) + 1 = p OBVIOUS
          <6>2. ms[k[p - 1]] = ns[l[(p - 1) + 1]] BY <5>2, <4>1, <1>i
          <6>3. QED BY <6>1, <6>2
        <5>3. QED BY <5>1, <5>2, <3>2, <1>a
      <4>4. QED BY <4>1, <4>2, <4>3
    <3>3. QED BY <3>1, <3>2, <1>a
  <2>2. ms[k[Len(k)]].offset = 0
    <3>1. ns[l[Len(l)]].offset = 0 BY DEF Shape, EndToEnd
    <3>2. Len(k) \in 1 .. Len(k) /\ Len(k) + 1 = Len(l) BY <1>a, <1>h
    <3>3. CASE Len(k) = at
      <4>1. Len(l) = at + 1 BY <3>2, <3>3
      <4>2. QED BY <4>1, <3>1, <3>3, <1>d, <1>i
    <3>4. CASE Len(k) > at
      <4>1. ms[k[Len(k)]] = ns[l[Len(k) + 1]] BY <3>2, <3>4, <1>i
      <4>2. QED BY <4>1, <3>1, <3>2
    <3>5. QED BY <3>2, <3>3, <3>4, <1>a, <1>h
  <2>3. Len(k) > 0 BY <1>a, <1>h
  <2>4. QED BY <2>1, <2>2, <2>3 DEF EndToEnd
<1>6. at \in 1 .. Len(k) /\ k[at] = lo BY <1>a, <1>h
<1>7. SameUsed(ns, ms) BY <1>c, <1>d DEF SameUsed
<1>8. QED BY <1>1, <1>2, <1>3, <1>4, <1>6, <1>7, <1>b, <1>d DEF Shape

(* The nodes in use are apart.                                             *)
LEMMA NodesApart ==
  ASSUME NEW ns, NEW l, Shape(ns, l), NEW m \in Nodes, NEW n \in Nodes, m # n,
         ns[m].status # "INIT", ns[n].status # "INIT"
  PROVE  Separate(ns[m], ns[n])
<1>1. PICK p \in 1 .. Len(l) : l[p] = m BY DEF Shape, Listed
<1>2. PICK q \in 1 .. Len(l) : l[q] = n BY DEF Shape, Listed
<1>3. p < q \/ q < p BY <1>1, <1>2
<1>4. QED BY <1>1, <1>2, <1>3 DEF Shape, Ordered, Separate

(* A node in use changes hands.                                            *)
Marked(ns, n, st) == [ns EXCEPT ![n].status = st]

LEMMA Marking ==
  ASSUME NEW ns, NEW l, Shape(ns, l), NEW n \in Nodes, ns[n].status # "INIT",
         NEW st \in {"FREE", "USED"}, NEW ms, ms = Marked(ns, n, st)
  PROVE  /\ Shape(ms, l)
         /\ ms[n].status = st
         /\ \A m \in Nodes : ms[m].offset = ns[m].offset /\ ms[m].size = ns[m].size
         /\ \A m \in Nodes : m # n => ms[m] = ns[m]
<1>a. ns \in [Nodes -> Records] /\ l \in Seq(Nodes) BY DEF Shape, Typed
<1>b. /\ ms[n] = [ns[n] EXCEPT !.status = st] /\ ns[n] \in Records
      /\ \A m \in Nodes : m # n => ms[m] = ns[m]
      /\ ms = [m \in Nodes |-> ms[m]]
  BY <1>a DEF Marked
<1>c. ms[n].status = st /\ ms[n].offset = ns[n].offset /\ ms[n].size = ns[n].size
      /\ ms[n] \in Records
  BY <1>b DEF Records
<1>d. \A m \in Nodes : ms[m].offset = ns[m].offset /\ ms[m].size = ns[m].size
                       /\ EndOf(ms[m]) = EndOf(ns[m])
                       /\ (ms[m].status # "INIT" <=> ns[m].status # "INIT")
  BY <1>b, <1>c DEF EndOf
<1>e. \A p \in 1 .. Len(l) : l[p] \in Nodes BY <1>a
<1>1. Typed(ms, l)
  <2>1. \A m \in Nodes : ms[m] \in Records BY <1>a, <1>b, <1>c
  <2>2. ms \in [Nodes -> Records] BY <2>1, <1>b
  <2>3. QED BY <2>2, <1>a, <1>b, <1>c DEF Shape, Typed
<1>2. Listed(ms, l) BY <1>d DEF Shape, Listed
<1>3. Ordered(ms, l)
  <2>1. \A m \in Nodes : ms[m].status # "INIT" => EndOf(ms[m]) <= Size
    BY <1>d DEF Shape, Ordered
  <2>2. \A p, q \in 1 .. Len(l) : p < q => EndOf(ms[l[q]]) <= ms[l[p]].offset
    BY <1>d, <1>e DEF Shape, Ordered
  <2>3. QED BY <2>1, <2>2 DEF Ordered
<1>4. EndToEnd(ms, l)
  <2>1. Len(l) \in 1 .. Len(l) BY <1>a DEF Shape, EndToEnd
  <2>2. ms[l[Len(l)]].offset = 0 BY <2>1, <1>d, <1>e DEF Shape, EndToEnd
  <2>3. ASSUME NEW p \in 1 .. Len(l)
        PROVE  EndOf(ms[l[p]]) = IF p = 1 THEN Size ELSE ms[l[p - 1]].offset
    <3>1. EndOf(ns[l[p]]) = IF p = 1 THEN Size ELSE ns[l[p - 1]].offset
      BY DEF Shape, EndToEnd
    <3>2. p # 1 => p - 1 \in 1 .. Len(l) BY <1>a
    <3>3. p # 1 => ms[l[p - 1]].offset = ns[l[p - 1]].offset BY <3>2, <1>d, <1>e
    <3>4. EndOf(ms[l[p]]) = EndOf(ns[l[p]]) BY <1>d, <1>e
    <3>5. QED BY <3>1, <3>3, <3>4
  <2>4. QED BY <2>2, <2>3 DEF Shape, EndToEnd
<1>5. QED BY <1>1, <1>2, <1>3, <1>4, <1>b, <1>c, <1>d DEF Shape

-----------------------------------------------------------------------------
(* The operations on the node array and the list.                          *)
MaySplit(ns, l, at, size) ==
  /\ Shape(ns, l) /\ at \in 1 .. Len(l)
  /\ ns[l[at]].status = "FREE" /\ size \in 0 .. ns[l[at]].size

HasSplit(ns, l, at, size, s) ==
  /\ Shape(s.nodes, s.list) /\ SameUsed(ns, s.nodes)
  /\ s.nodes[l[at]].offset = ns[l[at]].offset
  /\ s.nodes[l[at]].status = "FREE"
  /\ size <= s.nodes[l[at]].size
  /\ Idle(ns) # {} =>
       /\ at \in 1 .. Len(s.list)
       /\ s.nodes[s.list[at]] = [offset |-> ns[l[at]].offset + size,
                                size |-> ns[l[at]].size - size, status |-> "FREE"]

LEMMA SplitKeeps ==
  ASSUME NEW ns, NEW l, NEW at, NEW size, MaySplit(ns, l, at, size)
  PROVE  HasSplit(ns, l, at, size, Split(ns, l, at, size))
<1>0. SUFFICES ASSUME NEW s, s = Split(ns, l, at, size) PROVE HasSplit(ns, l, at, size, s)
  OBVIOUS
<1>. USE DEF MaySplit, HasSplit
<1>1. CASE Idle(ns) = {}
  <2>1. s.nodes = ns /\ s.list = l BY <1>0, <1>1 DEF Split
  <2>2. ns[l[at]] \in Records BY DEF Shape, Typed
  <2>3. ns[l[at]].size \in Nat BY <2>2, HeapAssumption DEF Records
  <2>4. QED BY <1>1, <2>1, <2>3 DEF SameUsed
<1>2. CASE Idle(ns) # {}
  <2>1. PICK new \in Nodes : new = (CHOOSE m \in Idle(ns) : TRUE) /\ ns[new] = Spare
    BY <1>2 DEF Idle
  <2>2. s.nodes = Parted(ns, l[at], new, size) /\ s.list = InsertAt(l, at, new)
    BY <1>0, <1>2, <2>1 DEF Split, Parted
  <2>3. /\ Shape(s.nodes, s.list) /\ SameUsed(ns, s.nodes)
        /\ at \in 1 .. Len(s.list) /\ s.list[at] = new
        /\ s.nodes[new] = [offset |-> ns[l[at]].offset + size,
                          size |-> ns[l[at]].size - size, status |-> "FREE"]
        /\ s.nodes[l[at]].offset = ns[l[at]].offset /\ s.nodes[l[at]].size = size
        /\ s.nodes[l[at]].status = "FREE"
    BY <2>1, <2>2, Splitting
  <2>4. size \in Nat /\ size <= size
    <3>1. ns[l[at]] \in Records BY DEF Shape, Typed
    <3>2. ns[l[at]].size \in Nat BY <3>1, HeapAssumption DEF Records
    <3>3. QED BY <3>2
  <2>5. QED BY <2>3, <2>4
<1>3. QED BY <1>1, <1>2

LEMMA CutKeeps ==
  ASSUME Shape(nodes, list), Idle(nodes) # {},
         NEW at \in 1 .. Len(list), nodes[list[at]].status = "FREE",
         NEW skip \in Nat, NEW size \in Nat, skip + size <= nodes[list[at]].size,
         NEW c, c = Cut(at, skip, size)
  PROVE  /\ Shape(c.nodes, c.list) /\ SameUsed(nodes, c.nodes)
         /\ c.node \in Nodes /\ c.nodes[c.node].status = "FREE"
         /\ c.nodes[c.node].offset = nodes[list[at]].offset + skip
         /\ size <= c.nodes[c.node].size
<1> DEFINE low == IF skip = 0 THEN [nodes |-> nodes, list |-> list] ELSE Split(nodes, list, at, skip)
           node == low.list[at]
           cut == IF low.nodes[node].size = size THEN low ELSE Split(low.nodes, low.list, at, size)
<1>0. /\ nodes[list[at]].offset \in Nat /\ nodes[list[at]].size \in Nat
  <2>1. nodes[list[at]] \in Records BY DEF Shape, Typed
  <2>2. QED BY <2>1, HeapAssumption DEF Records
<1>1. c.node = node /\ c.nodes = cut.nodes /\ c.list = cut.list BY DEF Cut
<1>2. /\ Shape(low.nodes, low.list) /\ SameUsed(nodes, low.nodes)
      /\ at \in 1 .. Len(low.list) /\ low.nodes[node].status = "FREE"
      /\ low.nodes[node].offset = nodes[list[at]].offset + skip
      /\ low.nodes[node].size = nodes[list[at]].size - skip
  <2>1. CASE skip = 0 BY <2>1, <1>0 DEF SameUsed
  <2>2. CASE skip # 0
    <3>1. skip \in 0 .. nodes[list[at]].size BY <1>0
    <3>2. low = Split(nodes, list, at, skip) BY <2>2
    <3> HIDE DEF low
    <3>3. /\ Shape(low.nodes, low.list) /\ SameUsed(nodes, low.nodes)
          /\ at \in 1 .. Len(low.list)
          /\ low.nodes[low.list[at]] = [offset |-> nodes[list[at]].offset + skip,
                                       size |-> nodes[list[at]].size - skip, status |-> "FREE"]
      <4>1. MaySplit(nodes, list, at, skip) BY <3>1 DEF MaySplit
      <4>2. HasSplit(nodes, list, at, skip, low) BY <4>1, <3>2, SplitKeeps
      <4>3. QED BY <4>2 DEF HasSplit
    <3>4. QED BY <3>3
  <2>3. QED BY <2>1, <2>2
<1> HIDE DEF low
<1>3. node \in Nodes BY <1>2 DEF Shape, Typed
<1>4. size \in 0 .. low.nodes[node].size BY <1>0, <1>2
<1>5. /\ Shape(cut.nodes, cut.list) /\ SameUsed(low.nodes, cut.nodes)
      /\ cut.nodes[node].offset = low.nodes[node].offset
      /\ cut.nodes[node].status = "FREE" /\ size <= cut.nodes[node].size
  <2>1. CASE low.nodes[node].size = size BY <2>1, <1>2, <1>4 DEF SameUsed
  <2>2. CASE low.nodes[node].size # size
    <3>1. PICK ns, l : ns = low.nodes /\ l = low.list OBVIOUS
    <3>2. cut = Split(ns, l, at, size) /\ node = l[at] BY <2>2, <3>1
    <3>3. Shape(ns, l) /\ at \in 1 .. Len(l) /\ ns[l[at]].status = "FREE" BY <3>1, <1>2
    <3>4. size \in 0 .. ns[l[at]].size BY <3>1, <1>4
    <3>5. /\ Shape(cut.nodes, cut.list) /\ SameUsed(ns, cut.nodes)
          /\ cut.nodes[l[at]].offset = ns[l[at]].offset
          /\ cut.nodes[l[at]].status = "FREE" /\ size <= cut.nodes[l[at]].size
      <4>1. MaySplit(ns, l, at, size) BY <3>3, <3>4 DEF MaySplit
      <4>2. HasSplit(ns, l, at, size, cut) BY <4>1, <3>2, SplitKeeps
      <4> HIDE DEF cut
      <4>3. QED BY <4>2 DEF HasSplit
    <3>6. QED BY <3>1, <3>2, <3>5
  <2>3. QED BY <2>1, <2>2
<1>6. SameUsed(nodes, cut.nodes) BY <1>2, <1>5 DEF SameUsed
<1> HIDE DEF cut, node
<1>7. QED BY <1>1, <1>2, <1>3, <1>5, <1>6

HasMerged(ns, l, at, r) ==
  /\ Shape(r.nodes, r.list) /\ SameUsed(ns, r.nodes)
  /\ r.at \in 1 .. Len(r.list) /\ r.nodes[r.list[r.at]].status = "FREE"

LEMMA MergeAboveKeeps ==
  ASSUME NEW ns, NEW l, NEW at, Shape(ns, l), at \in 1 .. Len(l), ns[l[at]].status = "FREE"
  PROVE  HasMerged(ns, l, at, MergeAbove(ns, l, at))
<1>0. SUFFICES ASSUME NEW r, r = MergeAbove(ns, l, at) PROVE HasMerged(ns, l, at, r)
  OBVIOUS
<1> DEFINE joined == /\ at > 1 /\ ns[l[at - 1]].status = "FREE"
                     /\ ns[l[at - 1]].offset = ns[l[at]].offset + ns[l[at]].size
<1>1. CASE joined
  <2>1. /\ r.nodes = [ns EXCEPT ![l[at]].size = @ + ns[l[at - 1]].size, ![l[at - 1]] = Spare]
        /\ r.list = RemoveAt(l, at - 1) /\ r.at = at - 1
    BY <1>0, <1>1 DEF MergeAbove
  <2>2. at - 1 \in 1 .. Len(l) - 1 /\ (at - 1) + 1 = at BY <1>1
  <2>3. PICK lo, hi, b : lo = l[at] /\ hi = l[at - 1] /\ b = at - 1 OBVIOUS
  <2>4. /\ b \in 1 .. Len(l) - 1 /\ hi = l[b] /\ lo = l[b + 1]
        /\ ns[hi].status = "FREE" /\ ns[lo].status = "FREE"
        /\ r.nodes = Joined(ns, lo, hi)
        /\ r.list = RemoveAt(l, b) /\ r.at = b
    BY <1>1, <2>1, <2>2, <2>3 DEF Joined
  <2>5. /\ Shape(r.nodes, r.list) /\ SameUsed(ns, r.nodes)
        /\ b \in 1 .. Len(r.list) /\ r.list[b] = lo
        /\ r.nodes[lo].status = "FREE"
    BY <2>4, Merging
  <2>6. QED BY <2>4, <2>5 DEF HasMerged
<1>2. CASE ~joined
  <2>1. r.nodes = ns /\ r.list = l /\ r.at = at BY <1>0, <1>2 DEF MergeAbove
  <2>2. QED BY <2>1 DEF HasMerged, SameUsed
<1>3. QED BY <1>1, <1>2

LEMMA MergeBelowKeeps ==
  ASSUME NEW ns, NEW l, NEW at, Shape(ns, l), at \in 1 .. Len(l), ns[l[at]].status = "FREE",
         NEW r, r = MergeBelow(ns, l, at)
  PROVE  Shape(r.nodes, r.list) /\ SameUsed(ns, r.nodes)
<1> DEFINE joined == /\ at < Len(l) /\ ns[l[at + 1]].status = "FREE"
                     /\ ns[l[at + 1]].offset + ns[l[at + 1]].size = ns[l[at]].offset
<1>1. CASE joined
  <2>1. /\ r.nodes = [ns EXCEPT ![l[at + 1]].size = @ + ns[l[at]].size, ![l[at]] = Spare]
        /\ r.list = RemoveAt(l, at)
    BY <1>1 DEF MergeBelow
  <2>2. at \in 1 .. Len(l) - 1 BY <1>1
  <2>3. PICK lo, hi : lo = l[at + 1] /\ hi = l[at] OBVIOUS
  <2>4. /\ ns[hi].status = "FREE" /\ ns[lo].status = "FREE"
        /\ r.nodes = Joined(ns, lo, hi)
    BY <1>1, <2>1, <2>3 DEF Joined
  <2>5. QED BY <2>1, <2>2, <2>3, <2>4, Merging
<1>2. CASE ~joined
  <2>1. r.nodes = ns /\ r.list = l BY <1>2 DEF MergeBelow
  <2>2. QED BY <2>1 DEF SameUsed
<1>3. QED BY <1>1, <1>2

-----------------------------------------------------------------------------
(* What an allocation and a release do to the nodes: one of them becomes   *)
(* used or unused, the other used ones stay as they are.                   *)
Others(n) ==
  \A m \in Nodes \ {n} : nodes[m].status = "USED" \/ nodes'[m].status = "USED"
                         => nodes'[m] = nodes[m]

Granted(h, n, size, align) ==
  /\ Shape(nodes', list')
  /\ nodes[n].status # "USED" /\ nodes'[n].status = "USED" /\ Others(n)
  /\ size <= nodes'[n].size
  /\ free_bytes' = free_bytes - nodes'[n].size
  /\ \/ /\ handle' = [handle EXCEPT ![h] =
             [node |-> n, physical |-> Physical + nodes'[n].offset,
              size |-> size, align |-> align]]
        /\ lost' = lost
     \/ lost' = lost \cup {n} /\ handle' = handle

(* What both ways to allocate have found when they take a block. *)
Takes(h, at, skip, size, align) ==
  /\ Idle(nodes) # {} /\ nodes[list[at]].status = "FREE"
  /\ skip + size <= nodes[list[at]].size
  /\ (Physical + (nodes[list[at]].offset + skip)) % align = 0
  /\ Take(h, at, skip, size, align)

LEMMA TakeGrants ==
  ASSUME Shape(nodes, list), NEW at \in 1 .. Len(list), NEW skip \in Nat, NEW size \in Nat,
         NEW h, NEW align, Takes(h, at, skip, size, align)
  PROVE  \E n \in Nodes : /\ Granted(h, n, size, align)
                         /\ nodes'[n].offset = nodes[list[at]].offset + skip
<1>0. /\ Idle(nodes) # {} /\ nodes[list[at]].status = "FREE"
      /\ skip + size <= nodes[list[at]].size /\ Take(h, at, skip, size, align)
  BY DEF Takes
<1>1. PICK c : c = Cut(at, skip, size) OBVIOUS
<1>2. /\ Shape(c.nodes, c.list) /\ SameUsed(nodes, c.nodes)
      /\ c.node \in Nodes /\ c.nodes[c.node].status = "FREE"
      /\ c.nodes[c.node].offset = nodes[list[at]].offset + skip
      /\ size <= c.nodes[c.node].size
  BY <1>0, <1>1, CutKeeps
<1>3. PICK n, ms : n = c.node /\ ms = c.nodes OBVIOUS
<1>4. /\ nodes' = Marked(ms, n, "USED") /\ list' = c.list
      /\ free_bytes' = free_bytes - ms[n].size
      /\ \/ /\ handle' = [handle EXCEPT ![h] =
                 [node |-> n, physical |-> Physical + ms[n].offset,
                  size |-> size, align |-> align]]
            /\ lost' = lost
         \/ lost' = lost \cup {n} /\ handle' = handle
  BY <1>0, <1>1, <1>3 DEF Take, Marked
<1>5. n \in Nodes /\ Shape(ms, c.list) /\ ms[n].status # "INIT" BY <1>2, <1>3
<1>6. /\ Shape(nodes', c.list) /\ nodes'[n].status = "USED"
      /\ nodes'[n].offset = ms[n].offset /\ nodes'[n].size = ms[n].size
      /\ \A m \in Nodes : m # n => nodes'[m] = ms[m]
  BY <1>4, <1>5, Marking
<1>7. nodes[n].status # "USED" BY <1>2, <1>3 DEF SameUsed
<1>8. Others(n) BY <1>2, <1>3, <1>6 DEF Others, SameUsed
<1>9. QED BY <1>2, <1>3, <1>4, <1>5, <1>6, <1>7, <1>8 DEF Granted

LEMMA FreeReleases ==
  ASSUME Inv, NEW h \in Handles, Free(h)
  PROVE  /\ Shape(nodes', list') /\ handle[h].node \in Nodes
         /\ nodes'[handle[h].node].status # "USED" /\ Others(handle[h].node)
         /\ handle' = [handle EXCEPT ![h] = NoBlock] /\ lost' = lost
<1>1. PICK n : n = handle[h].node OBVIOUS
<1>2. handle[h] # NoBlock /\ n \in Nodes /\ nodes[n].status = "USED"
  BY <1>1 DEF Inv, Free, Blocks
<1>3. PICK fs : fs = Marked(nodes, n, "FREE") OBVIOUS
<1>4. /\ Shape(fs, list) /\ fs[n].status = "FREE"
      /\ \A m \in Nodes : m # n => fs[m] = nodes[m]
  <2>1. Shape(nodes, list) /\ nodes[n].status # "INIT" BY <1>2 DEF Inv
  <2>2. QED BY <1>2, <1>3, <2>1, Marking
<1>5. PICK at \in DOMAIN list :
        /\ list[at] = n
        /\ nodes' = MergeBelow(MergeAbove(fs, list, at).nodes, MergeAbove(fs, list, at).list,
                              MergeAbove(fs, list, at).at).nodes
        /\ list' = MergeBelow(MergeAbove(fs, list, at).nodes, MergeAbove(fs, list, at).list,
                             MergeAbove(fs, list, at).at).list
  BY <1>1, <1>3 DEF Free, Marked
<1>6. at \in 1 .. Len(list) BY DEF Inv, Shape, Typed
<1>7. PICK u : u = MergeAbove(fs, list, at) OBVIOUS
<1>8. HasMerged(fs, list, at, u) BY <1>4, <1>5, <1>6, <1>7, MergeAboveKeeps
<1>9. PICK us, ul, ua : us = u.nodes /\ ul = u.list /\ ua = u.at OBVIOUS
<1>10. Shape(us, ul) /\ SameUsed(fs, us) /\ ua \in 1 .. Len(ul) /\ us[ul[ua]].status = "FREE"
  BY <1>8, <1>9 DEF HasMerged
<1>11. PICK d : d = MergeBelow(us, ul, ua) OBVIOUS
<1>12. Shape(d.nodes, d.list) /\ SameUsed(us, d.nodes) BY <1>10, <1>11, MergeBelowKeeps
<1>13. nodes' = d.nodes /\ list' = d.list BY <1>5, <1>7, <1>9, <1>11
<1>14. SameUsed(fs, nodes') BY <1>10, <1>12, <1>13 DEF SameUsed
<1>15. nodes'[n].status # "USED" BY <1>2, <1>4, <1>14 DEF SameUsed
<1>16. Others(n) BY <1>4, <1>14 DEF SameUsed, Others
<1>17. QED BY <1>1, <1>2, <1>12, <1>13, <1>15, <1>16 DEF Free

-----------------------------------------------------------------------------
(* The invariant.                                                          *)
LEMMA InvInit == Init => Inv
<1> SUFFICES ASSUME Init PROVE Inv OBVIOUS
<1> USE HeapAssumption
<1>a. NodeCapacity \in Nodes /\ Size \in Nat /\ Physical \in Nat BY DEF Nodes
<1>b. /\ list = <<NodeCapacity>> /\ Len(list) = 1 /\ list[1] = NodeCapacity
      /\ list \in Seq(Nodes)
  BY <1>a DEF Init
<1>c. /\ nodes[NodeCapacity] = [offset |-> 0, size |-> Size, status |-> "FREE"]
      /\ \A n \in Nodes : n # NodeCapacity => nodes[n] = Spare
      /\ nodes = [n \in Nodes |-> nodes[n]]
  BY <1>a DEF Init
<1>d. Spare.status = "INIT" /\ Spare \in Records BY <1>a DEF Spare, Records
<1>1. Typed(nodes, list)
  <2>1. nodes[NodeCapacity] \in Records BY <1>a, <1>c DEF Records
  <2>2. \A n \in Nodes : nodes[n] \in Records BY <1>c, <1>d, <2>1
  <2>3. nodes \in [Nodes -> Records] BY <1>c, <2>2
  <2>4. \A n \in Nodes : nodes[n].status = "INIT" => nodes[n] = Spare BY <1>c
  <2>5. QED BY <1>b, <2>3, <2>4 DEF Typed
<1>2. Listed(nodes, list)
  <2>1. \A n \in Nodes : nodes[n].status # "INIT" <=> n = NodeCapacity BY <1>a, <1>c, <1>d
  <2>2. QED BY <1>b, <2>1 DEF Listed
<1>3. EndOf(nodes[NodeCapacity]) = Size BY <1>a, <1>c DEF EndOf
<1>4. Ordered(nodes, list)
  <2>1. \A n \in Nodes : nodes[n].status # "INIT" => EndOf(nodes[n]) <= Size
    BY <1>a, <1>c, <1>d, <1>3
  <2>2. QED BY <2>1, <1>b DEF Ordered
<1>5. EndToEnd(nodes, list) BY <1>b, <1>c, <1>3 DEF EndToEnd
<1>6. handle = [h \in Handles |-> NoBlock] /\ lost = {} BY DEF Init
<1>7. \A n \in Nodes : nodes[n].status # "USED" BY <1>c, <1>d
<1>8. Owned
  <2>1. \A h \in Handles : handle[h] = NoBlock BY <1>6
  <2>2. QED BY <1>6, <1>7, <2>1 DEF Owned
<1>9. Aligned BY <1>6 DEF Aligned
<1>10. QED BY <1>1, <1>2, <1>4, <1>5, <1>6, <1>8, <1>9 DEF Inv, Shape

(* A range that is granted: the books stay right, and so does the promise. *)
HeldRanges == [h \in Handles |-> RangeOf(h)]

LEMMA BlockNodes ==
  ASSUME Inv, NEW h \in Handles, handle[h] # NoBlock
  PROVE  /\ handle[h] \in Blocks /\ handle[h].node \in Nodes
         /\ nodes[handle[h].node].status = "USED"
BY DEF Inv, Owned, Blocks

LEMMA GrantKeeps ==
  ASSUME Inv, NEW h \in Handles, handle[h] = NoBlock, NEW n \in Nodes,
         NEW size \in Nat, NEW align \in Nat \ {0}, Granted(h, n, size, align),
         (Physical + nodes'[n].offset) % align = 0
  PROVE  Inv'
<1> DEFINE block == [node |-> n, physical |-> Physical + nodes'[n].offset,
                     size |-> size, align |-> align]
<1>a. nodes' \in [Nodes -> Records] /\ nodes \in [Nodes -> Records]
  BY DEF Inv, Granted, Shape, Typed
<1>b. block \in Blocks
  <2>1. nodes'[n] \in Records BY <1>a
  <2>2. nodes'[n].offset \in 0 .. Size BY <2>1 DEF Records
  <2>3. Physical + nodes'[n].offset \in Physical .. Physical + Size BY <2>2, HeapAssumption
  <2>4. QED BY <2>3 DEF Blocks
<1>c. NoBlock.node = 0 /\ 0 \notin Nodes BY DEF NoBlock, Nodes
<1>d. block # NoBlock
  <2>1. block.node = n OBVIOUS
  <2>2. QED BY <2>1, <1>c
<1>e. /\ n \notin lost
      /\ \A g \in Handles : handle[g] # NoBlock => handle[g].node # n
  BY DEF Inv, Owned, Granted
<1>f. {m \in Nodes : nodes'[m].status = "USED"} = {m \in Nodes : nodes[m].status = "USED"} \cup {n}
  BY DEF Granted, Others
<1>g. \A g \in Handles : handle[g] # NoBlock => nodes'[handle[g].node] = nodes[handle[g].node]
  BY <1>e, BlockNodes DEF Granted, Others
<1> HIDE DEF block
<1>1. CASE lost' = lost \cup {n} /\ handle' = handle
  <2>1. lost' \subseteq Nodes /\ handle' \in [Handles -> Blocks \cup {NoBlock}]
    BY <1>1 DEF Inv
  <2>2. Owned' BY <1>1, <1>e, <1>f, <1>g DEF Inv, Owned
  <2>3. Aligned' BY <1>1 DEF Inv, Aligned
  <2>4. QED BY <2>1, <2>2, <2>3 DEF Inv, Granted
<1>2. CASE handle' = [handle EXCEPT ![h] = block] /\ lost' = lost
  <2>0. handle \in [Handles -> Blocks \cup {NoBlock}] /\ lost \subseteq Nodes BY DEF Inv
  <2>1. handle'[h] = block /\ \A g \in Handles : g # h => handle'[g] = handle[g]
    BY <1>2, <2>0
  <2>2. handle' \in [Handles -> Blocks \cup {NoBlock}] BY <1>2, <1>b, <2>0
  <2>3. block.node = n /\ block.physical = Physical + nodes'[n].offset /\ block.size = size
        /\ block.align = align
    BY DEF block
  <2>4. Owned'
    <3>1. \A f, g \in Handles : handle'[f].node = handle'[g].node /\ handle'[f] # NoBlock => f = g
      <4>1. SUFFICES ASSUME NEW f \in Handles, NEW g \in Handles,
                            handle'[f].node = handle'[g].node, handle'[f] # NoBlock
                     PROVE  f = g
        OBVIOUS
      <4>2. CASE f = h /\ g # h
        <5>1. handle[g].node = n BY <4>1, <4>2, <2>1, <2>3
        <5>2. handle[g] # NoBlock BY <5>1, <1>c
        <5>3. QED BY <5>1, <5>2, <1>e
      <4>3. CASE f # h /\ g = h BY <4>1, <4>3, <2>1, <2>3, <1>e
      <4>4. CASE f # h /\ g # h BY <4>1, <4>4, <2>1 DEF Inv, Owned
      <4>5. QED BY <4>2, <4>3, <4>4
    <3>2. {handle'[g].node : g \in {f \in Handles : handle'[f] # NoBlock}}
            = {handle[g].node : g \in {f \in Handles : handle[f] # NoBlock}} \cup {n}
      BY <2>1, <2>3, <1>d
    <3>3. {m \in Nodes : nodes[m].status = "USED"}
            = lost \cup {handle[g].node : g \in {f \in Handles : handle[f] # NoBlock}}
      BY DEF Inv, Owned
    <3>4. {m \in Nodes : nodes'[m].status = "USED"}
            = lost' \cup {handle'[g].node : g \in {f \in Handles : handle'[f] # NoBlock}}
      BY <3>2, <3>3, <1>2, <1>f
    <3>5. ASSUME NEW g \in Handles, handle'[g] # NoBlock
          PROVE  /\ handle'[g].node \notin lost'
                 /\ handle'[g].physical = Physical + nodes'[handle'[g].node].offset
                 /\ handle'[g].size <= nodes'[handle'[g].node].size
      <4>1. CASE g = h BY <4>1, <2>1, <2>3, <1>2, <1>e DEF Granted
      <4>2. CASE g # h
        <5>1. handle'[g] = handle[g] /\ handle[g] # NoBlock BY <4>2, <2>1, <3>5
        <5>2. /\ handle[g].node \notin lost
              /\ handle[g].physical = Physical + nodes[handle[g].node].offset
              /\ handle[g].size <= nodes[handle[g].node].size
          BY <5>1 DEF Inv, Owned
        <5>3. nodes'[handle[g].node] = nodes[handle[g].node] BY <5>1, <1>g
        <5>4. QED BY <5>1, <5>2, <5>3, <1>2
      <4>3. QED BY <4>1, <4>2
    <3>6. QED BY <3>1, <3>4, <3>5 DEF Owned
  <2>5. Aligned' BY <2>1, <2>3 DEF Inv, Aligned
  <2>6. QED BY <2>0, <2>2, <2>4, <2>5, <1>2 DEF Inv, Granted
<1>3. QED BY <1>1, <1>2 DEF Granted, block

LEMMA FreeKeeps ==
  ASSUME Inv, NEW h \in Handles, Free(h)
  PROVE  Inv'
<1>1. PICK n : n = handle[h].node OBVIOUS
<1>2. /\ Shape(nodes', list') /\ n \in Nodes
      /\ nodes'[n].status # "USED" /\ Others(n)
      /\ handle' = [handle EXCEPT ![h] = NoBlock] /\ lost' = lost
  BY <1>1, FreeReleases
<1>3. handle \in [Handles -> Blocks \cup {NoBlock}] /\ lost \subseteq Nodes BY DEF Inv
<1>4. handle[h] # NoBlock BY DEF Free
<1>5. handle'[h] = NoBlock /\ \A g \in Handles : g # h => handle'[g] = handle[g] BY <1>2, <1>3
<1>6. handle' \in [Handles -> Blocks \cup {NoBlock}] BY <1>2, <1>3
<1>7. {m \in Nodes : nodes'[m].status = "USED"} = {m \in Nodes : nodes[m].status = "USED"} \ {n}
  BY <1>2 DEF Others
<1>8. n \notin lost /\ \A g \in Handles : g # h /\ handle[g] # NoBlock => handle[g].node # n
  BY <1>1, <1>4 DEF Inv, Owned
<1>9. {handle'[g].node : g \in {f \in Handles : handle'[f] # NoBlock}}
        = {handle[g].node : g \in {f \in Handles : handle[f] # NoBlock}} \ {n}
  BY <1>1, <1>4, <1>5, <1>8
<1>10. Owned'
  <2>1. \A f, g \in Handles : handle'[f].node = handle'[g].node /\ handle'[f] # NoBlock => f = g
    <3>1. SUFFICES ASSUME NEW f \in Handles, NEW g \in Handles,
                          handle'[f].node = handle'[g].node, handle'[f] # NoBlock
                   PROVE  f = g
      OBVIOUS
    <3>2. f # h /\ handle[f] # NoBlock /\ handle'[f] = handle[f] BY <3>1, <1>5
    <3>3. handle[f].node # 0
      <4>1. handle[f].node \in Nodes BY <3>2, BlockNodes
      <4>2. QED BY <4>1 DEF Nodes
    <3>4. g # h BY <3>1, <3>2, <3>3, <1>5 DEF NoBlock
    <3>5. QED BY <3>1, <3>2, <3>4, <1>5 DEF Inv, Owned
  <2>2. {m \in Nodes : nodes'[m].status = "USED"}
          = lost' \cup {handle'[g].node : g \in {f \in Handles : handle'[f] # NoBlock}}
    <3>1. {m \in Nodes : nodes[m].status = "USED"}
            = lost \cup {handle[g].node : g \in {f \in Handles : handle[f] # NoBlock}}
      BY DEF Inv, Owned
    <3>2. QED BY <3>1, <1>2, <1>7, <1>8, <1>9
  <2>3. ASSUME NEW g \in Handles, handle'[g] # NoBlock
        PROVE  /\ handle'[g].node \notin lost'
               /\ handle'[g].physical = Physical + nodes'[handle'[g].node].offset
               /\ handle'[g].size <= nodes'[handle'[g].node].size
    <3>1. g # h /\ handle'[g] = handle[g] /\ handle[g] # NoBlock BY <2>3, <1>5
    <3>2. /\ handle[g].node \notin lost
          /\ handle[g].physical = Physical + nodes[handle[g].node].offset
          /\ handle[g].size <= nodes[handle[g].node].size
      BY <3>1 DEF Inv, Owned
    <3>3. nodes'[handle[g].node] = nodes[handle[g].node]
      BY <3>1, <1>2, <1>8, BlockNodes DEF Others
    <3>4. QED BY <3>1, <3>2, <3>3, <1>2
  <2>4. QED BY <2>1, <2>2, <2>3 DEF Owned
<1>11. Aligned' BY <1>5 DEF Inv, Aligned
<1>12. QED BY <1>2, <1>3, <1>6, <1>10, <1>11 DEF Inv

(* Both ways to allocate take a block of the size asked for, aligned, and  *)
(* above the start of the heap.                                            *)
LEMMA AllocateTakes ==
  ASSUME Inv, NEW h \in Handles, NEW s \in Sizes, NEW a \in Aligns, Allocate(h, s, a)
  PROVE  /\ handle[h] = NoBlock
         /\ \E at \in 1 .. Len(list), skip \in Nat, size \in Nat, align \in Nat \ {0} :
              Takes(h, at, skip, size, align)
<1>1. PICK size, align : size = Rounded(s) /\ align = AtLeastPage(a) OBVIOUS
<1>2. size \in Nat /\ align \in Nat \ {0} BY <1>1, Asked
<1>3. PICK at \in DOMAIN list :
        /\ Place(at, size, align)
        /\ Take(h, at, Skip(Physical + nodes[list[at]].offset, align), size, align)
  BY <1>1 DEF Allocate
<1>4. at \in 1 .. Len(list) /\ list[at] \in Nodes /\ nodes[list[at]] \in Records
  BY DEF Inv, Shape, Typed
<1>5. PICK skip : skip = Skip(Physical + nodes[list[at]].offset, align) OBVIOUS
<1>6. nodes[list[at]].offset \in Nat /\ Physical \in Nat BY <1>4, HeapAssumption DEF Records
<1>7. skip \in Nat /\ ((Physical + nodes[list[at]].offset) + skip) % align = 0
  <2>1. PICK x : x = Physical + nodes[list[at]].offset OBVIOUS
  <2>2. x \in Nat BY <2>1, <1>6
  <2>3. Skip(x, align) \in 0 .. align - 1 /\ (x + Skip(x, align)) % align = 0
    BY <2>2, <1>2, Skipping
  <2>4. skip = Skip(x, align) BY <2>1, <1>5
  <2>5. QED BY <2>1, <2>3, <2>4, <1>2
<1>8. /\ Idle(nodes) # {} /\ nodes[list[at]].status = "FREE"
      /\ nodes[list[at]].size >= size + skip
  BY <1>3, <1>5 DEF Place, Query, FirstAt, Fits
<1>9. nodes[list[at]].size \in Nat BY <1>4, HeapAssumption DEF Records
<1>10. skip + size <= nodes[list[at]].size BY <1>2, <1>7, <1>8, <1>9
<1>11. (Physical + (nodes[list[at]].offset + skip)) % align = 0
  <2>1. Physical + (nodes[list[at]].offset + skip) = (Physical + nodes[list[at]].offset) + skip
    BY <1>6, <1>7
  <2>2. QED BY <2>1, <1>7
<1>12. Takes(h, at, skip, size, align)
  <2>1. Take(h, at, skip, size, align)
    BY <1>3, <1>5
  <2>2. QED BY <1>8, <1>10, <1>11, <2>1 DEF Takes
<1>13. QED BY <1>2, <1>4, <1>7, <1>12 DEF Allocate

LEMMA AllocateAtTakes ==
  ASSUME Inv, NEW h \in Handles, NEW s \in Sizes, NEW offset \in 0 .. Size,
         AllocateAt(h, s, offset)
  PROVE  /\ handle[h] = NoBlock
         /\ \E at \in 1 .. Len(list), skip \in Nat, size \in Nat, align \in Nat \ {0} :
              Takes(h, at, skip, size, align)
<1>1. PICK size : size = Rounded(s) OBVIOUS
<1>2. size \in Nat
  <2>1. s \in Nat /\ Page \in Nat \ {0} BY HeapAssumption
  <2>2. Skip(s, Page) \in 0 .. Page - 1 BY <2>1, Skipping
  <2>3. QED BY <1>1, <2>1, <2>2 DEF Rounded, AlignUp
<1>3. PICK at \in DOMAIN list :
        PlaceAt(at, size, offset) /\ Take(h, at, offset - nodes[list[at]].offset, size, 1)
  BY <1>1 DEF AllocateAt
<1>4. at \in 1 .. Len(list) /\ list[at] \in Nodes /\ nodes[list[at]] \in Records
  BY DEF Inv, Shape, Typed
<1>5. PICK skip : skip = offset - nodes[list[at]].offset OBVIOUS
<1>6. /\ nodes[list[at]].offset \in Nat /\ nodes[list[at]].size \in Nat
      /\ Physical \in Nat /\ offset \in Nat
  BY <1>4, HeapAssumption DEF Records
<1>7. /\ Idle(nodes) # {} /\ nodes[list[at]].status = "FREE"
      /\ nodes[list[at]].offset <= offset
      /\ nodes[list[at]].offset + nodes[list[at]].size >= offset + size
  BY <1>3 DEF PlaceAt, Query, FirstAt
<1>8. skip \in Nat /\ skip + size <= nodes[list[at]].size BY <1>2, <1>5, <1>6, <1>7
<1>9. (Physical + (nodes[list[at]].offset + skip)) % 1 = 0 BY <1>6, <1>8
<1>10. Takes(h, at, skip, size, 1)
  <2>1. Take(h, at, skip, size, 1)
    BY <1>3, <1>5
  <2>2. QED BY <1>7, <1>8, <1>9, <2>1 DEF Takes
<1>11. 1 \in Nat \ {0}
  OBVIOUS
<1>12. QED BY <1>2, <1>4, <1>8, <1>10, <1>11 DEF AllocateAt

(* Either way to allocate. *)
Allocates(h) ==
  \/ \E s \in Sizes, a \in Aligns : Allocate(h, s, a)
  \/ \E s \in Sizes, offset \in 0 .. Size : AllocateAt(h, s, offset)

LEMMA AllocationTakes ==
  ASSUME Inv, NEW h \in Handles, Allocates(h)
  PROVE  /\ handle[h] = NoBlock
         /\ \E at \in 1 .. Len(list), skip \in Nat, size \in Nat, align \in Nat \ {0} :
              Takes(h, at, skip, size, align)
BY AllocateTakes, AllocateAtTakes DEF Allocates

LEMMA AllocationGrants ==
  ASSUME Inv, NEW h \in Handles, Allocates(h)
  PROVE  /\ handle[h] = NoBlock
         /\ \E n \in Nodes, size \in Nat, align \in Nat \ {0} :
              Granted(h, n, size, align) /\ (Physical + nodes'[n].offset) % align = 0
<1>1. handle[h] = NoBlock
  BY AllocationTakes
<1>2. PICK at \in 1 .. Len(list), skip \in Nat, size \in Nat, align \in Nat \ {0} :
        Takes(h, at, skip, size, align)
  BY AllocationTakes
<1>3. Shape(nodes, list)
  BY DEF Inv
<1>4. PICK n \in Nodes : /\ Granted(h, n, size, align)
                         /\ nodes'[n].offset = nodes[list[at]].offset + skip
  BY <1>2, <1>3, TakeGrants
<1>5. QED BY <1>1, <1>2, <1>4 DEF Takes

LEMMA InvStep == Inv /\ [Next]_vars => Inv'
<1> SUFFICES ASSUME Inv, [Next]_vars PROVE Inv' OBVIOUS
<1>1. CASE UNCHANGED vars
  BY <1>1 DEF vars, Inv, Owned, Aligned
<1>2. ASSUME NEW h \in Handles, Allocates(h) PROVE Inv'
  BY <1>2, AllocationGrants, GrantKeeps
<1>3. ASSUME NEW h \in Handles, Free(h) PROVE Inv' BY <1>3, FreeKeeps
<1>4. QED BY <1>1, <1>2, <1>3 DEF Next, Allocates

-----------------------------------------------------------------------------
(* The steps of the ranges.                                                *)
LEMMA GrantRange ==
  ASSUME Inv, NEW h \in Handles, handle[h] = NoBlock, NEW n \in Nodes,
         NEW size \in Nat, NEW align \in Nat \ {0}, Granted(h, n, size, align)
  PROVE  Memory!Grant(h) \/ UNCHANGED HeldRanges
<1>1. CASE handle' = handle BY <1>1 DEF HeldRanges, RangeOf
<1>2. CASE handle' = [handle EXCEPT ![h] =
             [node |-> n, physical |-> Physical + nodes'[n].offset,
              size |-> size, align |-> align]]
  <2> DEFINE start == Physical + nodes'[n].offset
             r == [start |-> start, end |-> start + size]
  <2>0. handle \in [Handles -> Blocks \cup {NoBlock}] BY DEF Inv
  <2>1. /\ nodes'[n] \in Records /\ EndOf(nodes'[n]) <= Size /\ nodes'[n].status = "USED"
        /\ size <= nodes'[n].size
    BY DEF Granted, Shape, Typed, Ordered
  <2>2. /\ nodes'[n].offset \in Nat /\ nodes'[n].size \in Nat /\ Physical \in Nat /\ Size \in Nat
    BY <2>1, HeapAssumption DEF Records
  <2>3. r.start \in Physical .. Physical + Size /\ r.end \in Physical .. Physical + Size
        /\ r.start <= r.end
    BY <2>1, <2>2 DEF EndOf
  <2>4. handle'[h].physical = start /\ handle'[h].size = size /\ handle'[h] # NoBlock
    <3>1. n # 0 BY DEF Nodes
    <3>2. handle'[h].node = n /\ handle'[h].physical = start /\ handle'[h].size = size
      BY <1>2, <2>0
    <3>3. QED BY <3>1, <3>2 DEF NoBlock
  <2>5. RangeOf(h)' = r BY <2>4 DEF RangeOf
  <2>6. \A g \in Handles : g # h => handle'[g] = handle[g] BY <1>2, <2>0
  <2>7. \A g \in Handles : g # h => RangeOf(g)' = RangeOf(g) BY <2>6 DEF RangeOf
  <2>8. RangeOf(h) = [start |-> -1, end |-> -1] BY DEF RangeOf
  <2>9. ASSUME NEW g \in Handles, RangeOf(g) # [start |-> -1, end |-> -1]
        PROVE  r.end <= RangeOf(g).start \/ RangeOf(g).end <= r.start
    <3>1. PICK m : m = handle[g].node OBVIOUS
    <3>2. handle[g] # NoBlock BY <2>9 DEF RangeOf
    <3>3. /\ m \in Nodes /\ nodes[m].status = "USED" /\ handle[g] \in Blocks
          /\ handle[g].physical = Physical + nodes[m].offset
          /\ handle[g].size <= nodes[m].size
      BY <3>1, <3>2, BlockNodes DEF Inv, Owned
    <3>4. m # n /\ nodes'[m] = nodes[m] BY <3>3 DEF Granted, Others
    <3>5. Separate(nodes'[m], nodes'[n])
      <4>1. nodes'[m].status # "INIT" /\ nodes'[n].status # "INIT" BY <2>1, <3>3, <3>4
      <4>2. PICK ns, l : ns = nodes' /\ l = list' OBVIOUS
      <4>3. Shape(ns, l) BY <4>2 DEF Granted
      <4>4. Separate(ns[m], ns[n]) BY <4>1, <4>2, <4>3, <3>3, <3>4, NodesApart
      <4>5. QED BY <4>2, <4>4
    <3>6. nodes[m].offset \in Nat /\ nodes[m].size \in Nat /\ handle[g].size \in Nat
      <4>1. nodes[m] \in Records BY <3>3 DEF Inv, Shape, Typed
      <4>2. QED BY <4>1, <3>3, HeapAssumption DEF Records, Blocks
    <3>7. RangeOf(g) = [start |-> Physical + nodes[m].offset,
                        end |-> Physical + nodes[m].offset + handle[g].size]
      BY <3>2, <3>3 DEF RangeOf
    <3>8. \/ nodes[m].offset + nodes[m].size <= nodes'[n].offset
          \/ nodes'[n].offset + nodes'[n].size <= nodes[m].offset
      BY <3>4, <3>5 DEF Separate, EndOf
    <3>9. QED BY <2>1, <2>2, <3>3, <3>6, <3>7, <3>8
  <2>10. HeldRanges[h] = Memory!Nothing BY <2>8 DEF HeldRanges, Memory!Nothing
  <2>11. HeldRanges' = [HeldRanges EXCEPT ![h] = r] BY <2>5, <2>7 DEF HeldRanges
  <2>12. r \in Memory!Ranges BY <2>3 DEF Memory!Ranges
  <2>13. \A g \in Handles : HeldRanges[g] # Memory!Nothing => Memory!Apart(r, HeldRanges[g])
    BY <2>9 DEF HeldRanges, Memory!Nothing, Memory!Apart
  <2> HIDE DEF r
  <2>14. QED BY <2>3, <2>10, <2>11, <2>12, <2>13 DEF Memory!Grant, HeldRanges
<1>3. QED BY <1>1, <1>2 DEF Granted

LEMMA FreeRange ==
  ASSUME Inv, NEW h \in Handles, Free(h)
  PROVE  Memory!Release(h)
<1>1. handle[h] # NoBlock /\ handle' = [handle EXCEPT ![h] = NoBlock] BY FreeReleases DEF Free
<1>2. handle[h] \in Blocks BY <1>1, BlockNodes
<1>3. handle[h].physical \in Nat BY <1>2, HeapAssumption DEF Blocks
<1>4. RangeOf(h) # Memory!Nothing
  <2>1. RangeOf(h).start = handle[h].physical BY <1>1 DEF RangeOf
  <2>2. Memory!Nothing.start = -1 BY DEF Memory!Nothing
  <2>3. QED BY <1>3, <2>1, <2>2
<1>5. handle'[h] = NoBlock /\ \A g \in Handles : g # h => handle'[g] = handle[g]
  BY <1>1 DEF Inv
<1>6. RangeOf(h)' = Memory!Nothing /\ \A g \in Handles : g # h => RangeOf(g)' = RangeOf(g)
  BY <1>5 DEF RangeOf, Memory!Nothing
<1>7. QED BY <1>4, <1>6 DEF Memory!Release, HeldRanges

LEMMA RangeStep == Inv /\ [Next]_vars => [Memory!Next]_HeldRanges
<1> SUFFICES ASSUME Inv, [Next]_vars PROVE [Memory!Next]_HeldRanges OBVIOUS
<1>1. CASE UNCHANGED vars BY <1>1 DEF vars, HeldRanges, RangeOf
<1>2. ASSUME NEW h \in Handles, Allocates(h) PROVE [Memory!Next]_HeldRanges
  BY <1>2, AllocationGrants, GrantRange DEF Memory!Next
<1>3. ASSUME NEW h \in Handles, Free(h) PROVE [Memory!Next]_HeldRanges
  BY <1>3, FreeRange DEF Memory!Next
<1>4. QED BY <1>1, <1>2, <1>3 DEF Next, Allocates

LEMMA RangeInit == Init => Memory!Init
BY DEF Init, Memory!Init, Memory!Nothing, RangeOf

-----------------------------------------------------------------------------
THEOREM HeapInvariant == Spec => []Inv
<1>1. Init => Inv BY InvInit
<1>2. Inv /\ [Next]_vars => Inv' BY InvStep
<1>3. QED BY <1>1, <1>2, PTL DEF Spec

(* The nodes of the list always lie end to end, from the end of the heap   *)
(* to its start, and every other node is idle.                             *)
THEOREM HeapTiled == Spec => []Tiled
<1>1. Inv => Tiled
  <2> SUFFICES ASSUME Inv PROVE Tiled OBVIOUS
  <2>1. /\ \A n \in Nodes : nodes[n].status = "INIT" <=> nodes[n] = Spare
        /\ list \in Seq(Nodes) /\ DOMAIN list = 1 .. Len(list)
    BY DEF Inv, Shape, Typed, Spare
  <2>2. {list[p] : p \in DOMAIN list} = Nodes \ Idle(nodes)
    BY <2>1 DEF Inv, Shape, Listed, Idle
  <2>3. QED BY <2>1, <2>2 DEF Inv, Shape, EndToEnd, EndOf, Tiled
<1>2. QED BY <1>1, HeapInvariant, PTL

(* A used node has exactly one holder or was lost by a failed allocation,  *)
(* and who holds a block holds all of it, where the block says, aligned.   *)
THEOREM HeapOwned == Spec => [](Owned /\ Aligned)
<1>1. Inv => Owned /\ Aligned BY DEF Inv
<1>2. QED BY <1>1, HeapInvariant, PTL

(* The heap implements the abstract allocator: the ranges handed out lie   *)
(* in the heap, never overlap and stay as they are until they are freed.   *)
THEOREM HeapImplementsRanges == Spec => RangesSpec
<1>1. Inv /\ [Next]_vars => [Memory!Next]_HeldRanges BY RangeStep
<1>2. QED BY <1>1, RangeInit, HeapInvariant, PTL
     DEF Spec, RangesSpec, Memory!RangesSpec, HeldRanges

-----------------------------------------------------------------------------
(* The sum of the free nodes.  As the nodes tile the heap, it is the size  *)
(* of the heap less the sum of the used ones, which change one at a time.  *)
SizeOf(ns) == [n \in Nodes |-> ns[n].size]
With(ns, st) == {n \in Nodes : ns[n].status = st}
Sum(ns, st) == Total(SizeOf(ns), With(ns, st))

LEMMA SumOfFree ==
  ASSUME NEW ns
  PROVE  MapThenSumSet(LAMBDA n : ns[n].size, With(ns, "FREE")) = Sum(ns, "FREE")
<1> DEFINE S == With(ns, "FREE")
           Rec(it) == it = [s \in SUBSET S |-> IF s = {} THEN 0
                            ELSE ns[CHOOSE x \in s : TRUE].size + it[s \ {CHOOSE x \in s : TRUE}]]
<1>1. MapThenSumSet(LAMBDA n : ns[n].size, S) = (CHOOSE it : Rec(it))[S]
  BY Zenon DEF MapThenSumSet, MapThenFoldSet
<1>2. IsFiniteSet(S)
  <2>1. IsFiniteSet(Nodes)
    BY HeapAssumption, FS_Interval DEF Nodes
  <2>2. S \in SUBSET Nodes
    BY DEF With
  <2>3. QED BY <2>1, <2>2, FS_Subset
<1>3. \A it : Rec(it) <=> IsSum(it, SizeOf(ns), S)
  <2>1. \A s \in SUBSET S : s # {} => SizeOf(ns)[CHOOSE x \in s : TRUE] = ns[CHOOSE x \in s : TRUE].size
    BY DEF SizeOf, With
  <2>2. QED BY <2>1 DEF IsSum, Chosen
<1> HIDE DEF Rec, S
<1>4. IsSum(CHOOSE it : Rec(it), SizeOf(ns), S)
  BY <1>2, <1>3, SumExists
<1>5. PICK it : IsSum(it, SizeOf(ns), S) /\ Total(SizeOf(ns), S) = it[S]
  BY <1>2, TotalIsSum
<1>6. (CHOOSE jt : Rec(jt))[S] = it[S]
  BY <1>2, <1>4, <1>5, SameSums
<1>7. QED BY <1>1, <1>5, <1>6 DEF S, Sum

LEMMA SizesNatural ==
  ASSUME NEW ns, ns \in [Nodes -> Records]
  PROVE  /\ IsFiniteSet(Nodes) /\ Size \in Nat
         /\ \A n \in Nodes : SizeOf(ns)[n] = ns[n].size /\ ns[n].size \in Nat /\ ns[n].offset \in Nat
         /\ \A st : IsFiniteSet(With(ns, st)) /\ Sum(ns, st) \in Nat
<1>1. IsFiniteSet(Nodes) /\ Size \in Nat
  BY HeapAssumption, FS_Interval DEF Nodes
<1>2. \A n \in Nodes : SizeOf(ns)[n] = ns[n].size /\ ns[n].size \in Nat /\ ns[n].offset \in Nat
  BY <1>1 DEF SizeOf, Records
<1>3. ASSUME NEW st PROVE IsFiniteSet(With(ns, st)) /\ Sum(ns, st) \in Nat
  <2>1. With(ns, st) \in SUBSET Nodes
    BY DEF With
  <2>2. IsFiniteSet(With(ns, st))
    BY <1>1, <2>1, FS_Subset
  <2>3. \A n \in With(ns, st) : SizeOf(ns)[n] \in Nat
    BY <1>2, <2>1
  <2>4. QED BY <2>2, <2>3, TotalNat DEF Sum
<1>4. QED BY <1>1, <1>2, <1>3

(* The first k nodes of the list fill the heap from the start of the k-th. *)
LEMMA Filled ==
  ASSUME NEW ns, NEW l, Shape(ns, l)
  PROVE  Sum(ns, "FREE") + Sum(ns, "USED") = Size
<1>1. ns \in [Nodes -> Records] /\ l \in Seq(Nodes) /\ Len(l) \in Nat /\ Len(l) > 0
  BY DEF Shape, Typed, EndToEnd
<1>2. /\ IsFiniteSet(Nodes) /\ Size \in Nat
      /\ \A n \in Nodes : SizeOf(ns)[n] = ns[n].size /\ ns[n].size \in Nat /\ ns[n].offset \in Nat
  BY <1>1, SizesNatural
<1>3. \A p \in 1 .. Len(l) : l[p] \in Nodes
  BY <1>1
<1> DEFINE f == SizeOf(ns)
           Upper(k) == {l[p] : p \in 1 .. k}
           Fills(k) == Total(f, Upper(k)) + ns[l[k]].offset = Size
           K == {k \in Nat : k + 1 <= Len(l) => Fills(k + 1)}
<1>4. ASSUME NEW k \in 0 .. Len(l) PROVE IsFiniteSet(Upper(k)) /\ \A n \in Upper(k) : f[n] \in Int
  <2>1. Upper(k) \in SUBSET Nodes
    BY <1>3
  <2>2. QED BY <1>2, <2>1, FS_Subset
<1>5. ASSUME NEW k \in 1 .. Len(l)
      PROVE  /\ Total(f, Upper(k)) = ns[l[k]].size + Total(f, Upper(k - 1))
             /\ Total(f, Upper(k - 1)) \in Int
  <2>1. Upper(k) = Upper(k - 1) \cup {l[k]}
    <3>1. 1 .. k = (1 .. k - 1) \cup {k}
      OBVIOUS
    <3>2. QED BY <3>1
  <2>2. l[k] \notin Upper(k - 1)
    BY <1>1 DEF Shape, Listed
  <2>3. /\ IsFiniteSet(Upper(k - 1)) /\ \A n \in Upper(k - 1) : f[n] \in Int
    <3>1. k - 1 \in 0 .. Len(l)
      BY <1>1
    <3> HIDE DEF Upper, f
    <3>2. QED BY <1>4, <3>1
  <2>4. f[l[k]] = ns[l[k]].size /\ f[l[k]] \in Int
    BY <1>2, <1>3
  <2> HIDE DEF Upper, f
  <2>5. Total(f, Upper(k - 1) \cup {l[k]}) = f[l[k]] + Total(f, Upper(k - 1))
    BY <2>2, <2>3, <2>4, TotalAdd
  <2>6. QED BY <2>1, <2>3, <2>4, <2>5, TotalType
<1>6. ASSUME NEW k \in 1 .. Len(l)
      PROVE  ns[l[k]].offset + ns[l[k]].size = IF k = 1 THEN Size ELSE ns[l[k - 1]].offset
  BY DEF Shape, EndToEnd, EndOf
<1>7. Fills(1)
  <2>1. Upper(0) = {}
    OBVIOUS
  <2>2. Total(f, Upper(0)) = 0
    BY <2>1, TotalEmpty
  <2>3. 1 \in 1 .. Len(l) /\ 1 - 1 = 0
    BY <1>1
  <2>4. Total(f, Upper(1)) = ns[l[1]].size + 0
    BY <1>5, <2>2, <2>3
  <2>5. ns[l[1]].offset + ns[l[1]].size = Size
    BY <1>6, <2>3
  <2>6. QED BY <1>2, <1>3, <2>3, <2>4, <2>5
<1>8. ASSUME NEW k \in Nat, k + 2 <= Len(l), Fills(k + 1) PROVE Fills(k + 2)
  <2>1. k + 2 \in 1 .. Len(l) /\ k + 1 \in 1 .. Len(l) /\ (k + 2) - 1 = k + 1 /\ k + 2 # 1
    BY <1>1, <1>8
  <2>2. Total(f, Upper(k + 2)) = ns[l[k + 2]].size + Total(f, Upper(k + 1))
    BY <1>5, <2>1
  <2>3. ns[l[k + 2]].offset + ns[l[k + 2]].size = ns[l[k + 1]].offset
    BY <1>6, <2>1
  <2>4. Total(f, Upper(k + 1)) \in Int
    BY <1>5, <2>1
  <2>5. /\ ns[l[k + 2]].size \in Nat /\ ns[l[k + 2]].offset \in Nat
        /\ ns[l[k + 1]].offset \in Nat
    BY <1>2, <1>3, <2>1
  <2>6. Total(f, Upper(k + 1)) + ns[l[k + 1]].offset = Size
    BY <1>8
  <2> HIDE DEF Upper, f
  <2>7. QED BY <2>2, <2>3, <2>4, <2>5, <2>6
<1>9. 0 \in K /\ \A k \in Nat : k \in K => k + 1 \in K
  <2> HIDE DEF Fills
  <2>1. \A k \in Nat : (k + 1) + 1 = k + 2
    OBVIOUS
  <2>2. QED BY <1>1, <1>7, <1>8, <2>1
<1>10. Fills(Len(l))
  <2> HIDE DEF Fills
  <2>1. \A k \in K : k + 1 <= Len(l) => Fills(k + 1)
    OBVIOUS
  <2> HIDE DEF K
  <2>2. Len(l) - 1 \in Nat /\ (Len(l) - 1) + 1 = Len(l)
    BY <1>1
  <2>3. Len(l) - 1 \in K
    BY <1>9, <2>2, NaturalInduction
  <2>4. QED BY <1>1, <2>1, <2>2, <2>3
<1>11. ns[l[Len(l)]].offset = 0
  BY DEF Shape, EndToEnd
<1>12. Upper(Len(l)) = With(ns, "FREE") \cup With(ns, "USED")
  <2>1. \A n \in Nodes : ns[n].status \in {"INIT", "FREE", "USED"}
    BY <1>1 DEF Records
  <2>2. \A n \in Nodes : ns[n].status # "INIT" <=> \E p \in 1 .. Len(l) : l[p] = n
    BY DEF Shape, Listed
  <2>3. QED BY <1>3, <2>1, <2>2 DEF With
<1>13. Total(f, With(ns, "FREE") \cup With(ns, "USED")) = Sum(ns, "FREE") + Sum(ns, "USED")
  <2>1. IsFiniteSet(With(ns, "FREE")) /\ IsFiniteSet(With(ns, "USED"))
    BY <1>1, SizesNatural
  <2>2. With(ns, "FREE") \cap With(ns, "USED") = {}
    BY DEF With
  <2>3. \A n \in With(ns, "FREE") \cup With(ns, "USED") : f[n] \in Int
    BY <1>2 DEF With
  <2> HIDE DEF f
  <2>4. QED BY <2>1, <2>2, <2>3, TotalUnion DEF Sum, f
<1>14. Total(f, Upper(Len(l))) + 0 = Size
  BY <1>10, <1>11
<1>15. Sum(ns, "FREE") \in Nat /\ Sum(ns, "USED") \in Nat
  BY <1>1, SizesNatural
<1> HIDE DEF Upper, f
<1>16. QED BY <1>2, <1>12, <1>13, <1>14, <1>15

(* The books of the heap.                                                  *)
Counted == free_bytes = Sum(nodes, "FREE")

(* A node that is taken or given back moves its size from one sum to the   *)
(* other; merging and splitting what is free changes neither.              *)
LEMMA TakenSum ==
  ASSUME Shape(nodes, list), Shape(nodes', list'), NEW n \in Nodes,
         nodes[n].status # "USED", nodes'[n].status = "USED", Others(n)
  PROVE  Sum(nodes', "FREE") = Sum(nodes, "FREE") - nodes'[n].size
<1>1. nodes \in [Nodes -> Records] /\ nodes' \in [Nodes -> Records]
  BY DEF Shape, Typed
<1> DEFINE f == SizeOf(nodes)
           g == SizeOf(nodes')
           U == With(nodes, "USED")
<1>2. /\ With(nodes', "USED") = U \cup {n} /\ n \notin U
      /\ \A m \in U : nodes'[m] = nodes[m] /\ m \in Nodes
  BY DEF Others, With
<1>3. /\ IsFiniteSet(U) /\ \A m \in U : g[m] \in Int /\ f[m] = g[m]
      /\ g[n] \in Int /\ g[n] = nodes'[n].size
  BY <1>1, <1>2, SizesNatural
<1> HIDE DEF f, g, U
<1>4. Total(g, U \cup {n}) = g[n] + Total(g, U)
  BY <1>2, <1>3, TotalAdd
<1>5. Total(f, U) = Total(g, U)
  BY <1>3, TotalSame
<1>6. Sum(nodes', "USED") = nodes'[n].size + Sum(nodes, "USED")
  BY <1>2, <1>3, <1>4, <1>5 DEF Sum, f, g, U
<1>7. /\ Sum(nodes, "FREE") + Sum(nodes, "USED") = Size
      /\ Sum(nodes', "FREE") + Sum(nodes', "USED") = Size
  BY Filled
<1>8. /\ Sum(nodes, "FREE") \in Nat /\ Sum(nodes, "USED") \in Nat
      /\ Sum(nodes', "FREE") \in Nat /\ Sum(nodes', "USED") \in Nat
      /\ Size \in Nat /\ nodes'[n].size \in Nat
  BY <1>1, SizesNatural
<1>9. Sum(nodes', "FREE") + (nodes'[n].size + Sum(nodes, "USED"))
        = Sum(nodes, "FREE") + Sum(nodes, "USED")
  BY <1>6, <1>7
<1>10. \A x, y, u, z \in Nat : y + (z + u) = x + u => y = x - z
  OBVIOUS
<1>11. QED BY <1>8, <1>9, <1>10

LEMMA FreedSum ==
  ASSUME Shape(nodes, list), Shape(nodes', list'), NEW n \in Nodes,
         nodes[n].status = "USED", nodes'[n].status # "USED", Others(n)
  PROVE  Sum(nodes', "FREE") = Sum(nodes, "FREE") + nodes[n].size
<1>1. nodes \in [Nodes -> Records] /\ nodes' \in [Nodes -> Records]
  BY DEF Shape, Typed
<1> DEFINE f == SizeOf(nodes)
           g == SizeOf(nodes')
           U == With(nodes', "USED")
<1>2. /\ With(nodes, "USED") = U \cup {n} /\ n \notin U
      /\ \A m \in U : nodes'[m] = nodes[m] /\ m \in Nodes
  BY DEF Others, With
<1>3. /\ IsFiniteSet(U) /\ \A m \in U : f[m] \in Int /\ f[m] = g[m]
      /\ f[n] \in Int /\ f[n] = nodes[n].size
  BY <1>1, <1>2, SizesNatural
<1> HIDE DEF f, g, U
<1>4. Total(f, U \cup {n}) = f[n] + Total(f, U)
  BY <1>2, <1>3, TotalAdd
<1>5. Total(f, U) = Total(g, U)
  BY <1>3, TotalSame
<1>6. Sum(nodes, "USED") = nodes[n].size + Sum(nodes', "USED")
  BY <1>2, <1>3, <1>4, <1>5 DEF Sum, f, g, U
<1>7. /\ Sum(nodes, "FREE") + Sum(nodes, "USED") = Size
      /\ Sum(nodes', "FREE") + Sum(nodes', "USED") = Size
  BY Filled
<1>8. /\ Sum(nodes, "FREE") \in Nat /\ Sum(nodes, "USED") \in Nat
      /\ Sum(nodes', "FREE") \in Nat /\ Sum(nodes', "USED") \in Nat
      /\ Size \in Nat /\ nodes[n].size \in Nat
  BY <1>1, SizesNatural
<1>9. QED BY <1>6, <1>7, <1>8

LEMMA GrantCounts ==
  ASSUME Inv, Counted, NEW h, NEW n \in Nodes, NEW size, NEW align, Granted(h, n, size, align)
  PROVE  Counted'
<1>1. Sum(nodes', "FREE") = Sum(nodes, "FREE") - nodes'[n].size
  BY TakenSum DEF Inv, Granted
<1>2. QED BY <1>1 DEF Counted, Granted

LEMMA CountedInit == Init => Counted
<1> SUFFICES ASSUME Init PROVE Counted
  OBVIOUS
<1>1. Inv
  BY InvInit
<1>2. nodes \in [Nodes -> Records] /\ Shape(nodes, list)
  BY <1>1 DEF Inv, Shape, Typed
<1>3. \A n \in Nodes : nodes[n].status # "USED"
  BY DEF Init, Spare
<1>4. Sum(nodes, "USED") = 0
  BY <1>3, TotalEmpty DEF Sum, With
<1>5. Sum(nodes, "FREE") + Sum(nodes, "USED") = Size
  BY <1>2, Filled
<1>6. Sum(nodes, "FREE") \in Nat
  BY <1>2, SizesNatural
<1>7. QED BY <1>4, <1>5, <1>6 DEF Init, Counted

LEMMA CountedStep == Inv /\ Counted /\ [Next]_vars => Counted'
<1> SUFFICES ASSUME Inv, Counted, [Next]_vars PROVE Counted'
  OBVIOUS
<1>1. CASE UNCHANGED vars
  BY <1>1 DEF vars, Counted, Sum, SizeOf, With
<1>2. ASSUME NEW h \in Handles, Allocates(h) PROVE Counted'
  BY <1>2, AllocationGrants, GrantCounts
<1>3. ASSUME NEW h \in Handles, Free(h) PROVE Counted'
  <2>1. handle[h].node \in Nodes /\ nodes[handle[h].node].status = "USED"
    BY <1>3, BlockNodes DEF Free
  <2>2. /\ Shape(nodes', list') /\ nodes'[handle[h].node].status # "USED"
        /\ Others(handle[h].node)
    BY <1>3, FreeReleases
  <2>3. Sum(nodes', "FREE") = Sum(nodes, "FREE") + nodes[handle[h].node].size
    BY <2>1, <2>2, FreedSum DEF Inv
  <2>4. free_bytes' = free_bytes + nodes[handle[h].node].size
    BY <1>3 DEF Free
  <2>5. QED BY <2>3, <2>4 DEF Counted
<1>4. QED BY <1>1, <1>2, <1>3 DEF Next, Allocates

THEOREM BooksInvariant == Spec => [](Inv /\ Counted)
<1>1. Init => Inv /\ Counted
  BY InvInit, CountedInit
<1>2. Inv /\ Counted /\ [Next]_vars => (Inv /\ Counted)'
  BY InvStep, CountedStep
<1>3. QED BY <1>1, <1>2, PTL DEF Spec

(* free_bytes is at any time the sum of the free nodes' sizes, so that no  *)
(* request is sent away, or let into the search, on a wrong count; with    *)
(* HeapTiled and HeapOwned the bookkeeping survives every sequence of      *)
(* allocations and frees.                                                  *)
THEOREM HeapConsistent == Spec => []Consistent
<1>1. Counted => FreeExact
  BY SumOfFree DEF Counted, FreeExact, With
<1>2. Consistent <=> Tiled /\ Owned /\ Aligned /\ FreeExact
  BY DEF Consistent
<1>3. QED BY <1>1, <1>2, BooksInvariant, HeapTiled, HeapOwned, PTL

(* Every variable keeps its type; the count of free bytes stays between    *)
(* zero and the size of the heap.                                          *)
THEOREM TypeCorrect == Spec => []TypeOK
<1>1. Inv /\ Counted => TypeOK
  <2> SUFFICES ASSUME Inv, Counted PROVE TypeOK
    OBVIOUS
  <2>1. nodes \in [Nodes -> Records] /\ list \in Seq(Nodes) /\ Shape(nodes, list)
    BY DEF Inv, Shape, Typed
  <2>2. Sum(nodes, "FREE") \in Nat /\ Sum(nodes, "USED") \in Nat /\ Size \in Nat
    BY <2>1, SizesNatural
  <2>3. Sum(nodes, "FREE") + Sum(nodes, "USED") = Size
    BY <2>1, Filled
  <2>4. free_bytes \in 0 .. Size
    BY <2>2, <2>3 DEF Counted
  <2>5. QED BY <2>1, <2>4 DEF Inv, TypeOK, Records
<1>2. QED BY <1>1, BooksInvariant, PTL

-----------------------------------------------------------------------------
(* No two nodes side by side are free, except between two operations on    *)
(* the list: P has the places p where the p-th and the next one may be.    *)
FreeAt(ns, l, p) == ns[l[p]].status = "FREE"
Pairs(ns, l, P) ==
  \A p \in 1 .. Len(l) - 1 : FreeAt(ns, l, p) /\ FreeAt(ns, l, p + 1) => p \in P

Merged == Pairs(nodes, list, {})

(* Where such pairs may be once the node at a place has been split. *)
Behind(at, P) == {at} \cup {p + 1 : p \in P}

LEMMA SplitPairs ==
  ASSUME NEW ns, NEW l, NEW at, NEW size, MaySplit(ns, l, at, size), Idle(ns) # {},
         NEW P \in SUBSET {at}, Pairs(ns, l, P),
         NEW s, s = Split(ns, l, at, size)
  PROVE  /\ Shape(s.nodes, s.list)
         /\ at + 1 \in 1 .. Len(s.list) /\ s.list[at + 1] = l[at]
         /\ Pairs(s.nodes, s.list, Behind(at, P))
<1>1. /\ l \in Seq(Nodes) /\ at \in 1 .. Len(l) /\ Len(l) \in Nat
      /\ ns \in [Nodes -> Records] /\ l[at] \in Nodes /\ ns[l[at]].status = "FREE"
  BY DEF MaySplit, Shape, Typed
<1>2. PICK new \in Nodes : new = (CHOOSE m \in Idle(ns) : TRUE) /\ ns[new] = Spare
  BY DEF Idle
<1>3. s.nodes = Parted(ns, l[at], new, size) /\ s.list = InsertAt(l, at, new)
  BY <1>2 DEF Split, Parted
<1>4. Shape(s.nodes, s.list) /\ new # l[at]
  <2>1. HasSplit(ns, l, at, size, s)
    BY SplitKeeps
  <2>2. ns[new].status = "INIT"
    BY <1>2 DEF Spare
  <2>3. QED BY <1>1, <2>1, <2>2 DEF HasSplit
<1>5. /\ Len(s.list) = Len(l) + 1
      /\ \A p \in 1 .. Len(l) + 1 :
           s.list[p] = IF p < at THEN l[p] ELSE IF p = at THEN new ELSE l[p - 1]
  <2>1. /\ Len(InsertAt(l, at, new)) = Len(l) + 1
        /\ \A p \in 1 .. Len(l) + 1 :
             InsertAt(l, at, new)[p] = IF p < at THEN l[p] ELSE IF p = at THEN new ELSE l[p - 1]
    BY <1>1, Insertion
  <2>2. QED BY <1>3, <2>1
<1>6. \A m \in Nodes : m # new => s.nodes[m].status = ns[m].status
  BY <1>1, <1>2, <1>3, <1>4 DEF Parted, Records
<1>7. ASSUME NEW p \in 1 .. Len(l) PROVE l[p] \in Nodes /\ l[p] # new
  <2>1. ns[l[p]].status # "INIT"
    BY <1>1 DEF MaySplit, Shape, Listed
  <2>2. ns[new].status = "INIT"
    BY <1>2 DEF Spare
  <2>3. QED BY <1>1, <2>1, <2>2
<1>8. \A p \in 1 .. Len(l) : s.nodes[l[p]].status = ns[l[p]].status
  BY <1>6, <1>7
<1>9. ASSUME NEW p \in 1 .. Len(s.list) - 1,
             FreeAt(s.nodes, s.list, p), FreeAt(s.nodes, s.list, p + 1)
      PROVE  p \in Behind(at, P)
  <2>1. p \in 1 .. Len(l) + 1 /\ p + 1 \in 1 .. Len(l) + 1
    BY <1>1, <1>5
  <2>2. CASE p < at
    <3>1. s.list[p] = l[p] /\ p \in 1 .. Len(l) - 1 /\ p + 1 \in 1 .. Len(l)
      BY <1>1, <1>5, <2>1, <2>2
    <3>2. FreeAt(ns, l, p)
      BY <1>8, <1>9, <3>1 DEF FreeAt
    <3>3. FreeAt(ns, l, p + 1)
      <4>1. CASE p + 1 < at
        BY <1>5, <1>8, <1>9, <2>1, <3>1, <4>1 DEF FreeAt
      <4>2. CASE p + 1 = at
        BY <1>1, <4>2 DEF FreeAt
      <4>3. QED BY <1>1, <2>1, <2>2, <4>1, <4>2
    <3>4. p \in P
      BY <3>1, <3>2, <3>3 DEF Pairs
    <3>5. QED BY <1>1, <2>2, <3>4
  <2>3. CASE p > at
    <3>a. /\ (p + 1) - 1 = p /\ (p - 1) + 1 = p /\ ~(p < at) /\ ~(p + 1 < at)
          /\ p # at /\ p + 1 # at
          /\ p - 1 \in 1 .. Len(l) - 1 /\ p \in 1 .. Len(l) /\ p - 1 \in 1 .. Len(l)
      BY <1>1, <2>1, <2>3
    <3>1. s.list[p] = l[p - 1] /\ s.list[p + 1] = l[p]
      BY <1>5, <2>1, <3>a
    <3>2. FreeAt(ns, l, p - 1) /\ FreeAt(ns, l, p)
      BY <1>8, <1>9, <3>a, <3>1 DEF FreeAt
    <3>3. p - 1 \in P
      BY <3>a, <3>2 DEF Pairs
    <3>4. QED BY <3>a, <3>3 DEF Behind
  <2>4. QED BY <1>1, <2>1, <2>2, <2>3 DEF Behind
<1>10. at + 1 \in 1 .. Len(s.list) /\ s.list[at + 1] = l[at]
  <2>1. /\ at + 1 \in 1 .. Len(l) + 1 /\ (at + 1) - 1 = at
        /\ ~(at + 1 < at) /\ at + 1 # at
    BY <1>1
  <2>2. QED BY <1>5, <2>1
<1>11. QED BY <1>4, <1>9, <1>10 DEF Pairs

LEMMA TakeMerged ==
  ASSUME Shape(nodes, list), Merged,
         NEW at \in 1 .. Len(list), NEW skip \in Nat, NEW size \in Nat,
         NEW h, NEW align, Takes(h, at, skip, size, align)
  PROVE  Merged'
<1> DEFINE low == IF skip = 0 THEN [nodes |-> nodes, list |-> list] ELSE Split(nodes, list, at, skip)
           node == low.list[at]
           cut == IF low.nodes[node].size = size THEN low ELSE Split(low.nodes, low.list, at, size)
<1>0. /\ Idle(nodes) # {} /\ nodes[list[at]].status = "FREE"
      /\ skip + size <= nodes[list[at]].size /\ Take(h, at, skip, size, align)
  BY DEF Takes
<1>1. nodes[list[at]].offset \in Nat /\ nodes[list[at]].size \in Nat
  <2>1. nodes[list[at]] \in Records BY DEF Shape, Typed
  <2>2. QED BY <2>1, HeapAssumption DEF Records
<1>2. nodes' = [cut.nodes EXCEPT ![node].status = "USED"] /\ list' = cut.list
  BY <1>0 DEF Take, Cut
<1>3. /\ Shape(low.nodes, low.list) /\ at \in 1 .. Len(low.list)
      /\ low.nodes[node].status = "FREE"
      /\ low.nodes[node].size = nodes[list[at]].size - skip
      /\ Pairs(low.nodes, low.list, {at})
  <2>1. CASE skip = 0
    <3>1. low.nodes = nodes /\ low.list = list
      BY <2>1
    <3> HIDE DEF low
    <3>2. nodes[list[at]].size - skip = nodes[list[at]].size
      BY <1>1, <2>1
    <3>3. QED BY <1>0, <3>1, <3>2 DEF Merged, Pairs
  <2>2. CASE skip # 0
    <3>1. MaySplit(nodes, list, at, skip)
      BY <1>0, <1>1 DEF MaySplit
    <3>2. low = Split(nodes, list, at, skip)
      BY <2>2
    <3> HIDE DEF low
    <3>3. HasSplit(nodes, list, at, skip, low)
      BY <3>1, <3>2, SplitKeeps
    <3>4. {} \in SUBSET {at} /\ Behind(at, {}) = {at}
      BY DEF Behind
    <3>5. Pairs(low.nodes, low.list, {at})
      <4>1. Pairs(low.nodes, low.list, Behind(at, {}))
        BY <1>0, <3>1, <3>2, <3>4, SplitPairs DEF Merged
      <4>2. QED BY <4>1, <3>4
    <3>6. QED BY <1>0, <3>3, <3>5 DEF HasSplit
  <2>3. QED BY <2>1, <2>2
<1> HIDE DEF low
<1>4. node \in Nodes /\ size \in 0 .. low.nodes[node].size
  BY <1>0, <1>1, <1>3 DEF Shape, Typed
<1>5. /\ Shape(cut.nodes, cut.list)
      /\ \E q \in 1 .. Len(cut.list) :
           cut.list[q] = node /\ Pairs(cut.nodes, cut.list, {q - 1, q})
  <2>1. CASE cut = low
    BY <2>1, <1>3 DEF Pairs
  <2>2. CASE cut # low
    <3>1. low.nodes[node].size # size /\ cut = Split(low.nodes, low.list, at, size)
      BY <2>2
    <3>2. MaySplit(low.nodes, low.list, at, size)
      BY <1>3, <1>4 DEF MaySplit
    <3> HIDE DEF cut
    <3>3. CASE Idle(low.nodes) = {}
      <4>1. cut.nodes = low.nodes /\ cut.list = low.list
        BY <3>1, <3>3 DEF Split
      <4>2. QED BY <4>1, <1>3 DEF Pairs
    <3>4. CASE Idle(low.nodes) # {}
      <4>1. {at} \in SUBSET {at} /\ Behind(at, {at}) = {(at + 1) - 1, at + 1}
        <5>1. (at + 1) - 1 = at
          OBVIOUS
        <5>2. QED BY <5>1 DEF Behind
      <4>2. /\ Shape(cut.nodes, cut.list)
            /\ at + 1 \in 1 .. Len(cut.list) /\ cut.list[at + 1] = node
            /\ Pairs(cut.nodes, cut.list, Behind(at, {at}))
        <5>1. PICK ns, l, s : ns = low.nodes /\ l = low.list /\ s = cut
          OBVIOUS
        <5>2. /\ MaySplit(ns, l, at, size) /\ Idle(ns) # {} /\ Pairs(ns, l, {at})
              /\ s = Split(ns, l, at, size) /\ node = l[at]
          BY <1>3, <3>1, <3>2, <3>4, <5>1
        <5>3. PICK P \in SUBSET {at} : P = {at}
          OBVIOUS
        <5>4. Pairs(ns, l, P)
          BY <5>2, <5>3
        <5>5. /\ Shape(s.nodes, s.list)
              /\ at + 1 \in 1 .. Len(s.list) /\ s.list[at + 1] = l[at]
              /\ Pairs(s.nodes, s.list, Behind(at, P))
          BY ONLY <5>2, <5>3, <5>4, SplitPairs
        <5>6. QED BY <5>1, <5>2, <5>3, <5>5
      <4>3. QED BY <4>1, <4>2
    <3>5. QED BY <3>3, <3>4
  <2>3. QED BY <2>1, <2>2
<1>6. PICK q \in 1 .. Len(cut.list) :
        cut.list[q] = node /\ Pairs(cut.nodes, cut.list, {q - 1, q})
  BY <1>5
<1> HIDE DEF cut
<1>7. /\ cut.nodes \in [Nodes -> Records] /\ Len(cut.list) \in Nat
      /\ \A p \in 1 .. Len(cut.list) : cut.list[p] \in Nodes
  BY <1>5 DEF Shape, Typed
<1> HIDE DEF node
<1>8. /\ nodes'[node].status = "USED"
      /\ \A m \in Nodes : m # node => nodes'[m] = cut.nodes[m]
  BY <1>2, <1>4, <1>7
<1>9. ASSUME NEW p \in 1 .. Len(cut.list) - 1,
             FreeAt(nodes', cut.list, p), FreeAt(nodes', cut.list, p + 1)
      PROVE  FALSE
  <2>1. p \in 1 .. Len(cut.list) /\ p + 1 \in 1 .. Len(cut.list)
    BY <1>7
  <2>2. p # q /\ p + 1 # q
    BY <1>6, <1>8, <1>9 DEF FreeAt
  <2>3. FreeAt(cut.nodes, cut.list, p) /\ FreeAt(cut.nodes, cut.list, p + 1)
    BY <1>7, <1>8, <1>9, <2>1 DEF FreeAt
  <2>4. p \in {q - 1, q}
    BY <1>6, <2>3 DEF Pairs
  <2>5. QED BY <2>1, <2>2, <2>4
<1>10. QED BY <1>2, <1>9 DEF Merged, Pairs

LEMMA JoinPairs ==
  ASSUME NEW ns, NEW l, Shape(ns, l), NEW at \in 1 .. Len(l) - 1,
         NEW hi, hi = l[at], NEW lo, lo = l[at + 1],
         ns[hi].status = "FREE", ns[lo].status = "FREE",
         NEW ms, ms = Joined(ns, lo, hi),
         NEW k, k = RemoveAt(l, at),
         NEW P, Pairs(ns, l, P),
         NEW p \in 1 .. Len(k) - 1, FreeAt(ms, k, p), FreeAt(ms, k, p + 1)
  PROVE  (p < at /\ p \in P) \/ (p >= at /\ p + 1 \in P)
<1>1. /\ ns \in [Nodes -> Records] /\ l \in Seq(Nodes) /\ Len(l) \in Nat
      /\ at \in 1 .. Len(l) /\ at + 1 \in 1 .. Len(l)
  BY DEF Shape, Typed
<1>2. /\ Len(k) = Len(l) - 1
      /\ \A q \in 1 .. Len(l) - 1 : k[q] = IF q < at THEN l[q] ELSE l[q + 1]
  <2>1. /\ Len(RemoveAt(l, at)) = Len(l) - 1
        /\ \A q \in 1 .. Len(l) - 1 :
             RemoveAt(l, at)[q] = IF q < at THEN l[q] ELSE l[q + 1]
    BY <1>1, Removal
  <2>2. QED BY <2>1
<1>3. \A q \in 1 .. Len(l) : q # at => l[q] \in Nodes /\ l[q] # hi
  BY <1>1 DEF Shape, Listed
<1>4. \A m \in Nodes : m # hi => ms[m].status = ns[m].status
  <2>1. ms = [ns EXCEPT ![lo].size = @ + ns[hi].size, ![hi] = Spare]
    BY DEF Joined
  <2>2. hi \in Nodes /\ lo \in Nodes
    BY <1>1
  <2>3. ASSUME NEW m \in Nodes, m # hi PROVE ms[m].status = ns[m].status
    <3>1. CASE m = lo
      BY SMTT(30), <1>1, <2>1, <2>2, <2>3, <3>1 DEF Records
    <3>2. CASE m # lo
      BY <1>1, <2>1, <2>2, <2>3, <3>2
    <3>3. QED BY <3>1, <3>2
  <2>4. QED BY <2>3
<1>5. \A q \in 1 .. Len(l) : q # at => ms[l[q]].status = ns[l[q]].status
  BY <1>3, <1>4
<1>6. p \in 1 .. Len(l) - 1 /\ p + 1 \in 1 .. Len(l) - 1 /\ p \in Nat
  BY <1>1, <1>2
<1>7. CASE p < at
  <2>1. FreeAt(ns, l, p)
    <3>1. k[p] = l[p] /\ p # at /\ p \in 1 .. Len(l)
      BY <1>1, <1>2, <1>6, <1>7
    <3>2. QED BY <1>5, <3>1 DEF FreeAt
  <2>2. FreeAt(ns, l, p + 1)
    <3>1. CASE p + 1 < at
      <4>1. k[p + 1] = l[p + 1] /\ p + 1 # at /\ p + 1 \in 1 .. Len(l)
        BY <1>1, <1>2, <1>6, <3>1
      <4>2. QED BY <1>5, <4>1 DEF FreeAt
    <3>2. CASE p + 1 = at
      BY <3>2 DEF FreeAt
    <3>3. QED BY <1>1, <1>6, <1>7, <3>1, <3>2
  <2>3. QED BY <1>6, <1>7, <2>1, <2>2 DEF Pairs
<1>8. CASE ~(p < at)
  <2>1. PICK q : q = p + 1
    OBVIOUS
  <2>2. /\ q \in 1 .. Len(l) - 1 /\ q \in 1 .. Len(l) /\ q + 1 \in 1 .. Len(l)
        /\ q # at /\ q + 1 # at /\ ~(q < at) /\ p >= at
    BY <1>1, <1>6, <1>8, <2>1
  <2>3. k[p] = l[q] /\ k[q] = l[q + 1]
    BY <1>2, <1>6, <1>8, <2>1, <2>2
  <2>4. FreeAt(ns, l, q) /\ FreeAt(ns, l, q + 1)
    BY <1>5, <2>1, <2>2, <2>3 DEF FreeAt
  <2>5. QED BY <2>1, <2>2, <2>4 DEF Pairs
<1>9. QED BY <1>7, <1>8

LEMMA MergeAbovePairs ==
  ASSUME NEW ns, NEW l, NEW at, Shape(ns, l), at \in 1 .. Len(l), ns[l[at]].status = "FREE",
         Pairs(ns, l, {at - 1, at}),
         NEW r, r = MergeAbove(ns, l, at)
  PROVE  Pairs(r.nodes, r.list, {r.at})
<1>1. CASE at > 1 /\ ns[l[at - 1]].status = "FREE"
  <2>1. at \in Nat /\ at - 1 \in 1 .. Len(l) - 1 /\ at - 1 \in 1 .. Len(l) /\ Len(l) \in Nat
    BY <1>1 DEF Shape, Typed
  <2>2. ns[l[at - 1]].offset = ns[l[at]].offset + ns[l[at]].size
    BY <1>1 DEF Shape, EndToEnd, EndOf
  <2>3. /\ r.nodes = Joined(ns, l[at], l[at - 1])
        /\ r.list = RemoveAt(l, at - 1) /\ r.at = at - 1
    BY <1>1, <2>2 DEF MergeAbove, Joined
  <2>4. PICK b, lo, hi, ms, k, P : /\ b = at - 1 /\ lo = l[at] /\ hi = l[at - 1]
                                   /\ ms = r.nodes /\ k = r.list /\ P = {at - 1, at}
    OBVIOUS
  <2>5. /\ b \in 1 .. Len(l) - 1 /\ hi = l[b] /\ lo = l[b + 1] /\ b + 1 = at
        /\ ns[hi].status = "FREE" /\ ns[lo].status = "FREE"
        /\ ms = Joined(ns, lo, hi) /\ k = RemoveAt(l, b) /\ Pairs(ns, l, P)
    BY <1>1, <2>1, <2>3, <2>4
  <2>6. \A p \in 1 .. Len(k) - 1 : FreeAt(ms, k, p) /\ FreeAt(ms, k, p + 1) =>
          (p < b /\ p \in P) \/ (p >= b /\ p + 1 \in P)
    BY <2>5, JoinPairs
  <2>7. \A p \in 1 .. Len(k) - 1 : FreeAt(ms, k, p) /\ FreeAt(ms, k, p + 1) => p \in {b}
    BY <2>1, <2>4, <2>6
  <2>8. QED BY <2>3, <2>4, <2>7 DEF Pairs
<1>2. CASE ~(at > 1 /\ ns[l[at - 1]].status = "FREE")
  <2>1. r.nodes = ns /\ r.list = l /\ r.at = at
    BY <1>2 DEF MergeAbove
  <2>2. ASSUME NEW p \in 1 .. Len(l) - 1, FreeAt(ns, l, p), FreeAt(ns, l, p + 1)
        PROVE  p \in {at}
    <3>1. p \in {at - 1, at}
      BY <2>2 DEF Pairs
    <3>2. p # at - 1
      BY <1>2, <2>2 DEF FreeAt
    <3>3. QED BY <3>1, <3>2
  <2>3. QED BY <2>1, <2>2 DEF Pairs
<1>3. QED BY <1>1, <1>2

LEMMA MergeBelowPairs ==
  ASSUME NEW ns, NEW l, NEW at, Shape(ns, l), at \in 1 .. Len(l), ns[l[at]].status = "FREE",
         Pairs(ns, l, {at}),
         NEW r, r = MergeBelow(ns, l, at)
  PROVE  Pairs(r.nodes, r.list, {})
<1>0. at \in Nat /\ Len(l) \in Nat
  BY DEF Shape, Typed
<1>1. CASE at < Len(l) /\ ns[l[at + 1]].status = "FREE"
  <2>1. at \in 1 .. Len(l) - 1 /\ at + 1 \in 1 .. Len(l) /\ (at + 1) - 1 = at /\ at + 1 # 1
    BY <1>0, <1>1
  <2>2. ns[l[at + 1]].offset + ns[l[at + 1]].size = ns[l[at]].offset
    BY <2>1 DEF Shape, EndToEnd, EndOf
  <2>3. /\ r.nodes = Joined(ns, l[at + 1], l[at])
        /\ r.list = RemoveAt(l, at)
    BY <1>1, <2>2 DEF MergeBelow, Joined
  <2>4. PICK lo, hi, ms, k, P : /\ lo = l[at + 1] /\ hi = l[at]
                                /\ ms = r.nodes /\ k = r.list /\ P = {at}
    OBVIOUS
  <2>5. /\ ns[hi].status = "FREE" /\ ns[lo].status = "FREE"
        /\ ms = Joined(ns, lo, hi) /\ k = RemoveAt(l, at) /\ Pairs(ns, l, P)
    BY <1>1, <2>3, <2>4
  <2>6. \A p \in 1 .. Len(k) - 1 : FreeAt(ms, k, p) /\ FreeAt(ms, k, p + 1) =>
          (p < at /\ p \in P) \/ (p >= at /\ p + 1 \in P)
    BY <2>1, <2>4, <2>5, JoinPairs
  <2>7. \A p \in 1 .. Len(k) - 1 : ~(FreeAt(ms, k, p) /\ FreeAt(ms, k, p + 1))
    <3>1. \A p \in Int : ~(p < at /\ p \in P) /\ ~(p >= at /\ p + 1 \in P)
      BY <1>0, <2>4
    <3>2. QED BY <2>6, <3>1
  <2>8. QED BY <2>4, <2>7 DEF Pairs
<1>2. CASE ~(at < Len(l) /\ ns[l[at + 1]].status = "FREE")
  <2>1. r.nodes = ns /\ r.list = l
    BY <1>2 DEF MergeBelow
  <2>2. ASSUME NEW p \in 1 .. Len(l) - 1, FreeAt(ns, l, p), FreeAt(ns, l, p + 1)
        PROVE  p \in {}
    <3>1. p = at
      BY <2>2 DEF Pairs
    <3>2. QED BY <1>0, <1>2, <2>2, <3>1 DEF FreeAt
  <2>3. QED BY <2>1, <2>2 DEF Pairs
<1>3. QED BY <1>1, <1>2

LEMMA FreeMerged ==
  ASSUME Inv, Merged, NEW h \in Handles, Free(h)
  PROVE  Merged'
<1>1. PICK n : n = handle[h].node
  OBVIOUS
<1>2. n \in Nodes /\ nodes[n].status = "USED" /\ Shape(nodes, list)
  BY <1>1, BlockNodes DEF Inv, Free
<1>3. PICK fs : fs = Marked(nodes, n, "FREE")
  OBVIOUS
<1>4. /\ Shape(fs, list) /\ fs[n].status = "FREE"
      /\ \A m \in Nodes : m # n => fs[m] = nodes[m]
  BY <1>2, <1>3, Marking
<1>5. PICK at \in DOMAIN list :
        /\ list[at] = n
        /\ nodes' = MergeBelow(MergeAbove(fs, list, at).nodes, MergeAbove(fs, list, at).list,
                              MergeAbove(fs, list, at).at).nodes
        /\ list' = MergeBelow(MergeAbove(fs, list, at).nodes, MergeAbove(fs, list, at).list,
                             MergeAbove(fs, list, at).at).list
  BY <1>1, <1>3 DEF Free, Marked
<1>6. at \in 1 .. Len(list) /\ Len(list) \in Nat
  BY <1>2 DEF Shape, Typed
<1>7. ASSUME NEW p \in 1 .. Len(list) - 1, FreeAt(fs, list, p), FreeAt(fs, list, p + 1)
      PROVE  p \in {at - 1, at}
  <2>1. /\ p \in 1 .. Len(list) /\ p + 1 \in 1 .. Len(list)
        /\ list[p] \in Nodes /\ list[p + 1] \in Nodes
    BY <1>2, <1>6 DEF Shape, Typed
  <2>2. list[p] = n \/ list[p + 1] = n
    BY <1>4, <1>7, <2>1 DEF Merged, Pairs, FreeAt
  <2>3. p = at \/ p + 1 = at
    BY <1>2, <1>5, <1>6, <2>1, <2>2 DEF Shape, Listed
  <2>4. QED BY <2>1, <2>3
<1>8. Pairs(fs, list, {at - 1, at})
  BY <1>7 DEF Pairs
<1>9. PICK l, u, d, us, ul, ua :
        /\ l = list /\ u = MergeAbove(fs, l, at)
        /\ us = u.nodes /\ ul = u.list /\ ua = u.at /\ d = MergeBelow(us, ul, ua)
  OBVIOUS
<1>10. fs[l[at]].status = "FREE" /\ Shape(fs, l) /\ at \in 1 .. Len(l) /\ Pairs(fs, l, {at - 1, at})
  BY <1>4, <1>5, <1>6, <1>8, <1>9
<1>11. HasMerged(fs, l, at, u)
  BY <1>9, <1>10, MergeAboveKeeps
<1>12. Pairs(us, ul, {ua})
  BY <1>9, <1>10, MergeAbovePairs
<1>13. Shape(us, ul) /\ ua \in 1 .. Len(ul) /\ us[ul[ua]].status = "FREE"
  BY <1>9, <1>11 DEF HasMerged
<1>14. Pairs(d.nodes, d.list, {})
  BY <1>9, <1>12, <1>13, MergeBelowPairs
<1>15. nodes' = d.nodes /\ list' = d.list
  BY <1>5, <1>9
<1>16. QED BY <1>14, <1>15 DEF Merged

LEMMA MergedInit == Init => Merged
BY DEF Init, Merged, Pairs

LEMMA MergedStep == Inv /\ Merged /\ [Next]_vars => Merged'
<1> SUFFICES ASSUME Inv, Merged, [Next]_vars PROVE Merged'
  OBVIOUS
<1>1. CASE UNCHANGED vars
  BY <1>1 DEF vars, Merged, Pairs, FreeAt
<1>2. ASSUME NEW h \in Handles, Allocates(h) PROVE Merged'
  <2>1. PICK at \in 1 .. Len(list), skip \in Nat, size \in Nat, align \in Nat \ {0} :
          Takes(h, at, skip, size, align)
    BY <1>2, AllocationTakes
  <2>2. Shape(nodes, list)
    BY DEF Inv
  <2>3. QED BY <2>1, <2>2, TakeMerged
<1>3. ASSUME NEW h \in Handles, Free(h) PROVE Merged'
  BY <1>3, FreeMerged
<1>4. QED BY <1>1, <1>2, <1>3 DEF Next, Allocates

(* No two free nodes ever lie side by side, whatever the order in which    *)
(* blocks were allocated and freed, so that a stretch of unused memory is  *)
(* always the room of a single node.                                       *)
THEOREM NeverFragmented == Spec => []Merged
<1>1. Init => Inv /\ Merged
  BY InvInit, MergedInit
<1>2. Inv /\ Merged /\ [Next]_vars => (Inv /\ Merged)'
  BY InvStep, MergedStep
<1>3. QED BY <1>1, <1>2, PTL DEF Spec

-----------------------------------------------------------------------------
(* What a search of the list needs.                                        *)
LEMMA SkipLeast ==
  ASSUME NEW x \in Nat, NEW y \in Nat, NEW a \in Nat \ {0}, x <= y, y % a = 0
  PROVE  x + Skip(x, a) <= y
<1>1. CASE x % a = 0
  <2>1. (a - 0) % a = 0
    OBVIOUS
  <2>2. QED BY <1>1, <2>1 DEF Skip
<1>2. CASE x % a # 0
  <2>1. x % a \in 1 .. a - 1
    BY <1>2
  <2>2. (a - (x % a)) % a = a - (x % a)
    BY <2>1
  <2>3. PICK q, k \in Nat : q = x \div a /\ k = y \div a
    OBVIOUS
  <2>4. x = a * q + (x % a) /\ y = a * k
    BY <2>3
  <2>5. q < k
    <3>1. SUFFICES ASSUME k <= q PROVE FALSE
      BY <2>3
    <3>2. a * k <= a * q
      BY <2>3, <3>1
    <3>3. a * k \in Nat /\ a * q \in Nat
      BY <2>3
    <3>4. QED BY <2>1, <2>4, <3>2, <3>3
  <2>6. a * (q + 1) <= a * k
    BY <2>3, <2>5
  <2>7. a * (q + 1) = a * q + a
    BY <2>3
  <2>8. a * k \in Nat /\ a * q \in Nat
    BY <2>3
  <2>9. x + (a - (x % a)) = a * q + a
    BY <2>1, <2>4, <2>8
  <2>10. QED BY <2>2, <2>4, <2>6, <2>7, <2>9 DEF Skip
<1>3. QED BY <1>1, <1>2

LEMMA LeastPlace ==
  ASSUME NEW P \in SUBSET (1 .. Len(list)), P # {}, Len(list) \in Nat
  PROVE  \E p \in P : \A q \in 1 .. p - 1 : q \notin P
<1>1. P \in SUBSET Nat
  OBVIOUS
<1>2. PICK p \in P : \A q \in P : p <= q
  BY <1>1, LeastNumber
<1>3. QED BY <1>1, <1>2

(* A free node is counted. *)
LEMMA FreeCounted ==
  ASSUME Inv, Counted, NEW n \in Nodes, nodes[n].status = "FREE"
  PROVE  nodes[n].size <= free_bytes /\ free_bytes \in Nat
<1> DEFINE f == SizeOf(nodes)
           F == With(nodes, "FREE")
<1>1. nodes \in [Nodes -> Records]
  BY DEF Inv, Shape, Typed
<1>2. /\ IsFiniteSet(F) /\ n \in F /\ f[n] = nodes[n].size
      /\ (\A m \in F : f[m] \in Int) /\ \A m \in F \ {n} : f[m] \in Nat
      /\ nodes[n].size \in Nat /\ Sum(nodes, "FREE") \in Nat
  <2>1. n \in F /\ F \in SUBSET Nodes
    BY DEF With
  <2>2. /\ IsFiniteSet(F) /\ Sum(nodes, "FREE") \in Nat
        /\ \A m \in Nodes : f[m] = nodes[m].size /\ nodes[m].size \in Nat
    BY <1>1, SizesNatural
  <2> HIDE DEF f, F
  <2>3. QED BY <2>1, <2>2
<1>3. IsFiniteSet(F \ {n})
  BY <1>2, FS_Subset
<1>4. Sum(nodes, "FREE") = Total(f, F)
  BY DEF Sum
<1> HIDE DEF f, F
<1>5. Total(f, F) = f[n] + Total(f, F \ {n})
  BY <1>2, TotalPick
<1>6. Total(f, F \ {n}) \in Nat
  BY <1>2, <1>3, TotalNat
<1>7. QED BY <1>2, <1>4, <1>5, <1>6 DEF Counted

(* Unused memory is the room of one free node: the one that starts below   *)
(* it closest, since the memory above it is used or merged into it.        *)
LEMMA RoomOfOne ==
  ASSUME Inv, Merged, NEW from \in 0 .. Size, NEW size \in Nat \ {0},
         Unused(from, from + size)
  PROVE  \E p \in 1 .. Len(list) :
           /\ list[p] \in Nodes /\ nodes[list[p]].status = "FREE"
           /\ nodes[list[p]].offset <= from
           /\ from + size <= EndOf(nodes[list[p]])
<1>1. /\ nodes \in [Nodes -> Records] /\ list \in Seq(Nodes) /\ Len(list) \in Nat
      /\ Len(list) > 0 /\ nodes[list[Len(list)]].offset = 0
      /\ Size \in Nat /\ from \in Nat /\ from + size <= Size
  BY HeapAssumption DEF Inv, Shape, Typed, EndToEnd, Unused
<1>2. \A p \in 1 .. Len(list) :
        /\ list[p] \in Nodes /\ nodes[list[p]].status # "INIT"
        /\ nodes[list[p]].offset \in Nat /\ nodes[list[p]].size \in Nat
        /\ nodes[list[p]].status \in {"INIT", "FREE", "USED"}
  BY <1>1 DEF Inv, Shape, Listed, Records
<1> DEFINE P == {p \in 1 .. Len(list) : nodes[list[p]].offset <= from}
<1>3. Len(list) \in P /\ P \in SUBSET (1 .. Len(list))
  BY <1>1
<1>4. PICK p \in P : \A q \in 1 .. p - 1 : q \notin P
  <2> HIDE DEF P
  <2>1. P # {}
    BY <1>3
  <2>2. QED BY <1>1, <1>3, <2>1, LeastPlace
<1>5. p \in 1 .. Len(list) /\ nodes[list[p]].offset <= from
  OBVIOUS
<1>6. EndOf(nodes[list[p]]) = IF p = 1 THEN Size ELSE nodes[list[p - 1]].offset
  BY <1>5 DEF Inv, Shape, EndToEnd
<1>7. p # 1 => /\ p - 1 \in 1 .. Len(list) - 1 /\ p - 1 \in 1 .. Len(list) /\ (p - 1) + 1 = p
               /\ nodes[list[p - 1]].offset > from
  <2>1. SUFFICES ASSUME p # 1
                 PROVE  /\ p - 1 \in 1 .. Len(list) - 1 /\ p - 1 \in 1 .. Len(list)
                        /\ (p - 1) + 1 = p /\ nodes[list[p - 1]].offset > from
    OBVIOUS
  <2>2. /\ p - 1 \in 1 .. Len(list) - 1 /\ p - 1 \in 1 .. Len(list)
        /\ (p - 1) + 1 = p /\ p - 1 \in 1 .. p - 1
    BY <1>1, <1>5, <2>1
  <2>3. ~(nodes[list[p - 1]].offset <= from)
    BY <1>4, <2>2
  <2>4. nodes[list[p - 1]].offset \in Nat
    BY <1>2, <2>2
  <2>5. QED BY <1>1, <2>2, <2>3, <2>4
<1>8. EndOf(nodes[list[p]]) > from
  BY <1>1, <1>6, <1>7
<1>9. nodes[list[p]].status = "FREE"
  <2>1. SUFFICES ASSUME nodes[list[p]].status = "USED" PROVE FALSE
    BY <1>2, <1>5
  <2>2. \/ nodes[list[p]].offset >= from + size
        \/ nodes[list[p]].offset + nodes[list[p]].size <= from
    BY <1>2, <1>5, <2>1 DEF Unused
  <2>3. nodes[list[p]].offset \in Nat /\ nodes[list[p]].size \in Nat
    BY <1>2, <1>5
  <2>4. QED BY <1>1, <1>5, <1>8, <2>2, <2>3 DEF EndOf
<1>10. from + size <= EndOf(nodes[list[p]])
  <2>1. CASE p = 1
    BY <1>1, <1>6, <2>1
  <2>2. CASE p # 1
    <3>1. PICK u : u = list[p - 1]
      OBVIOUS
    <3>2. /\ u \in Nodes /\ nodes[u].offset \in Nat /\ nodes[u].size \in Nat
          /\ nodes[u].status \in {"FREE", "USED"} /\ nodes[u].offset > from
      BY <1>2, <1>7, <2>2, <3>1
    <3>3. nodes[u].status # "FREE"
      BY <1>7, <1>9, <2>2, <3>1 DEF Merged, Pairs, FreeAt
    <3>4. nodes[u].offset >= from + size \/ nodes[u].offset + nodes[u].size <= from
      BY <3>2, <3>3 DEF Unused
    <3>5. nodes[u].offset >= from + size
      BY <1>1, <3>2, <3>4
    <3>6. QED BY <1>6, <2>2, <3>1, <3>5, <3>2, <1>1
  <2>3. QED BY <2>1, <2>2
<1>11. QED BY <1>2, <1>5, <1>9, <1>10

(* As long as a node is idle, a request is refused only when no stretch of *)
(* unused memory holds it at its alignment.                                *)
THEOREM RoomIsServed == Spec => []ServedIfRoom
<1>1. ASSUME Inv, Counted, Merged PROVE ServedIfRoom
  <2>1. SUFFICES ASSUME NEW s \in Sizes \ {0}, NEW a \in Aligns, NEW size, NEW align,
                        size = Rounded(s), align = AtLeastPage(a),
                        NEW from \in 0 .. Size,
                        (Physical + from) % align = 0, Unused(from, from + size),
                        Idle(nodes) # {}
                 PROVE  \E at \in DOMAIN list : Place(at, size, align)
    BY DEF ServedIfRoom
  <2>2. size \in Nat \ {0} /\ align \in Nat \ {0}
    <3>1. s \in Nat \ {0} /\ Page \in Nat \ {0}
      BY HeapAssumption
    <3>2. Skip(s, Page) \in 0 .. Page - 1
      BY <3>1, Skipping
    <3>3. QED BY <2>1, <3>1, <3>2, Asked DEF Rounded, AlignUp
  <2>3. PICK p \in 1 .. Len(list) :
          /\ list[p] \in Nodes /\ nodes[list[p]].status = "FREE"
          /\ nodes[list[p]].offset <= from
          /\ from + size <= EndOf(nodes[list[p]])
    BY <1>1, <2>1, <2>2, RoomOfOne
  <2>4. /\ Physical \in Nat /\ from \in Nat /\ Len(list) \in Nat /\ DOMAIN list = 1 .. Len(list)
        /\ nodes[list[p]].offset \in Nat /\ nodes[list[p]].size \in Nat
    <3>1. nodes \in [Nodes -> Records] /\ list \in Seq(Nodes)
      BY <1>1 DEF Inv, Shape, Typed
    <3>2. nodes[list[p]].offset \in Nat /\ nodes[list[p]].size \in Nat
      BY <2>3, <3>1, SizesNatural
    <3>3. QED BY <2>3, <3>1, <3>2, HeapAssumption
  <2>5. Fits(list[p], size, align)
    <3>1. PICK x, y : x = Physical + nodes[list[p]].offset /\ y = Physical + from
      OBVIOUS
    <3>2. x \in Nat /\ y \in Nat /\ x <= y /\ y % align = 0
      BY <2>1, <2>3, <2>4, <3>1
    <3>3. x + Skip(x, align) <= y
      BY <2>2, <3>2, SkipLeast
    <3>4. Skip(x, align) \in 0 .. align - 1
      BY <2>2, <3>2, Skipping
    <3>5. nodes[list[p]].size >= size + Skip(x, align)
      <4>1. PICK k, o, z : k = Skip(x, align) /\ o = nodes[list[p]].offset /\ z = nodes[list[p]].size
        OBVIOUS
      <4>2. k \in Nat /\ o \in Nat /\ z \in Nat
        BY <2>2, <2>4, <3>4, <4>1
      <4>3. Physical + o + k <= Physical + from /\ from + size <= o + z
        BY <2>3, <3>1, <3>3, <4>1 DEF EndOf
      <4>4. z >= size + k
        BY <2>2, <2>4, <4>2, <4>3
      <4>5. QED BY <4>1, <4>4
    <3>6. QED BY <2>3, <3>1, <3>5 DEF Fits
  <2>6. Query(size)
    <3>1. nodes[list[p]].size <= free_bytes /\ free_bytes \in Nat
      BY <1>1, <2>3, FreeCounted
    <3>2. size <= nodes[list[p]].size
      BY <2>2, <2>3, <2>4 DEF EndOf
    <3>3. QED BY <2>1, <2>2, <2>4, <3>1, <3>2 DEF Query
  <2> DEFINE F == {n \in Nodes : Fits(n, size, align)}
             P == {q \in 1 .. Len(list) : list[q] \in F}
  <2>7. P \in SUBSET (1 .. Len(list)) /\ P # {}
    BY <2>3, <2>5
  <2>8. PICK at \in P : \A q \in 1 .. at - 1 : q \notin P
    <3> HIDE DEF P
    <3>1. QED BY <2>4, <2>7, LeastPlace
  <2>9. at \in DOMAIN list /\ list[at] \in F
    BY <2>4
  <2>10. \A q \in 1 .. at - 1 : list[q] \notin F
    BY <2>4, <2>8, <2>9
  <2>11. FirstAt(at, F)
    BY <2>9, <2>10 DEF FirstAt
  <2>12. QED BY <2>6, <2>9, <2>11 DEF Place
<1>2. QED BY <1>1, BooksInvariant, NeverFragmented, PTL

=============================================================================
