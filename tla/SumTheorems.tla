---------------------------- MODULE SumTheorems -----------------------------
(***************************************************************************)
(* What MapThenSumSet computes.  The community module defines it by a      *)
(* recursion over the subsets of a finite set that takes out the element   *)
(* CHOOSE names; the lemmas show that any element may be taken out         *)
(* instead.  They are stated for the sum of a function over a set.         *)
(*                                                                         *)
(* Induction is over the members of a set of numbers: NaturalInduction     *)
(* follows from the well-foundedness of <, without a predicate parameter.  *)
(***************************************************************************)
EXTENDS Integers, FiniteSetsExt, FiniteSetTheorems, WellFoundedInduction, TLAPS

Chosen(s) == CHOOSE x \in s : TRUE

(* it has the sum of f over each subset of S. *)
IsSum(it, f, S) ==
  it = [s \in SUBSET S |-> IF s = {} THEN 0 ELSE f[Chosen(s)] + it[s \ {Chosen(s)}]]

Total(f, S) == (CHOOSE it : IsSum(it, f, S))[S]

-----------------------------------------------------------------------------
LEMMA LeastNumber ==
  ASSUME NEW S \in SUBSET Nat, S # {}
  PROVE  \E x \in S : \A y \in S : x <= y
<1>1. PICK x \in S : \A y \in S : <<y, x>> \notin OpToRel(<, Nat)
  BY NatLessThanWellFounded, WFMin
<1>2. \A y \in S : ~(y < x)
  BY <1>1 DEF OpToRel
<1>3. QED BY <1>2

(* A set of numbers with 0 and the successor of each member has them all. *)
LEMMA NaturalInduction ==
  ASSUME NEW S, 0 \in S, \A n \in Nat : n \in S => n + 1 \in S
  PROVE  \A n \in Nat : n \in S
<1>1. SUFFICES ASSUME Nat \ S # {} PROVE FALSE
  OBVIOUS
<1>2. PICK x \in Nat \ S : \A y \in Nat \ S : x <= y
  BY <1>1, LeastNumber
<1>3. x # 0 /\ x - 1 \in Nat /\ ~(x <= x - 1)
  BY <1>2
<1>4. x - 1 \in S
  BY <1>2, <1>3
<1>5. QED BY <1>2, <1>3, <1>4

LEMMA ChosenIn == ASSUME NEW s, s # {} PROVE Chosen(s) \in s
BY DEF Chosen

LEMMA Smaller ==
  ASSUME NEW S, IsFiniteSet(S), NEW s \in SUBSET S, NEW x \in s
  PROVE  /\ IsFiniteSet(s) /\ Cardinality(s) \in Nat
         /\ Cardinality(s \ {x}) = Cardinality(s) - 1
         /\ Cardinality(s \ {x}) \in Nat
<1>1. IsFiniteSet(s)
  BY FS_Subset
<1>2. IsFiniteSet(s \ {x}) /\ Cardinality(s \ {x}) = Cardinality(s) - 1
  BY <1>1, FS_RemoveElement
<1>3. Cardinality(s) \in Nat /\ Cardinality(s \ {x}) \in Nat
  BY <1>1, <1>2, FS_CardinalityType
<1>4. QED BY <1>1, <1>2, <1>3

(* The recursion over the subsets of a finite set defines a function: the  *)
(* one for subsets of up to n elements gives the one for n + 1.            *)
LEMMA SumExists ==
  ASSUME NEW f, NEW S, IsFiniteSet(S)
  PROVE  \E it : IsSum(it, f, S)
<1> DEFINE Upto(n) == {s \in SUBSET S : Cardinality(s) <= n}
           Body(it, s) == IF s = {} THEN 0 ELSE f[Chosen(s)] + it[s \ {Chosen(s)}]
           N == {n \in Nat : \E it : it = [s \in Upto(n) |-> Body(it, s)]}
<1>1. \A s \in SUBSET S : Cardinality(s) \in Nat
  BY FS_Subset, FS_CardinalityType
<1>2. 0 \in N
  <2>1. \A s \in Upto(0) : s = {}
    BY <1>1, FS_Subset, FS_EmptySet
  <2>2. [s \in Upto(0) |-> 0] = [s \in Upto(0) |-> Body([r \in Upto(0) |-> 0], s)]
    BY <2>1
  <2>3. QED BY <2>2
<1>3. ASSUME NEW n \in Nat, n \in N PROVE n + 1 \in N
  <2>1. PICK it : it = [s \in Upto(n) |-> Body(it, s)]
    BY <1>3
  <2> DEFINE jt == [s \in Upto(n + 1) |-> Body(it, s)]
  <2>2. \A s \in Upto(n) : s \in Upto(n + 1) /\ jt[s] = it[s]
    <3>1. \A s \in Upto(n) : s \in Upto(n + 1)
      BY <1>1
    <3>2. \A s \in Upto(n) : it[s] = Body(it, s)
      BY <2>1
    <3>3. QED BY <3>1, <3>2
  <2>3. ASSUME NEW s \in Upto(n + 1), s # {} PROVE s \ {Chosen(s)} \in Upto(n)
    <3>1. Chosen(s) \in s
      BY <2>3, ChosenIn
    <3>2. Cardinality(s) \in Nat /\ Cardinality(s \ {Chosen(s)}) = Cardinality(s) - 1
      BY <3>1, Smaller
    <3>3. QED BY <3>2
  <2>4. \A s \in Upto(n + 1) : Body(it, s) = Body(jt, s)
    BY <2>2, <2>3
  <2> HIDE DEF Body, Upto
  <2>5. jt = [s \in Upto(n + 1) |-> Body(jt, s)]
    BY <2>4
  <2> HIDE DEF jt
  <2>6. \E kt : kt = [s \in Upto(n + 1) |-> Body(kt, s)]
    BY <2>5
  <2>7. QED BY <2>6
<1> HIDE DEF N
<1>4. Cardinality(S) \in N
  BY <1>1, <1>2, <1>3, NaturalInduction
<1>5. Upto(Cardinality(S)) = SUBSET S
  BY <1>1, FS_Subset
<1>6. QED BY <1>4, <1>5 DEF N, IsSum

(* Any element may be taken out first. *)
LEMMA PickAny ==
  ASSUME NEW f, NEW S, IsFiniteSet(S), \A x \in S : f[x] \in Int, NEW it, IsSum(it, f, S)
  PROVE  /\ it[{}] = 0
         /\ \A s \in SUBSET S : it[s] \in Int
         /\ \A s \in SUBSET S : \A x \in s : it[s] = f[x] + it[s \ {x}]
<1> DEFINE Good(s) == it[s] \in Int /\ \A x \in s : it[s] = f[x] + it[s \ {x}]
           UpTo(n) == \A s \in SUBSET S : Cardinality(s) <= n => Good(s)
           N == {n \in Nat : UpTo(n)}
<1>1. \A s \in SUBSET S : Cardinality(s) \in Nat
  BY FS_Subset, FS_CardinalityType
<1>2. it[{}] = 0
  BY DEF IsSum
<1>3. \A s \in SUBSET S : s # {} => it[s] = f[Chosen(s)] + it[s \ {Chosen(s)}]
  BY DEF IsSum
<1>4. 0 \in N
  <2>1. \A s \in SUBSET S : Cardinality(s) <= 0 => s = {}
    BY <1>1, FS_Subset, FS_EmptySet
  <2>2. Good({})
    BY <1>2
  <2> HIDE DEF Good
  <2>3. QED BY <2>1, <2>2
<1>5. ASSUME NEW n \in Nat, n \in N PROVE n + 1 \in N
  <2>0. \A s \in SUBSET S : Cardinality(s) <= n => Good(s)
    BY <1>5
  <2>1. SUFFICES ASSUME NEW s \in SUBSET S, Cardinality(s) = n + 1 PROVE Good(s)
    <3> HIDE DEF Good
    <3>1. \A s \in SUBSET S : Cardinality(s) <= n + 1 => Cardinality(s) <= n \/ Cardinality(s) = n + 1
      BY <1>1
    <3>2. (\A s \in SUBSET S : Cardinality(s) = n + 1 => Good(s)) => UpTo(n + 1)
      BY <2>0, <3>1
    <3>3. QED BY <3>2
  <2> DEFINE c == Chosen(s)
  <2>2. s # {}
    BY <2>1, FS_EmptySet
  <2>3. c \in s /\ it[s] = f[c] + it[s \ {c}]
    BY <1>3, <2>2, ChosenIn
  <2>4. \A x \in s : Good(s \ {x})
    BY <2>0, <2>1, Smaller
  <2>5. it[s] \in Int
    <3>1. it[s \ {c}] \in Int /\ f[c] \in Int
      BY <2>3, <2>4
    <3> HIDE DEF c
    <3>2. QED BY <2>3, <3>1
  <2>6. ASSUME NEW x \in s, x # c PROVE it[s] = f[x] + it[s \ {x}]
    <3>1. it[s \ {c}] = f[x] + it[(s \ {c}) \ {x}]
      BY <2>4, <2>3, <2>6
    <3>2. it[s \ {x}] = f[c] + it[(s \ {x}) \ {c}]
      BY <2>4, <2>3, <2>6
    <3>3. (s \ {c}) \ {x} = (s \ {x}) \ {c}
      OBVIOUS
    <3>4. it[(s \ {x}) \ {c}] \in Int /\ f[x] \in Int /\ f[c] \in Int
      <4>1. c \in s \ {x} /\ s \ {x} \in SUBSET S /\ (s \ {x}) \ {c} \in SUBSET S
        BY <2>3, <2>6
      <4>2. Cardinality(s \ {x}) = n /\ Cardinality((s \ {x}) \ {c}) = n - 1
        <5>1. PICK r : r = s \ {x}
          OBVIOUS
        <5>2. Cardinality(r) = Cardinality(s) - 1
          BY <5>1, Smaller
        <5>3. r \in SUBSET S /\ c \in r
          BY <4>1, <5>1
        <5> HIDE DEF c
        <5>4. Cardinality(r \ {c}) = Cardinality(r) - 1
          BY <5>3, Smaller
        <5>5. QED BY <2>1, <5>1, <5>2, <5>4
      <4>3. Cardinality((s \ {x}) \ {c}) <= n
        BY <4>2
      <4>4. QED BY <2>0, <2>3, <4>1, <4>3
    <3>5. it[s \ {c}] = f[x] + it[(s \ {x}) \ {c}]
      BY <3>1, <3>3
    <3> DEFINE rest == it[(s \ {x}) \ {c}]
    <3>6. it[s] = f[c] + (f[x] + rest) /\ it[s \ {x}] = f[c] + rest
      BY <2>3, <3>2, <3>5
    <3>7. rest \in Int /\ f[x] \in Int /\ f[c] \in Int
      BY <3>4
    <3> HIDE DEF c, rest
    <3>8. f[c] + (f[x] + rest) = f[x] + (f[c] + rest)
      BY <3>7
    <3>9. QED BY <3>6, <3>8
  <2>7. QED BY <2>3, <2>5, <2>6
<1> HIDE DEF N, Good
<1>6. Cardinality(S) \in N
  BY <1>1, <1>4, <1>5, NaturalInduction
<1>7. \A s \in SUBSET S : Cardinality(s) <= Cardinality(S)
  BY FS_Subset
<1>8. \A s \in SUBSET S : Good(s)
  BY <1>6, <1>7 DEF N
<1>9. QED BY <1>2, <1>8 DEF Good

(* Functions that agree on a set have the same sum over it, whatever the   *)
(* sets they were summed up over.                                          *)
LEMMA SameSums ==
  ASSUME NEW f, NEW S, IsFiniteSet(S), NEW it, IsSum(it, f, S),
         NEW g, NEW T, IsFiniteSet(T), NEW jt, IsSum(jt, g, T),
         NEW U \in SUBSET (S \cap T), \A x \in U : f[x] = g[x]
  PROVE  it[U] = jt[U]
<1> DEFINE UpTo(n) == \A s \in SUBSET U : Cardinality(s) <= n => it[s] = jt[s]
           N == {n \in Nat : UpTo(n)}
<1>1. IsFiniteSet(U) /\ U \in SUBSET S /\ U \in SUBSET T
  BY FS_Subset
<1>2. \A s \in SUBSET U : Cardinality(s) \in Nat
  BY <1>1, FS_Subset, FS_CardinalityType
<1>3. it[{}] = 0 /\ jt[{}] = 0
  BY DEF IsSum
<1>4. ASSUME NEW s \in SUBSET U, s # {}
      PROVE  it[s] = f[Chosen(s)] + it[s \ {Chosen(s)}] /\ jt[s] = g[Chosen(s)] + jt[s \ {Chosen(s)}]
  BY <1>4, <1>1 DEF IsSum
<1>5. UpTo(0)
  BY <1>1, <1>2, <1>3, FS_Subset, FS_EmptySet
<1>6. ASSUME NEW n \in Nat, UpTo(n) PROVE UpTo(n + 1)
  <2>1. SUFFICES ASSUME NEW s \in SUBSET U, Cardinality(s) = n + 1 PROVE it[s] = jt[s]
    BY <1>2, <1>6
  <2>2. s # {}
    BY <2>1, FS_EmptySet
  <2>3. Chosen(s) \in s
    BY <2>2, ChosenIn
  <2>4. it[s \ {Chosen(s)}] = jt[s \ {Chosen(s)}]
    BY <1>1, <1>6, <2>1, <2>3, Smaller
  <2>5. QED BY <1>4, <2>2, <2>3, <2>4
<1>7. \A n \in Nat : n \in N
  <2>1. 0 \in N /\ \A n \in Nat : n \in N => n + 1 \in N
    BY <1>5, <1>6
  <2> HIDE DEF N
  <2>2. QED BY <2>1, NaturalInduction
<1>8. UpTo(Cardinality(U))
  BY <1>1, <1>2, <1>7
<1>9. QED BY <1>1, <1>2, <1>8

LEMMA SumUnique ==
  ASSUME NEW f, NEW S, IsFiniteSet(S), NEW it, IsSum(it, f, S), NEW jt, IsSum(jt, f, S)
  PROVE  it[S] = jt[S]
<1>1. S \in SUBSET (S \cap S) /\ \A x \in S : f[x] = f[x]
  OBVIOUS
<1>2. QED BY <1>1, SameSums

LEMMA TotalIsSum ==
  ASSUME NEW f, NEW S, IsFiniteSet(S)
  PROVE  \E it : IsSum(it, f, S) /\ Total(f, S) = it[S]
<1>1. IsSum(CHOOSE it : IsSum(it, f, S), f, S)
  BY SumExists
<1>2. QED BY <1>1 DEF Total

-----------------------------------------------------------------------------
(* What the proofs about sums use.                                         *)

LEMMA TotalEmpty == \A f : Total(f, {}) = 0
<1>1. IsFiniteSet({})
  BY FS_EmptySet
<1>2. QED BY <1>1, TotalIsSum DEF IsSum

LEMMA TotalSame ==
  ASSUME NEW f, NEW g, NEW S, IsFiniteSet(S), \A x \in S : f[x] = g[x]
  PROVE  Total(f, S) = Total(g, S)
<1>1. PICK it : IsSum(it, f, S) /\ Total(f, S) = it[S]
  BY TotalIsSum
<1>2. PICK jt : IsSum(jt, g, S) /\ Total(g, S) = jt[S]
  BY TotalIsSum
<1>3. it[S] = jt[S]
  BY <1>1, <1>2, SameSums
<1>4. QED BY <1>1, <1>2, <1>3

LEMMA TotalPick ==
  ASSUME NEW f, NEW S, IsFiniteSet(S), \A x \in S : f[x] \in Int, NEW x \in S
  PROVE  Total(f, S) = f[x] + Total(f, S \ {x})
<1>1. PICK it : IsSum(it, f, S) /\ Total(f, S) = it[S]
  BY TotalIsSum
<1>2. IsFiniteSet(S \ {x})
  BY FS_Subset
<1>3. PICK jt : IsSum(jt, f, S \ {x}) /\ Total(f, S \ {x}) = jt[S \ {x}]
  BY <1>2, TotalIsSum
<1>4. it[S \ {x}] = jt[S \ {x}]
  BY <1>1, <1>2, <1>3, SameSums
<1>5. it[S] = f[x] + it[S \ {x}]
  BY <1>1, PickAny
<1>6. QED BY <1>1, <1>3, <1>4, <1>5

LEMMA TotalType ==
  ASSUME NEW f, NEW S, IsFiniteSet(S), \A x \in S : f[x] \in Int
  PROVE  Total(f, S) \in Int
<1>1. PICK it : IsSum(it, f, S) /\ Total(f, S) = it[S]
  BY TotalIsSum
<1>2. QED BY <1>1, PickAny

LEMMA TotalAdd ==
  ASSUME NEW f, NEW S, IsFiniteSet(S), \A y \in S : f[y] \in Int,
         NEW x, x \notin S, f[x] \in Int
  PROVE  Total(f, S \cup {x}) = f[x] + Total(f, S)
<1>1. IsFiniteSet(S \cup {x})
  BY FS_AddElement
<1>2. (S \cup {x}) \ {x} = S
  OBVIOUS
<1>3. Total(f, S \cup {x}) = f[x] + Total(f, (S \cup {x}) \ {x})
  BY <1>1, TotalPick
<1>4. QED BY <1>2, <1>3

(* The sum over two sets without a common element. *)
LEMMA TotalUnion ==
  ASSUME NEW f, NEW S, IsFiniteSet(S), NEW T, IsFiniteSet(T), S \cap T = {},
         \A x \in S \cup T : f[x] \in Int
  PROVE  Total(f, S \cup T) = Total(f, S) + Total(f, T)
<1> DEFINE UpTo(n) == \A s \in SUBSET S : Cardinality(s) = n =>
                        Total(f, s \cup T) = Total(f, s) + Total(f, T)
           N == {n \in Nat : UpTo(n)}
<1>1. \A s \in SUBSET S : IsFiniteSet(s) /\ Cardinality(s) \in Nat /\ IsFiniteSet(s \cup T)
  BY FS_Subset, FS_CardinalityType, FS_Union
<1>2. UpTo(0)
  <2>1. \A s \in SUBSET S : Cardinality(s) = 0 => s = {}
    BY <1>1, FS_EmptySet
  <2>2. {} \cup T = T /\ Total(f, {}) = 0 /\ Total(f, T) \in Int
    BY TotalEmpty, TotalType
  <2>3. QED BY <2>1, <2>2
<1>3. ASSUME NEW n \in Nat, UpTo(n) PROVE UpTo(n + 1)
  <2>1. SUFFICES ASSUME NEW s \in SUBSET S, Cardinality(s) = n + 1
                 PROVE  Total(f, s \cup T) = Total(f, s) + Total(f, T)
    OBVIOUS
  <2>2. PICK x \in s : TRUE
    BY <2>1, FS_EmptySet
  <2> DEFINE r == s \ {x}
  <2>3. r \in SUBSET S /\ Cardinality(r) = n
    BY <2>1, Smaller
  <2>4. Total(f, r \cup T) = Total(f, r) + Total(f, T)
    BY <1>3, <2>3
  <2>5. Total(f, s) = f[x] + Total(f, r)
    <3>1. IsFiniteSet(s) /\ \A y \in s : f[y] \in Int
      BY <1>1
    <3> HIDE DEF UpTo
    <3>2. QED BY <2>2, <3>1, TotalPick
  <2>6. Total(f, s \cup T) = f[x] + Total(f, r \cup T)
    <3>1. (s \cup T) \ {x} = r \cup T
      OBVIOUS
    <3>2. (\A y \in s \cup T : f[y] \in Int) /\ x \in s \cup T
      BY <2>2
    <3>3. QED BY <1>1, <3>1, <3>2, TotalPick
  <2>7. Total(f, r) \in Int /\ Total(f, T) \in Int /\ f[x] \in Int
    <3>1. \A y \in r : f[y] \in Int
      OBVIOUS
    <3>2. QED BY <1>1, <2>3, <3>1, TotalType
  <2> HIDE DEF r
  <2>8. QED BY <2>4, <2>5, <2>6, <2>7
<1>4. \A n \in Nat : n \in N
  <2>1. 0 \in N /\ \A n \in Nat : n \in N => n + 1 \in N
    BY <1>2, <1>3
  <2> HIDE DEF N
  <2>2. QED BY <2>1, NaturalInduction
<1>5. UpTo(Cardinality(S))
  BY <1>1, <1>4
<1>6. QED BY <1>5

LEMMA TotalNat ==
  ASSUME NEW f, NEW S, IsFiniteSet(S), \A x \in S : f[x] \in Nat
  PROVE  Total(f, S) \in Nat
<1> DEFINE UpTo(n) == \A s \in SUBSET S : Cardinality(s) = n => Total(f, s) \in Nat
           N == {n \in Nat : UpTo(n)}
<1>1. \A s \in SUBSET S : IsFiniteSet(s) /\ Cardinality(s) \in Nat
  BY FS_Subset, FS_CardinalityType
<1>2. UpTo(0)
  BY <1>1, FS_EmptySet, TotalEmpty
<1>3. ASSUME NEW n \in Nat, UpTo(n) PROVE UpTo(n + 1)
  <2>1. SUFFICES ASSUME NEW s \in SUBSET S, Cardinality(s) = n + 1 PROVE Total(f, s) \in Nat
    OBVIOUS
  <2>2. PICK x \in s : TRUE
    BY <2>1, FS_EmptySet
  <2>3. Total(f, s \ {x}) \in Nat
    BY <1>3, <2>1, Smaller
  <2>4. Total(f, s) = f[x] + Total(f, s \ {x})
    <3>1. \A y \in s : f[y] \in Int
      OBVIOUS
    <3>2. QED BY <1>1, <2>2, <3>1, TotalPick
  <2>5. QED BY <2>3, <2>4
<1>4. \A n \in Nat : n \in N
  <2>1. 0 \in N /\ \A n \in Nat : n \in N => n + 1 \in N
    BY <1>2, <1>3
  <2> HIDE DEF N
  <2>2. QED BY <2>1, NaturalInduction
<1>5. QED BY <1>1, <1>4

LEMMA TotalZero ==
  ASSUME NEW f, NEW S, IsFiniteSet(S), \A x \in S : f[x] = 0
  PROVE  Total(f, S) = 0
<1> DEFINE UpTo(n) == \A s \in SUBSET S : Cardinality(s) = n => Total(f, s) = 0
           N == {n \in Nat : UpTo(n)}
<1>1. \A s \in SUBSET S : IsFiniteSet(s) /\ Cardinality(s) \in Nat
  BY FS_Subset, FS_CardinalityType
<1>2. UpTo(0)
  BY <1>1, FS_EmptySet, TotalEmpty
<1>3. ASSUME NEW n \in Nat, UpTo(n) PROVE UpTo(n + 1)
  <2>1. SUFFICES ASSUME NEW s \in SUBSET S, Cardinality(s) = n + 1 PROVE Total(f, s) = 0
    OBVIOUS
  <2>2. PICK x \in s : TRUE
    BY <2>1, FS_EmptySet
  <2>3. Total(f, s \ {x}) = 0
    BY <1>3, <2>1, Smaller
  <2>4. Total(f, s) = f[x] + Total(f, s \ {x})
    <3>1. \A y \in s : f[y] \in Int
      OBVIOUS
    <3>2. QED BY <1>1, <2>2, <3>1, TotalPick
  <2>5. QED BY <2>3, <2>4
<1>4. \A n \in Nat : n \in N
  <2>1. 0 \in N /\ \A n \in Nat : n \in N => n + 1 \in N
    BY <1>2, <1>3
  <2> HIDE DEF N
  <2>2. QED BY <2>1, NaturalInduction
<1>5. QED BY <1>1, <1>4

(* No part is more than the whole. *)
LEMMA TotalPart ==
  ASSUME NEW f, NEW S, IsFiniteSet(S), \A x \in S : f[x] \in Nat, NEW T \in SUBSET S
  PROVE  Total(f, T) <= Total(f, S)
<1>1. IsFiniteSet(T) /\ IsFiniteSet(S \ T)
  BY FS_Subset
<1>2. T \cup (S \ T) = S /\ T \cap (S \ T) = {}
  OBVIOUS
<1>3. Total(f, T) \in Nat /\ Total(f, S \ T) \in Nat
  <2>1. (\A x \in T : f[x] \in Nat) /\ \A x \in S \ T : f[x] \in Nat
    OBVIOUS
  <2>2. QED BY <1>1, <2>1, TotalNat
<1>4. Total(f, T \cup (S \ T)) = Total(f, T) + Total(f, S \ T)
  <2>1. \A x \in T \cup (S \ T) : f[x] \in Int
    OBVIOUS
  <2>2. QED BY <1>1, <1>2, <2>1, TotalUnion
<1>5. Total(f, S) = Total(f, T) + Total(f, S \ T)
  BY <1>2, <1>4
<1>6. QED BY <1>3, <1>5

(* Two terms of a sum may change places. *)
LEMMA TotalSwap ==
  ASSUME NEW S, IsFiniteSet(S), NEW f, NEW g,
         \A x \in S : f[x] \in Int, \A x \in S : g[x] \in Int,
         NEW a \in S, NEW b \in S, f[a] = g[b], f[b] = g[a],
         \A x \in S : x # a /\ x # b => f[x] = g[x]
  PROVE  Total(f, S) = Total(g, S)
<1>1. Total(f, S) = f[a] + Total(f, S \ {a}) /\ Total(g, S) = g[a] + Total(g, S \ {a})
  BY TotalPick
<1>2. PICK R : R = S \ {a}
  OBVIOUS
<1>3. /\ IsFiniteSet(R) /\ \A x \in R : f[x] \in Int /\ g[x] \in Int
      /\ \A x \in R : x # b => f[x] = g[x]
  BY <1>2, FS_Subset
<1>4. CASE a = b
  <2>1. \A x \in R : f[x] = g[x]
    BY <1>2, <1>3, <1>4
  <2>2. Total(f, R) = Total(g, R)
    BY <1>3, <2>1, TotalSame
  <2>3. QED BY <1>1, <1>2, <1>4, <2>2
<1>5. CASE a # b
  <2>1. b \in R
    BY <1>2, <1>5
  <2>2. Total(f, R) = f[b] + Total(f, R \ {b}) /\ Total(g, R) = g[b] + Total(g, R \ {b})
    BY <1>3, <2>1, TotalPick
  <2>3. PICK T : T = R \ {b}
    OBVIOUS
  <2>4. IsFiniteSet(T) /\ \A x \in T : f[x] \in Int /\ f[x] = g[x]
    BY <1>3, <2>3, FS_Subset
  <2>5. Total(f, T) = Total(g, T) /\ Total(f, T) \in Int
    BY <2>4, TotalSame, TotalType
  <2>6. f[a] \in Int /\ f[b] \in Int
    OBVIOUS
  <2>7. QED BY <1>1, <1>2, <2>2, <2>3, <2>5, <2>6
<1>6. QED BY <1>4, <1>5

(* A sum over the values of an injective function is one over its domain.  *)
LEMMA TotalImage ==
  ASSUME NEW f, NEW S, IsFiniteSet(S), NEW e, \A p, q \in S : e[p] = e[q] => p = q,
         NEW g, \A p \in S : f[e[p]] \in Int /\ g[p] = f[e[p]]
  PROVE  IsFiniteSet({e[p] : p \in S}) /\ Total(f, {e[p] : p \in S}) = Total(g, S)
<1> DEFINE Image(s) == {e[p] : p \in s}
           UpTo(n) == \A s \in SUBSET S : Cardinality(s) = n =>
                        IsFiniteSet(Image(s)) /\ Total(f, Image(s)) = Total(g, s)
           N == {n \in Nat : UpTo(n)}
<1>1. \A s \in SUBSET S : IsFiniteSet(s) /\ Cardinality(s) \in Nat
  BY FS_Subset, FS_CardinalityType
<1>2. UpTo(0)
  <2>1. \A s \in SUBSET S : Cardinality(s) = 0 => s = {}
    BY <1>1, FS_EmptySet
  <2>2. Image({}) = {} /\ IsFiniteSet({}) /\ Total(f, {}) = 0 /\ Total(g, {}) = 0
    BY TotalEmpty, FS_EmptySet
  <2> HIDE DEF Image
  <2>3. QED BY <2>1, <2>2
<1>3. ASSUME NEW n \in Nat, UpTo(n) PROVE UpTo(n + 1)
  <2>1. SUFFICES ASSUME NEW s \in SUBSET S, Cardinality(s) = n + 1
                 PROVE  IsFiniteSet(Image(s)) /\ Total(f, Image(s)) = Total(g, s)
    OBVIOUS
  <2>2. PICK x \in s : TRUE
    BY <2>1, FS_EmptySet
  <2>3. PICK r, R, y : r = s \ {x} /\ R = Image(s \ {x}) /\ y = e[x]
    OBVIOUS
  <2>4. r \in SUBSET S /\ Cardinality(r) = n
    <3>1. Cardinality(s \ {x}) = Cardinality(s) - 1
      BY <1>1, <2>2, Smaller
    <3>2. QED BY <2>1, <2>3, <3>1
  <2>5. IsFiniteSet(R) /\ Total(f, R) = Total(g, r)
    BY <1>3, <2>3, <2>4
  <2>6. Image(s) = R \cup {y} /\ y \notin R
    BY <2>2, <2>3
  <2>7. (\A z \in R : f[z] \in Int) /\ f[y] \in Int /\ g[x] = f[y]
    BY <2>2, <2>3
  <2>8. Total(f, R \cup {y}) = f[y] + Total(f, R)
    BY <2>5, <2>6, <2>7, TotalAdd
  <2>9. Total(g, s) = g[x] + Total(g, r)
    <3>1. IsFiniteSet(s) /\ x \in s /\ \A p \in s : g[p] \in Int
      BY <1>1, <2>2
    <3>2. QED BY <2>3, <3>1, TotalPick
  <2>10. IsFiniteSet(R \cup {y})
    BY <2>5, FS_AddElement
  <2>11. QED BY <2>5, <2>6, <2>7, <2>8, <2>9, <2>10
<1>4. \A n \in Nat : n \in N
  <2> HIDE DEF UpTo
  <2>1. 0 \in N /\ \A n \in Nat : n \in N => n + 1 \in N
    BY <1>2, <1>3
  <2> HIDE DEF N
  <2>2. QED BY <2>1, NaturalInduction
<1>5. UpTo(Cardinality(S))
  BY <1>1, <1>4
<1>6. QED BY <1>5

(* A sum over a set is the sum over its parts. *)
LEMMA TotalParts ==
  ASSUME NEW f, NEW S, IsFiniteSet(S), NEW P, \A k \in S : IsFiniteSet(P[k]),
         \A k, m \in S : k # m => P[k] \cap P[m] = {},
         \A k \in S : \A x \in P[k] : f[x] \in Int,
         NEW g, \A k \in S : g[k] = Total(f, P[k])
  PROVE  /\ IsFiniteSet(UNION {P[k] : k \in S})
         /\ Total(f, UNION {P[k] : k \in S}) = Total(g, S)
<1> DEFINE All(s) == UNION {P[k] : k \in s}
           UpTo(n) == \A s \in SUBSET S : Cardinality(s) = n =>
                        IsFiniteSet(All(s)) /\ Total(f, All(s)) = Total(g, s)
           N == {n \in Nat : UpTo(n)}
<1>1. \A s \in SUBSET S : IsFiniteSet(s) /\ Cardinality(s) \in Nat
  BY FS_Subset, FS_CardinalityType
<1>2. UpTo(0)
  <2>1. \A s \in SUBSET S : Cardinality(s) = 0 => s = {}
    BY <1>1, FS_EmptySet
  <2>2. All({}) = {} /\ IsFiniteSet({}) /\ Total(f, {}) = 0 /\ Total(g, {}) = 0
    BY TotalEmpty, FS_EmptySet
  <2> HIDE DEF All
  <2>3. QED BY <2>1, <2>2
<1>3. ASSUME NEW n \in Nat, UpTo(n) PROVE UpTo(n + 1)
  <2>1. SUFFICES ASSUME NEW s \in SUBSET S, Cardinality(s) = n + 1
                 PROVE  IsFiniteSet(All(s)) /\ Total(f, All(s)) = Total(g, s)
    OBVIOUS
  <2>2. PICK x \in s : TRUE
    BY <2>1, FS_EmptySet
  <2>3. PICK r, R, Q : r = s \ {x} /\ R = All(s \ {x}) /\ Q = P[x]
    OBVIOUS
  <2>4. r \in SUBSET S /\ Cardinality(r) = n
    <3>1. Cardinality(s \ {x}) = Cardinality(s) - 1
      BY <1>1, <2>2, Smaller
    <3>2. QED BY <2>1, <2>3, <3>1
  <2>5. IsFiniteSet(R) /\ Total(f, R) = Total(g, r)
    BY <1>3, <2>3, <2>4
  <2>6. All(s) = Q \cup R
    BY <2>2, <2>3
  <2>7. Q \cap R = {} /\ IsFiniteSet(Q)
    BY <2>2, <2>3
  <2>8. (\A z \in Q \cup R : f[z] \in Int) /\ g[x] = Total(f, Q)
    BY <2>2, <2>3
  <2>9. Total(f, Q \cup R) = Total(f, Q) + Total(f, R)
    BY <2>5, <2>7, <2>8, TotalUnion
  <2>10. \A p \in s : g[p] \in Int
    <3>1. ASSUME NEW p \in s PROVE g[p] \in Int
      <4>1. PICK T : T = P[p]
        OBVIOUS
      <4>2. IsFiniteSet(T) /\ (\A z \in T : f[z] \in Int) /\ g[p] = Total(f, T)
        BY <4>1
      <4>3. QED BY <4>2, TotalType
    <3>2. QED BY <3>1
  <2>11. Total(g, s) = g[x] + Total(g, r)
    <3>1. IsFiniteSet(s) /\ x \in s
      BY <1>1, <2>2
    <3>2. QED BY <2>3, <2>10, <3>1, TotalPick
  <2>12. IsFiniteSet(Q \cup R)
    BY <2>5, <2>7, FS_Union
  <2>13. QED BY <2>5, <2>6, <2>8, <2>9, <2>11, <2>12
<1>4. \A n \in Nat : n \in N
  <2> HIDE DEF UpTo
  <2>1. 0 \in N /\ \A n \in Nat : n \in N => n + 1 \in N
    BY <1>2, <1>3
  <2> HIDE DEF N
  <2>2. QED BY <2>1, NaturalInduction
<1>5. UpTo(Cardinality(S))
  BY <1>1, <1>4
<1>6. QED BY <1>5

=============================================================================
