------------------------------ MODULE Counting ------------------------------
(***************************************************************************)
(* What the proofs about several modules use of sets of natural numbers    *)
(* (least and greatest elements, the place a number has, induction and     *)
(* recursion, stated with sets and functions so that a proof can use them  *)
(* for a recursive function) and of sequences.                             *)
(***************************************************************************)
EXTENDS Integers, Sequences, FiniteSets, FiniteSetsExt, SequencesExt, FiniteSetTheorems,
        NaturalsInduction, WellFoundedInduction, SequenceTheorems, TLAPS

(* A nonempty set of natural numbers has a least element. *)
LEMMA LeastElement ==
  ASSUME NEW S \in SUBSET Nat, S # {}
  PROVE  \E m \in S : \A n \in S : m <= n
<1>1. PICK m \in S : \A n \in S : ~(<<n, m>> \in OpToRel(<, Nat))
  BY NatLessThanWellFounded, WFMin
<1>2. \A n \in S : ~(n < m)
  BY <1>1, Zenon DEF OpToRel
<1>3. \A n \in S : m <= n
  BY <1>2
<1> QED
  BY <1>3

LEMMA MinIsLeast ==
  ASSUME NEW S \in SUBSET Nat, S # {}
  PROVE  Min(S) \in S /\ \A n \in S : Min(S) <= n
<1>1. \E m \in S : \A n \in S : m <= n
  BY LeastElement
<1> QED
  BY <1>1 DEF Min

LEMMA MaxIsGreatest ==
  ASSUME NEW n \in Nat, NEW S \in SUBSET (0..n), S # {}
  PROVE  Max(S) \in S /\ \A m \in S : m <= Max(S)
<1> DEFINE Mirror == {n - m : m \in S}
<1>1. Mirror \in SUBSET Nat /\ Mirror # {}
  <2>1. \A m \in S : m \in 0..n
    OBVIOUS
  <2>2. \A m \in S : n - m \in Nat
    BY <2>1
  <2>3. \E m \in S : n - m \in Mirror
    OBVIOUS
  <2> QED
    BY <2>2, <2>3
<1>2. PICK d \in Mirror : \A e \in Mirror : d <= e
  BY <1>1, LeastElement
<1>3. PICK g \in S : d = n - g
  BY <1>2
<1>4. ASSUME NEW m \in S
      PROVE  g >= m
  <2>0. m \in 0..n /\ g \in 0..n
    OBVIOUS
  <2>1. n - m \in Mirror
    OBVIOUS
  <2>2. n - g <= n - m
    BY <1>2, <1>3, <2>1
  <2> QED
    BY <2>0, <2>2
<1>5. \A m \in S : m \in 0..n
  OBVIOUS
<1>6. \A m \in S : g >= m
  BY <1>4
<1>7. \E x \in S : \A y \in S : x >= y
  BY <1>6
<1>8. Max(S) \in S /\ \A m \in S : Max(S) >= m
  BY <1>7 DEF Max
<1> QED
  BY <1>5, <1>8

(* A set that has 0, and with each number below n the next one, has all numbers up to n. *)
LEMMA InductionUpTo ==
  ASSUME NEW n \in Nat, NEW S, 0 \in S,
         \A k \in 0..n : k \in S /\ k < n => k + 1 \in S
  PROVE  0..n \subseteq S
<1> SUFFICES ASSUME (0..n) \ S # {} PROVE FALSE
  OBVIOUS
<1> DEFINE Missing == (0..n) \ S
<1>1. PICK m \in Missing : \A k \in Missing : m <= k
  <2>1. Missing \in SUBSET Nat /\ Missing # {}
    OBVIOUS
  <2> QED
    BY <2>1, LeastElement
<1>2. m # 0 /\ m - 1 \in 0..n /\ m - 1 < n
  BY <1>1
<1>3. m - 1 \in S
  BY <1>1, <1>2
<1>4. (m - 1) + 1 \in S
  BY <1>2, <1>3
<1> QED
  BY <1>1, <1>2, <1>4

LEMMA InductionFromOne ==
  ASSUME NEW n \in Nat, n # 0, NEW S, 1 \in S,
         \A k \in 1..n : k \in S /\ k < n => k + 1 \in S
  PROVE  1..n \subseteq S
<1> DEFINE T == S \cup {0}
<1>1. 0 \in T
  OBVIOUS
<1>2. ASSUME NEW k \in 0..n, k \in T, k < n
      PROVE  k + 1 \in T
  BY <1>2
<1> HIDE DEF T
<1>3. 0..n \subseteq T
  BY <1>1, <1>2, InductionUpTo
<1> QED
  BY <1>3 DEF T

(* A function may be defined by recursion: step says what follows from a value at a place. *)
StepsWithin(n, S, step) == \A s \in S, i \in 1..n : step[<<s, i>>] \in S

Follows(n, S, base, step, f) ==
  /\ f \in [0..n -> S]
  /\ f[0] = base
  /\ \A i \in 1..n : f[i] = step[<<f[i - 1], i>>]

LEMMA RecursionUpTo ==
  ASSUME NEW n \in Nat, NEW S, NEW base \in S, NEW step, StepsWithin(n, S, step)
  PROVE  \E f : Follows(n, S, base, step, f)
<1> DEFINE Solves(f, k) == Follows(k, S, base, step, f)
           Solved == {k \in 0..n : \E f : Solves(f, k)}
<1> USE DEF Follows, StepsWithin
<1>1. 0 \in Solved
  <2> DEFINE g == [i \in 0..0 |-> base]
  <2>1. Solves(g, 0)
    OBVIOUS
  <2>2. 0 \in 0..n
    OBVIOUS
  <2>3. \E f : Solves(f, 0)
    BY <2>1
  <2> QED
    BY <2>2, <2>3
<1>2. ASSUME NEW k \in 0..n, k \in Solved, k < n
      PROVE  k + 1 \in Solved
  <2>1. PICK f : Solves(f, k)
    BY <1>2
  <2>2. f[k] \in S /\ k + 1 \in 1..n
    BY <1>2, <2>1
  <2>3. step[<<f[k], k + 1>>] \in S
    BY <2>2
  <2> DEFINE g == [i \in 0..(k + 1) |-> IF i = k + 1 THEN step[<<f[k], k + 1>>] ELSE f[i]]
  <2>4. g \in [0..(k + 1) -> S] /\ g[0] = base
    BY <2>1, <2>3
  <2>5. ASSUME NEW i \in 1..(k + 1)
        PROVE  g[i] = step[<<g[i - 1], i>>]
    <3>1. CASE i = k + 1
      <4>1. i - 1 = k /\ k \in 0..(k + 1) /\ k # k + 1
        BY <3>1
      <4>2. g[i - 1] = f[k]
        BY <4>1
      <4>3. g[i] = step[<<f[k], k + 1>>]
        BY <3>1
      <4> QED
        BY <3>1, <4>2, <4>3
    <3>2. CASE i # k + 1
      <4>1. i \in 1..k /\ i - 1 \in 0..k
        BY <3>2
      <4>2. g[i] = f[i] /\ g[i - 1] = f[i - 1]
        BY <4>1
      <4> QED
        BY <2>1, <4>1, <4>2
    <3> QED
      BY <3>1, <3>2
  <2>6. Solves(g, k + 1)
    BY <2>4, <2>5
  <2>7. \E h : Solves(h, k + 1)
    BY <2>6
  <2>8. k + 1 \in 0..n
    BY <1>2
  <2> QED
    BY <2>7, <2>8
<1>3. 0..n \subseteq Solved
  <2> HIDE DEF Solved
  <2> QED
    BY <1>1, <1>2, InductionUpTo
<1>4. n \in Solved
  BY <1>3
<1> QED
  BY <1>4
-----------------------------------------------------------------------------
(* The place of a number: the records that a scan copies or delivers are counted by it. *)

RankIn(S, i) == Cardinality({j \in S : j <= i})

(* The places of a set with n numbers are 1 to n. *)
LEMMA RankBounds ==
  ASSUME NEW S \in SUBSET Nat, IsFiniteSet(S), NEW i \in S
  PROVE  RankIn(S, i) \in 1..Cardinality(S)
<1> DEFINE below == {j \in S : j <= i}
<1>1. below \subseteq S /\ below # {}
  OBVIOUS
<1>2. IsFiniteSet(below) /\ Cardinality(below) <= Cardinality(S)
  BY <1>1, FS_Subset
<1>3. Cardinality(below) \in Nat /\ Cardinality(S) \in Nat /\ Cardinality(below) # 0
  BY <1>1, <1>2, FS_CardinalityType, FS_EmptySet
<1> QED
  BY <1>2, <1>3 DEF RankIn

(* A number behind all others is the last of them, and leaves the places of the others. *)
LEMMA RankGrows ==
  ASSUME NEW S \in SUBSET Nat, IsFiniteSet(S), NEW n \in Nat, \A i \in S : i < n
  PROVE  /\ Cardinality(S \cup {n}) = Cardinality(S) + 1
         /\ RankIn(S \cup {n}, n) = Cardinality(S) + 1
         /\ \A i \in S : RankIn(S \cup {n}, i) = RankIn(S, i)
<1>1. n \notin S
  OBVIOUS
<1>2. Cardinality(S \cup {n}) = Cardinality(S) + 1
  BY <1>1, FS_AddElement
<1>3. {j \in S \cup {n} : j <= n} = S \cup {n}
  <2>1. \A j \in S \cup {n} : j <= n
    OBVIOUS
  <2> QED
    BY <2>1, Zenon
<1>4. \A i \in S : {j \in S \cup {n} : j <= i} = {j \in S : j <= i}
  OBVIOUS
<1> QED
  BY <1>2, <1>3, <1>4 DEF RankIn

(* The elements of a sequence at some places, in the order of these. *)
ElementsAt(s, S) ==
  [r \in 1..Cardinality(S) |-> s[CHOOSE i \in S : Cardinality({j \in S : j <= i}) = r]]

LEMMA NoElements ==
  ASSUME NEW s
  PROVE  ElementsAt(s, {}) = <<>>
<1>1. Cardinality({}) = 0
  BY FS_EmptySet
<1> QED
  BY <1>1 DEF ElementsAt

(* A place behind all others adds its element at the end. *)
LEMMA ElementsGrow ==
  ASSUME NEW s, NEW S \in SUBSET Nat, IsFiniteSet(S), NEW n \in Nat, \A i \in S : i < n
  PROVE  ElementsAt(s, S \cup {n}) = Append(ElementsAt(s, S), s[n])
<1> DEFINE T == S \cup {n}
           Nth(U, r) == CHOOSE i \in U : Cardinality({j \in U : j <= i}) = r
           m == Cardinality(S)
<1>1. /\ m \in Nat /\ Cardinality(T) = m + 1 /\ RankIn(T, n) = m + 1
      /\ \A i \in S : RankIn(T, i) = RankIn(S, i)
  BY RankGrows, FS_CardinalityType
<1>2. \A i \in S : RankIn(S, i) \in 1..m
  BY RankBounds
<1>3. \A U : ElementsAt(s, U) = [r \in 1..Cardinality(U) |-> s[Nth(U, r)]]
  BY DEF ElementsAt
<1>4. \A U, r : Nth(U, r) = CHOOSE i : i \in U /\ RankIn(U, i) = r
  BY DEF RankIn
<1>0. /\ \A i : i \in T <=> i \in S \/ i = n
      /\ n \notin S
  OBVIOUS
<1> HIDE DEF m, T, Nth
<1>4a. /\ RankIn(T, n) = m + 1 /\ \A i \in S : RankIn(T, i) # m + 1
       /\ \A r \in 1..m : r # m + 1
  <2>1. \A r \in 1..m : r # m + 1
    BY <1>1
  <2> QED
    BY <1>1, <1>2, <2>1, Zenon
<1>5. Nth(T, m + 1) = n
  <2>1. \A i : (i \in T /\ RankIn(T, i) = m + 1) <=> i = n
    BY <1>0, <1>4a, Zenon
  <2>2. (CHOOSE i : i \in T /\ RankIn(T, i) = m + 1) = (CHOOSE i : i = n)
    BY <2>1
  <2> QED
    BY <1>4, <2>2
<1>6. \A r \in 1..m : Nth(T, r) = Nth(S, r)
  <2> SUFFICES ASSUME NEW r \in 1..m
               PROVE  Nth(T, r) = Nth(S, r)
    OBVIOUS
  <2>1. \A i : (i \in T /\ RankIn(T, i) = r) <=> (i \in S /\ RankIn(S, i) = r)
    BY <1>0, <1>1, <1>4a, Zenon
  <2>2. (CHOOSE i : i \in T /\ RankIn(T, i) = r) = (CHOOSE i : i \in S /\ RankIn(S, i) = r)
    BY <2>1
  <2> QED
    BY <1>4, <2>2
<1>7. ElementsAt(s, T) = [r \in 1..(m + 1) |-> s[Nth(T, r)]]
  BY <1>1, <1>3
<1>8. ElementsAt(s, S) = [r \in 1..m |-> s[Nth(S, r)]]
  BY <1>3 DEF m
<1>9. Append(ElementsAt(s, S), s[n])
        = [r \in 1..(m + 1) |-> IF r = m + 1 THEN s[n] ELSE s[Nth(S, r)]]
  <2>1. ElementsAt(s, S) \in Seq({s[Nth(S, r)] : r \in 1..m}) /\ Len(ElementsAt(s, S)) = m
    BY <1>1, <1>8
  <2> QED
    BY <1>1, <1>8, <2>1
<1>10. \A r \in 1..(m + 1) :
         s[Nth(T, r)] = IF r = m + 1 THEN s[n] ELSE s[Nth(S, r)]
  BY <1>1, <1>5, <1>6
<1> QED
  BY <1>7, <1>9, <1>10 DEF T

NumbersBelow(S, k) == {i \in S : i <= k}

(* What the next number adds to the numbers of a set up to one. *)
LEMMA NumbersUpTo ==
  ASSUME NEW S \in SUBSET Nat, IsFiniteSet(S), NEW k \in Nat, NEW q \in Nat, q = k + 1
  PROVE  /\ q \in S => NumbersBelow(S, q) = NumbersBelow(S, k) \cup {q}
         /\ q \notin S => NumbersBelow(S, q) = NumbersBelow(S, k)
         /\ \A i \in NumbersBelow(S, k) : i < q
         /\ NumbersBelow(S, k) \in SUBSET Nat /\ IsFiniteSet(NumbersBelow(S, k))
<1>1. \A i \in S : i \in Nat
  OBVIOUS
<1>2. \A i \in Nat : /\ (i <= q) <=> (i <= k \/ i = q)
                     /\ i <= k => i < q
  OBVIOUS
<1>3. q <= q
  OBVIOUS
<1>4. {i \in S : i <= k} \subseteq S
  BY Zenon
<1>5. IsFiniteSet({i \in S : i <= k})
  BY <1>4, FS_Subset, Zenon
<1>6. {i \in S : i <= k} \in SUBSET Nat
  BY <1>1, Zenon
<1>7. q \in S => {i \in S : i <= q} = {i \in S : i <= k} \cup {q}
  BY <1>1, <1>2, <1>3, Zenon
<1>8. q \notin S => {i \in S : i <= q} = {i \in S : i <= k}
  BY <1>1, <1>2, Zenon
<1>9. \A i \in {j \in S : j <= k} : i < q
  BY <1>1, <1>2, Zenon
<1> QED
  BY <1>5, <1>6, <1>7, <1>8, <1>9, Zenon DEF NumbersBelow

(* Sequences that agree at the places have the same elements there, which form a sequence. *)
LEMMA ElementsAgree ==
  ASSUME NEW n \in Nat, NEW S \in SUBSET (1..n), NEW E, NEW s, NEW t,
         \A i \in S : s[i] = t[i] /\ s[i] \in E
  PROVE  ElementsAt(s, S) = ElementsAt(t, S) /\ ElementsAt(s, S) \in Seq(E)
<1>1. \A i \in S : i \in Nat /\ 1 <= i /\ i <= n
  OBVIOUS
<1>2. NumbersBelow(S, 0) = {} /\ NumbersBelow(S, n) = S
  <2>1. \A i \in S : ~(i <= 0)
    BY <1>1
  <2> QED
    BY <1>1, <2>1, Zenon DEF NumbersBelow
<1>3. ASSUME NEW k \in Nat, NEW q \in Nat, q = k + 1
      PROVE  /\ q \in S => NumbersBelow(S, q) = NumbersBelow(S, k) \cup {q}
             /\ q \notin S => NumbersBelow(S, q) = NumbersBelow(S, k)
             /\ \A i \in NumbersBelow(S, k) : i < q
             /\ NumbersBelow(S, k) \in SUBSET Nat /\ IsFiniteSet(NumbersBelow(S, k))
  <2>1. IsFiniteSet(1..n) /\ S \subseteq 1..n
    BY FS_Interval
  <2>2. S \in SUBSET Nat /\ IsFiniteSet(S)
    BY <1>1, <2>1, FS_Subset, Zenon
  <2>3. q \in S => NumbersBelow(S, q) = NumbersBelow(S, k) \cup {q}
    BY <1>3, <2>2, NumbersUpTo
  <2>4. q \notin S => NumbersBelow(S, q) = NumbersBelow(S, k)
    BY <1>3, <2>2, NumbersUpTo
  <2>5. \A i \in NumbersBelow(S, k) : i < q
    BY <1>3, <2>2, NumbersUpTo
  <2>6. NumbersBelow(S, k) \in SUBSET Nat /\ IsFiniteSet(NumbersBelow(S, k))
    BY <1>3, <2>2, NumbersUpTo
  <2> QED
    BY <2>3, <2>4, <2>5, <2>6
<1> DEFINE Agree(k) == /\ ElementsAt(s, NumbersBelow(S, k)) = ElementsAt(t, NumbersBelow(S, k))
                       /\ ElementsAt(s, NumbersBelow(S, k)) \in Seq(E)
           Agreed == {k \in 0..n : Agree(k)}
<1>4. 0 \in Agreed
  <2>1. ElementsAt(s, {}) = <<>> /\ ElementsAt(t, {}) = <<>> /\ <<>> \in Seq(E)
    BY NoElements, EmptySeq
  <2>2. 0 \in 0..n
    OBVIOUS
  <2> QED
    BY <1>2, <2>1, <2>2, Zenon
<1>5. ASSUME NEW k \in 0..n, k \in Agreed, k < n
      PROVE  k + 1 \in Agreed
  <2>1. PICK q : q = k + 1
    OBVIOUS
  <2>2. q \in 0..n /\ q \in Nat /\ k \in Nat
    BY <1>5, <2>1
  <2>3. CASE q \in S
    <3>1. /\ NumbersBelow(S, q) = NumbersBelow(S, k) \cup {q} /\ \A i \in NumbersBelow(S, k) : i < q
          /\ NumbersBelow(S, k) \in SUBSET Nat /\ IsFiniteSet(NumbersBelow(S, k))
      BY <1>3, <2>1, <2>2, <2>3
    <3>2. /\ ElementsAt(s, NumbersBelow(S, q)) = Append(ElementsAt(s, NumbersBelow(S, k)), s[q])
          /\ ElementsAt(t, NumbersBelow(S, q)) = Append(ElementsAt(t, NumbersBelow(S, k)), t[q])
      BY <2>2, <3>1, ElementsGrow
    <3>3. s[q] = t[q] /\ s[q] \in E
      BY <2>3
    <3>4. Append(ElementsAt(s, NumbersBelow(S, k)), s[q]) \in Seq(E)
      BY <1>5, <3>3, AppendProperties
    <3>5. Agree(q)
      BY <1>5, <3>2, <3>3, <3>4, Zenon
    <3> QED
      BY <2>1, <2>2, <3>5
  <2>4. CASE q \notin S
    <3>1. NumbersBelow(S, q) = NumbersBelow(S, k)
      BY <1>3, <2>1, <2>2, <2>4
    <3> QED
      BY <1>5, <2>1, <2>2, <3>1
  <2> QED
    BY <2>3, <2>4
<1>6. 0..n \subseteq Agreed
  <2> HIDE DEF Agreed
  <2> QED
    BY <1>4, <1>5, InductionUpTo
<1>7. n \in Agreed
  BY <1>6
<1> QED
  BY <1>2, <1>7, Zenon

(* The first and the last of some places, as SelectInSeq and SelectLastInSeq have them. *)
LEMMA FirstPlace ==
  ASSUME NEW n \in Nat, NEW I \in SUBSET (1..n), NEW r, r = (IF I # {} THEN Min(I) ELSE 0)
  PROVE  \/ I = {} /\ r = 0
         \/ r \in I /\ r \in 1..n /\ (\A i \in I : r <= i) /\ \A i \in 1..(r - 1) : i \notin I
<1>1. CASE I = {}
  BY <1>1
<1>2. CASE I # {}
  <2>1. I \in SUBSET Nat
    OBVIOUS
  <2>2. Min(I) \in I /\ \A i \in I : Min(I) <= i
    BY <1>2, <2>1, MinIsLeast
  <2>3. r = Min(I)
    BY <1>2
  <2>4. r \in I /\ r \in 1..n /\ \A i \in I : r <= i
    BY <2>2, <2>3
  <2>5. \A i \in 1..(r - 1) : ~(r <= i)
    BY <2>4
  <2> QED
    BY <2>4, <2>5
<1> QED
  BY <1>1, <1>2

LEMMA LastPlace ==
  ASSUME NEW n \in Nat, NEW I \in SUBSET (1..n), NEW r, r = (IF I # {} THEN Max(I) ELSE 0)
  PROVE  \/ I = {} /\ r = 0
         \/ r \in I /\ r \in 1..n /\ \A i \in I : i <= r
<1>1. CASE I = {}
  BY <1>1
<1>2. CASE I # {}
  <2>1. I \in SUBSET (0..n)
    OBVIOUS
  <2>2. Max(I) \in I /\ \A i \in I : i <= Max(I)
    BY <1>2, <2>1, MaxIsGreatest
  <2>3. r = Max(I)
    BY <1>2
  <2> QED
    BY <2>2, <2>3
<1> QED
  BY <1>1, <1>2
-----------------------------------------------------------------------------
(* Sequences: as functions, and the pieces of FlattenSeq *)

(* A function on 1..n is a sequence. *)
LEMMA FunctionIsSeq ==
  ASSUME NEW n \in Nat, NEW f, f = [i \in 1..n |-> f[i]]
  PROVE  Len(f) = n /\ DOMAIN f = 1..n /\ f \in Seq({f[i] : i \in 1..n})
<1>1. PICK S : S = {f[i] : i \in 1..n}
  OBVIOUS
<1>2. \A i \in 1..n : f[i] \in S
  BY <1>1
<1>3. [i \in 1..n |-> f[i]] \in Seq(S)
  BY <1>2
<1>4. f \in Seq(S)
  BY <1>3
<1>5. DOMAIN f = 1..n
  OBVIOUS
<1> QED
  BY <1>1, <1>4, <1>5, LenProperties

IsSequence(s) == /\ Len(s) \in Nat
                 /\ DOMAIN s = 1..Len(s)
                 /\ s = [i \in 1..Len(s) |-> s[i]]

LEMMA SequencesJoin ==
  ASSUME NEW s, NEW t, IsSequence(s), IsSequence(t)
  PROVE  /\ IsSequence(s \o t) /\ Len(s \o t) = Len(s) + Len(t)
         /\ \A i \in 1..Len(s) : (s \o t)[i] = s[i]
         /\ \A i \in 1..Len(t) : (s \o t)[Len(s) + i] = t[i]
<1>1. PICK m, n, A, B, S, u :
        /\ m = Len(s) /\ n = Len(t) /\ A = {s[i] : i \in 1..m} /\ B = {t[i] : i \in 1..n}
        /\ S = A \cup B /\ u = s \o t
  OBVIOUS
<1>2. /\ m \in Nat /\ n \in Nat
      /\ s = [i \in 1..m |-> s[i]] /\ t = [i \in 1..n |-> t[i]]
  BY <1>1, Zenon DEF IsSequence
<1>3. s \in Seq(A)
  BY <1>1, <1>2, FunctionIsSeq
<1>4. t \in Seq(B)
  BY <1>1, <1>2, FunctionIsSeq
<1>5. s \in Seq(S) /\ t \in Seq(S)
  BY <1>1, <1>3, <1>4, SeqMonotonic
<1>6. /\ u \in Seq(S) /\ Len(u) = m + n
      /\ \A i \in 1..(m + n) : u[i] = IF i <= m THEN s[i] ELSE t[i - m]
  <2>1. /\ s \o t \in Seq(S) /\ Len(s \o t) = Len(s) + Len(t)
        /\ \A i \in 1..(Len(s) + Len(t)) :
             (s \o t)[i] = IF i <= Len(s) THEN s[i] ELSE t[i - Len(s)]
    BY <1>5, ConcatProperties
  <2> QED
    BY <1>1, <2>1, Zenon
<1>7. /\ \A i \in 1..m : u[i] = s[i]
      /\ \A i \in 1..n : u[m + i] = t[i]
  <2>1. \A i \in 1..m : i \in 1..(m + n) /\ i <= m
    BY <1>2
  <2>2. \A i \in 1..n : m + i \in 1..(m + n) /\ ~(m + i <= m) /\ (m + i) - m = i
    BY <1>2
  <2>3. \A i \in 1..m : u[i] = s[i]
    BY <1>6, <2>1, Zenon
  <2>4. \A i \in 1..n : u[m + i] = t[i]
    <3> SUFFICES ASSUME NEW i \in 1..n
                 PROVE  u[m + i] = t[i]
      OBVIOUS
    <3>1. PICK q : q = m + i
      OBVIOUS
    <3>2. q \in 1..(m + n) /\ ~(q <= m) /\ q - m = i
      BY <2>2, <3>1
    <3> QED
      BY <1>6, <3>1, <3>2
  <2> QED
    BY <2>3, <2>4
<1>8. IsSequence(u)
  <2>1. DOMAIN u = 1..Len(u) /\ Len(u) \in Nat
    BY <1>6, LenProperties
  <2>2. u = [i \in 1..Len(u) |-> u[i]]
    BY <1>6
  <2> QED
    BY <2>1, <2>2 DEF IsSequence
<1> QED
  BY <1>1, <1>6, <1>7, <1>8

LEMMA FlattenSteps ==
  ASSUME NEW T, NEW seqs \in Seq(Seq(T)), Len(seqs) # 0
  PROVE  \E flat \in [1..Len(seqs) -> Seq(T)] :
           /\ flat[1] = seqs[1]
           /\ \A i \in 2..Len(seqs) : flat[i] = flat[i - 1] \o seqs[i]
           /\ FlattenSeq(seqs) = flat[Len(seqs)]
<1> DEFINE n == Len(seqs)
           Joins(f) == [i \in 1..n |-> IF i = 1 THEN seqs[i] ELSE f[i - 1] \o seqs[i]]
           flatten == CHOOSE f : f = Joins(f)
           step == [p \in Seq(T) \X (1..(n - 1)) |-> p[1] \o seqs[p[2] + 1]]
<1>1. n \in Nat /\ n # 0 /\ \A i \in 1..n : seqs[i] \in Seq(T)
  BY LenProperties
<1>2. FlattenSeq(seqs) = flatten[n]
  BY DEF FlattenSeq
<1> HIDE DEF n
<1>3. \E f \in [0..(n - 1) -> Seq(T)] :
        f[0] = seqs[1] /\ \A i \in 1..(n - 1) : f[i] = f[i - 1] \o seqs[i + 1]
  <2>2. \A s \in Seq(T), i \in 1..(n - 1) : step[<<s, i>>] = s \o seqs[i + 1]
    OBVIOUS
  <2> HIDE DEF step
  <2>1. \A s \in Seq(T), i \in 1..(n - 1) : step[<<s, i>>] \in Seq(T)
    <3> SUFFICES ASSUME NEW s \in Seq(T), NEW i \in 1..(n - 1)
                 PROVE  s \o seqs[i + 1] \in Seq(T)
      BY <2>2
    <3>1. seqs[i + 1] \in Seq(T)
      BY <1>1
    <3> QED
      BY <3>1, ConcatProperties
  <2>3. seqs[1] \in Seq(T) /\ n - 1 \in Nat
    BY <1>1
  <2>4. PICK f : Follows(n - 1, Seq(T), seqs[1], step, f)
    <3>1. StepsWithin(n - 1, Seq(T), step)
      BY <2>1 DEF StepsWithin
    <3> QED
      BY <2>3, <3>1, RecursionUpTo
  <2>5. \A i \in 1..(n - 1) : f[i - 1] \in Seq(T)
    BY <2>3, <2>4 DEF Follows
  <2>6. \A i \in 1..(n - 1) : f[i] = f[i - 1] \o seqs[i + 1]
    BY <2>2, <2>4, <2>5, Zenon DEF Follows
  <2> QED
    BY <2>4, <2>6 DEF Follows
<1>4. PICK f \in [0..(n - 1) -> Seq(T)] :
        f[0] = seqs[1] /\ \A i \in 1..(n - 1) : f[i] = f[i - 1] \o seqs[i + 1]
  BY <1>3
<1> DEFINE g == [i \in 1..n |-> f[i - 1]]
<1>5. g = Joins(g)
  <2>1. \A i \in 1..n : f[i - 1] = IF i = 1 THEN seqs[i] ELSE g[i - 1] \o seqs[i]
    <3> SUFFICES ASSUME NEW i \in 1..n
                 PROVE  f[i - 1] = IF i = 1 THEN seqs[i] ELSE g[i - 1] \o seqs[i]
      OBVIOUS
    <3>1. CASE i = 1
      BY <1>4, <3>1
    <3>2. CASE i # 1
      <4> DEFINE j == i - 1
      <4>1. j \in 1..(n - 1) /\ j + 1 = i /\ j \in 1..n
        BY <1>1, <3>2
      <4>2. g[j] = f[j - 1]
        BY <4>1
      <4> HIDE DEF j
      <4>3. f[j] = f[j - 1] \o seqs[i]
        BY <1>4, <4>1
      <4> QED
        BY <3>2, <4>2, <4>3 DEF j
    <3> QED
      BY <3>1, <3>2
  <2> QED
    BY <2>1, Zenon
<1>6. flatten = Joins(flatten)
  BY <1>5
<1> HIDE DEF flatten
<1>7. /\ flatten[1] = seqs[1]
      /\ \A i \in 2..n : flatten[i] = flatten[i - 1] \o seqs[i]
      /\ DOMAIN flatten = 1..n /\ flatten = [i \in 1..n |-> flatten[i]]
  <2>1. \A i \in 1..n : flatten[i] = IF i = 1 THEN seqs[i] ELSE flatten[i - 1] \o seqs[i]
    BY <1>6, Zenon
  <2>2. DOMAIN flatten = 1..n
    BY <1>6, Zenon
  <2>3. flatten = [i \in 1..n |-> flatten[i]]
    BY <1>6, <2>2
  <2>4. 1 \in 1..n /\ \A i \in 2..n : i \in 1..n /\ i # 1
    BY <1>1
  <2> QED
    BY <2>1, <2>2, <2>3, <2>4, Zenon
<1>8. 0..(n - 1) \subseteq {i \in 0..(n - 1) : flatten[i + 1] \in Seq(T)}
  <2> DEFINE S == {i \in 0..(n - 1) : flatten[i + 1] \in Seq(T)}
  <2>1. 0 \in S /\ n - 1 \in Nat
    BY <1>1, <1>7
  <2>2. ASSUME NEW k \in 0..(n - 1), k \in S, k < n - 1
        PROVE  k + 1 \in S
    <3> DEFINE i == k + 2
    <3>1. i \in 2..n /\ i - 1 = k + 1 /\ i = k + 1 + 1 /\ k + 1 \in 0..(n - 1)
      BY <1>1, <2>2
    <3>2. seqs[i] \in Seq(T) /\ flatten[k + 1] \in Seq(T)
      BY <1>1, <2>2, <3>1
    <3> HIDE DEF i
    <3>3. flatten[i] = flatten[k + 1] \o seqs[i]
      BY <1>7, <3>1
    <3>4. flatten[i] \in Seq(T)
      BY <3>2, <3>3, ConcatProperties
    <3> QED
      BY <3>1, <3>4
  <2> HIDE DEF S
  <2>3. 0..(n - 1) \subseteq S
    BY <2>1, <2>2, InductionUpTo
  <2> QED
    BY <2>3 DEF S
<1>9. \A i \in 1..n : flatten[i] \in Seq(T)
  <2> SUFFICES ASSUME NEW i \in 1..n
               PROVE  flatten[i] \in Seq(T)
    OBVIOUS
  <2>1. i - 1 \in 0..(n - 1) /\ i - 1 + 1 = i
    BY <1>1
  <2> QED
    BY <1>8, <2>1
<1>10. flatten \in [1..n -> Seq(T)]
  BY <1>7, <1>9
<1> QED
  BY <1>2, <1>7, <1>10 DEF n

(* Every element of the joined pieces is one of a piece, behind the first of that piece. *)
FromPiece(seqs, n, s, j) ==
  \E i \in 1..n : \E k \in 1..Len(seqs[i]) :
    /\ s[j] = seqs[i][k]
    /\ k > 1 => \E l \in 1..(j - 1) : s[l] = seqs[i][1]
HasElement(s, x) == \E j \in 1..Len(s) : s[j] = x
JoinOf(seqs, n, s) ==
  /\ \A j \in 1..Len(s) : FromPiece(seqs, n, s, j)
  /\ \A i \in 1..n : \A k \in 1..Len(seqs[i]) : HasElement(s, seqs[i][k])

LEMMA PieceJoins ==
  ASSUME NEW T, NEW seqs, NEW s \in Seq(T), NEW i \in Nat, NEW p, p = i - 1, i # 0,
         seqs[i] \in Seq(T), JoinOf(seqs, p, s)
  PROVE  JoinOf(seqs, i, s \o seqs[i])
<1>1. PICK t, piece, m, n : /\ t = s \o seqs[i] /\ piece = seqs[i]
                            /\ m = Len(s) /\ n = Len(piece)
  OBVIOUS
<1>2. /\ m \in Nat /\ n \in Nat /\ Len(t) = m + n
      /\ \A j \in 1..(m + n) : t[j] = IF j <= m THEN s[j] ELSE piece[j - m]
  <2>1. Len(t) = Len(s) + Len(piece)
    BY <1>1, ConcatProperties
  <2>2. \A j \in 1..(Len(s) + Len(piece)) :
          t[j] = IF j <= Len(s) THEN s[j] ELSE piece[j - Len(s)]
    BY <1>1, ConcatProperties
  <2>3. m \in Nat /\ n \in Nat
    BY <1>1, LenProperties
  <2> QED
    BY <1>1, <2>1, <2>2, <2>3, Zenon
<1>3. /\ \A j \in 1..m : t[j] = s[j]
      /\ \A k \in 1..n : m + k \in 1..(m + n) /\ t[m + k] = piece[k]
  <2>1. \A j \in 1..m : j \in 1..(m + n) /\ j <= m
    BY <1>2
  <2>2. \A k \in 1..n : m + k \in 1..(m + n) /\ ~(m + k <= m) /\ m + k - m = k
    BY <1>2
  <2>3. \A j \in 1..m : t[j] = s[j]
    BY <1>2, <2>1, Zenon
  <2>4. \A k \in 1..n : t[m + k] = piece[k]
    <3> SUFFICES ASSUME NEW k \in 1..n
                 PROVE  t[m + k] = piece[k]
      OBVIOUS
    <3>1. PICK q : q = m + k
      OBVIOUS
    <3>2. q \in 1..(m + n) /\ ~(q <= m) /\ q - m = k
      <4>1. m \in Nat /\ n \in Nat
        BY <1>2
      <4> QED
        BY <3>1, <4>1
    <3>3. t[q] = IF q <= m THEN s[q] ELSE piece[q - m]
      BY <1>2, <3>2, Zenon
    <3> QED
      BY <3>1, <3>2, <3>3
  <2> QED
    BY <2>2, <2>3, <2>4, Zenon
<1>4. i \in 1..i /\ p \in Nat /\ \A h \in 1..p : h \in 1..i
  OBVIOUS
<1>5. /\ \A j \in 1..m : FromPiece(seqs, p, s, j)
      /\ \A h \in 1..p : \A k \in 1..Len(seqs[h]) : HasElement(s, seqs[h][k])
  BY <1>1 DEF JoinOf
<1>6. ASSUME NEW j \in 1..Len(t)
      PROVE  FromPiece(seqs, i, t, j)
  <2>1. CASE j <= m
    <3>1. j \in 1..m /\ \A l \in 1..(j - 1) : l \in 1..m
      BY <1>2, <2>1
    <3>2. PICK h \in 1..p : \E k \in 1..Len(seqs[h]) :
            /\ s[j] = seqs[h][k]
            /\ k > 1 => \E l \in 1..(j - 1) : s[l] = seqs[h][1]
      BY <1>5, <3>1 DEF FromPiece
    <3>3. PICK k \in 1..Len(seqs[h]) :
            /\ s[j] = seqs[h][k]
            /\ k > 1 => \E l \in 1..(j - 1) : s[l] = seqs[h][1]
      BY <3>2
    <3>4. t[j] = seqs[h][k]
      BY <1>3, <3>1, <3>3
    <3>5. k > 1 => \E l \in 1..(j - 1) : t[l] = seqs[h][1]
      BY <1>3, <3>1, <3>3
    <3> QED
      BY <1>4, <3>4, <3>5, Zenon DEF FromPiece
  <2>2. CASE ~(j <= m)
    <3>1. PICK k \in 1..n : j = m + k
      <4>1. j - m \in 1..n /\ j = m + (j - m)
        BY <1>2, <2>2
      <4> QED
        BY <4>1
    <3>2. t[j] = seqs[i][k] /\ k \in 1..Len(seqs[i])
      BY <1>1, <1>3, <3>1
    <3>3. k > 1 => \E l \in 1..(j - 1) : t[l] = seqs[i][1]
      <4> SUFFICES ASSUME k > 1
                   PROVE  \E l \in 1..(j - 1) : t[l] = seqs[i][1]
        OBVIOUS
      <4>1. m + 1 \in 1..(j - 1) /\ 1 \in 1..n
        BY <1>2, <3>1
      <4>2. t[m + 1] = seqs[i][1]
        BY <1>1, <1>3, <4>1
      <4> QED
        BY <4>1, <4>2
    <3> QED
      BY <1>4, <3>2, <3>3, Zenon DEF FromPiece
  <2> QED
    BY <2>1, <2>2
<1>7. ASSUME NEW h \in 1..i, NEW k \in 1..Len(seqs[h])
      PROVE  HasElement(t, seqs[h][k])
  <2>1. CASE h = i
    <3>1. k \in 1..n /\ seqs[h][k] = piece[k]
      BY <1>1, <2>1
    <3> QED
      BY <1>2, <1>3, <3>1 DEF HasElement
  <2>2. CASE h # i
    <3>1. h \in 1..p
      BY <2>2
    <3>2. PICK j \in 1..m : s[j] = seqs[h][k]
      BY <1>1, <1>5, <3>1 DEF HasElement
    <3>3. j \in 1..(m + n) /\ t[j] = seqs[h][k]
      BY <1>2, <1>3, <3>2
    <3> QED
      BY <1>2, <3>3 DEF HasElement
  <2> QED
    BY <2>1, <2>2
<1> QED
  BY <1>1, <1>6, <1>7 DEF JoinOf

LEMMA FlattenJoins ==
  ASSUME NEW T, NEW seqs \in Seq(Seq(T))
  PROVE  FlattenSeq(seqs) \in Seq(T) /\ JoinOf(seqs, Len(seqs), FlattenSeq(seqs))
<1> DEFINE n == Len(seqs)
<1>1. n \in Nat /\ \A i \in 1..n : seqs[i] \in Seq(T)
  BY LenProperties
<1>2. <<>> \in Seq(T) /\ Len(<<>>) = 0
  BY EmptySeq
<1>3. JoinOf(seqs, 0, <<>>)
  BY <1>2 DEF JoinOf
<1>4. CASE n = 0
  <2>1. FlattenSeq(seqs) = seqs /\ seqs = <<>>
    BY <1>4, EmptySeq DEF FlattenSeq
  <2> QED
    BY <1>2, <1>3, <1>4, <2>1
<1>5. CASE n # 0
  <2>1. PICK flat \in [1..n -> Seq(T)] :
          /\ flat[1] = seqs[1]
          /\ \A i \in 2..n : flat[i] = flat[i - 1] \o seqs[i]
          /\ FlattenSeq(seqs) = flat[n]
    BY <1>5, FlattenSteps
  <2> HIDE DEF n
  <2> DEFINE S == {i \in 1..n : JoinOf(seqs, i, flat[i])}
  <2>2. 1 \in S
    <3>1. 1 \in 1..n /\ seqs[1] \in Seq(T)
      BY <1>1, <1>5
    <3>2. JoinOf(seqs, 1, <<>> \o seqs[1])
      <4>1. PICK empty : empty = <<>>
        OBVIOUS
      <4>2. 1 \in Nat /\ 0 = 1 - 1 /\ 1 # 0 /\ empty \in Seq(T) /\ JoinOf(seqs, 0, empty)
        BY <1>2, <1>3, <4>1
      <4>3. JoinOf(seqs, 1, empty \o seqs[1])
        BY <3>1, <4>2, PieceJoins
      <4> QED
        BY <4>1, <4>3
    <3>3. <<>> \o seqs[1] = seqs[1]
      BY <3>1, ConcatEmptySeq
    <3> QED
      BY <2>1, <3>1, <3>2, <3>3
  <2>3. ASSUME NEW k \in 1..n, k \in S, k < n
        PROVE  k + 1 \in S
    <3>1. PICK i : i = k + 1
      OBVIOUS
    <3>2. i \in 2..n /\ i \in 1..n /\ k = i - 1 /\ i \in Nat /\ i # 0
      BY <1>1, <2>3, <3>1
    <3>3. flat[k] \in Seq(T) /\ seqs[i] \in Seq(T) /\ JoinOf(seqs, k, flat[k])
      BY <1>1, <2>1, <2>3, <3>2
    <3>4. flat[i] = flat[k] \o seqs[i]
      BY <2>1, <3>2
    <3>5. JoinOf(seqs, i, flat[k] \o seqs[i])
      BY <3>2, <3>3, PieceJoins
    <3> QED
      BY <3>1, <3>2, <3>4, <3>5
  <2> HIDE DEF S
  <2>4. 1..n \subseteq S
    BY <1>1, <1>5, <2>2, <2>3, InductionFromOne
  <2>5. n \in 1..n
    BY <1>1, <1>5
  <2>6. JoinOf(seqs, n, flat[n]) /\ flat[n] \in Seq(T)
    BY <2>1, <2>4, <2>5 DEF S
  <2> QED
    BY <2>1, <2>6 DEF n
<1> QED
  BY <1>4, <1>5

LEMMA FlattenSingles ==
  ASSUME NEW T, NEW s \in Seq(T)
  PROVE  FlattenSeq([i \in DOMAIN s |-> <<s[i]>>]) = s
<1> DEFINE seqs == [i \in DOMAIN s |-> <<s[i]>>]
           n == Len(s)
           UpTo(i) == [j \in 1..i |-> s[j]]
<1>1. n \in Nat /\ DOMAIN s = 1..n /\ \A i \in 1..n : s[i] \in T
  BY LenProperties
<1>2. seqs \in Seq(Seq(T)) /\ Len(seqs) = n
  <2> HIDE DEF n
  <2>1. \A i \in 1..n : <<s[i]>> \in Seq(T)
    BY <1>1
  <2> QED
    BY <1>1, <2>1
<1>3. \A i \in 1..n : seqs[i] = <<s[i]>>
  BY <1>1
<1>4. s = UpTo(n)
  BY <1>1, LenProperties
<1> HIDE DEF seqs, n
<1>5. CASE n = 0
  <2>1. FlattenSeq(seqs) = seqs /\ seqs = <<>> /\ s = <<>>
    BY <1>1, <1>2, <1>5, EmptySeq DEF FlattenSeq, n
  <2> QED
    BY <2>1 DEF seqs
<1>6. CASE n # 0
  <2>1. PICK flat \in [1..n -> Seq(T)] :
          /\ flat[1] = seqs[1]
          /\ \A i \in 2..n : flat[i] = flat[i - 1] \o seqs[i]
          /\ FlattenSeq(seqs) = flat[n]
    BY <1>2, <1>6, FlattenSteps
  <2> DEFINE S == {i \in 1..n : flat[i] = UpTo(i)}
  <2>2. 1 \in S
    <3>1. 1 \in 1..n /\ flat[1] = <<s[1]>>
      BY <1>1, <1>3, <1>6, <2>1
    <3>2. <<s[1]>> = UpTo(1)
      OBVIOUS
    <3> QED
      BY <3>1, <3>2
  <2>3. ASSUME NEW k \in 1..n, k \in S, k < n
        PROVE  k + 1 \in S
    <3>1. PICK i : i = k + 1
      OBVIOUS
    <3>2. i \in 2..n /\ i \in 1..n /\ k = i - 1 /\ k \in Nat
      BY <1>1, <2>3, <3>1
    <3>3. flat[i] = flat[k] \o seqs[i]
      BY <2>1, <3>2
    <3>4. flat[i] = UpTo(k) \o <<s[i]>>
      BY <1>3, <2>3, <3>2, <3>3
    <3>5. UpTo(k) \o <<s[k + 1]>> = UpTo(k + 1)
      <4>1. \A j \in 1..k : s[j] \in T
        BY <1>1, <3>2
      <4>2. UpTo(k) \in Seq(T) /\ Len(UpTo(k)) = k
        BY <3>2, <4>1
      <4> QED
        BY <3>2, <4>2
    <3> QED
      BY <3>1, <3>2, <3>4, <3>5
  <2> HIDE DEF S
  <2>4. 1..n \subseteq S
    BY <1>1, <1>6, <2>2, <2>3, InductionFromOne
  <2>5. n \in 1..n
    BY <1>1, <1>6
  <2>6. flat[n] = UpTo(n)
    BY <2>4, <2>5 DEF S
  <2>7. FlattenSeq(seqs) = s
    BY <1>4, <2>1, <2>6
  <2> QED
    BY <2>7 DEF seqs
<1> QED
  BY <1>5, <1>6
=============================================================================
