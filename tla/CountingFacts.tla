---------------------------- MODULE CountingFacts ----------------------------
(***************************************************************************)
(* Facts about natural numbers and sequences that several proofs need.     *)
(* The first takes the place of induction: it follows from the             *)
(* cardinalities of intervals.                                             *)
(***************************************************************************)
EXTENDS Integers, Sequences, FiniteSetTheorems, SequenceTheorems, TLAPS

\* A nonempty set of numbers up to n has a greatest element: the numbers it
\* has an upper neighbour for are an interval, whose size is that element.
LEMMA Greatest ==
  ASSUME NEW n \in Nat, NEW T \in SUBSET (1 .. n), T # {}
  PROVE  \E m \in T : \A k \in T : k <= m
<1> DEFINE Below == {u \in 1 .. n : \E k \in T : u <= k}
           c == Cardinality(Below)
<1>1. /\ IsFiniteSet(1 .. n) /\ Cardinality(1 .. n) = n
      /\ IsFiniteSet(Below) /\ c \in Nat /\ c <= n
  <2>1. IsFiniteSet(1 .. n) /\ Cardinality(1 .. n) = n
    BY FS_Interval
  <2>. QED BY <2>1, FS_Subset, FS_CardinalityType
<1>2. \A u \in Below, v \in 1 .. n : v <= u => v \in Below
  OBVIOUS
<1>3. \A i \in Nat : IsFiniteSet(1 .. i) /\ Cardinality(1 .. i) = i
  BY FS_Interval
<1>4. c + 1 \notin Below
  <2> SUFFICES ASSUME c + 1 \in Below PROVE FALSE
    OBVIOUS
  <2> HIDE DEF c
  <2>1. 1 .. c + 1 \in SUBSET Below /\ c + 1 \in Nat
    BY <1>1, <1>2
  <2>2. Cardinality(1 .. c + 1) <= Cardinality(Below)
    BY <2>1, <1>1, FS_Subset
  <2>. QED BY <2>1, <2>2, <1>1, <1>3 DEF c
<1>5. Below \in SUBSET (1 .. c)
  <2> HIDE DEF c
  <2>. QED BY <1>1, <1>2, <1>4
<1>6. 1 .. c = Below
  <2>1. IsFiniteSet(1 .. c) /\ Cardinality(1 .. c) = Cardinality(Below)
    BY <1>1, <1>3
  <2> HIDE DEF c, Below
  <2>. QED BY <2>1, <1>5, FS_Subset
<1>7. T \subseteq Below
  OBVIOUS
<1>8. c \in Below
  <2> HIDE DEF c, Below
  <2>1. \E k : k \in 1 .. c
    BY <1>6, <1>7
  <2>2. c \in 1 .. c
    BY <2>1, <1>1
  <2>. QED BY <2>2, <1>6
<1>9. PICK k \in T : c <= k
  BY <1>8
<1>. QED
  <2> HIDE DEF c, Below
  <2>. QED BY <1>9, <1>7, <1>6, <1>1

\* A set that holds 0, and the successor of each of its numbers below n,
\* holds all of them.
LEMMA Reaches ==
  ASSUME NEW n \in Nat, NEW T, 0 \in T,
         \A j \in 0 .. n - 1 : j \in T => j + 1 \in T
  PROVE  0 .. n \subseteq T
<1> DEFINE P == {m \in 1 .. n : 0 .. m \subseteq T}
<1>1. CASE P = {}
  <2>1. n = 0
    <3> SUFFICES ASSUME n >= 1 PROVE 1 \in P
      BY <1>1
    <3>. QED OBVIOUS
  <2>. QED BY <2>1
<1>2. CASE P # {}
  <2>1. PICK m \in P : \A j \in P : j <= m
    <3>1. P \in SUBSET (1 .. n)
      OBVIOUS
    <3> HIDE DEF P
    <3>. QED BY <1>2, <3>1, Greatest
  <2>2. m \in 1 .. n /\ 0 .. m \subseteq T
    BY <2>1
  <2>3. m = n
    <3> SUFFICES ASSUME m < n PROVE m + 1 \in P
      BY <2>1, <2>2
    <3>1. m + 1 \in T
      BY <2>2
    <3>. QED BY <2>2, <3>1
  <2>. QED BY <2>2, <2>3
<1>. QED BY <1>1, <1>2

LEMMA Extended ==
  ASSUME NEW S, NEW a \in Seq(S), NEW x \in S
  PROVE  /\ Append(a, x) \in Seq(S)
         /\ DOMAIN Append(a, x) = DOMAIN a \cup {Len(a) + 1}
         /\ Len(a) + 1 \notin DOMAIN a
         /\ \A n \in DOMAIN a : Append(a, x)[n] = a[n]
         /\ Append(a, x)[Len(a) + 1] = x
<1>1. /\ Len(a) \in Nat /\ DOMAIN a = 1 .. Len(a)
  BY LenProperties
<1>2. /\ Append(a, x) \in Seq(S) /\ Len(Append(a, x)) = Len(a) + 1
      /\ \A i \in 1 .. Len(a) : Append(a, x)[i] = a[i]
      /\ Append(a, x)[Len(a) + 1] = x
  OBVIOUS
<1>3. DOMAIN Append(a, x) = 1 .. Len(a) + 1
  BY <1>2, LenProperties
<1>. QED BY <1>1, <1>2, <1>3

LEMMA FunctionIsSeq ==
  ASSUME NEW k \in Nat, NEW S, NEW a \in [1 .. k -> S]
  PROVE  a \in Seq(S) /\ Len(a) = k
<1>1. a \in Seq(S)
  OBVIOUS
<1>2. Len(a) \in Nat /\ 1 .. Len(a) = 1 .. k
  BY <1>1, LenProperties
<1>. QED BY <1>1, <1>2

\* A sequence without repeats has as many elements as it is long.
LEMMA DistinctCount ==
  ASSUME NEW S, NEW s \in Seq(S),
         \A i, j \in DOMAIN s : s[i] = s[j] => i = j
  PROVE  LET E == {s[i] : i \in DOMAIN s}
         IN IsFiniteSet(E) /\ Cardinality(E) = Len(s)
<1> DEFINE E == {s[i] : i \in DOMAIN s}
<1>1. Len(s) \in Nat /\ DOMAIN s = 1 .. Len(s)
  BY LenProperties
<1>2. IsFiniteSet(1 .. Len(s)) /\ Cardinality(1 .. Len(s)) = Len(s)
  BY <1>1, FS_Interval
<1>3. s \in Bijection(1 .. Len(s), E)
  <2>1. s \in [1 .. Len(s) -> E]
    BY <1>1
  <2>2. \A x \in E : \E n \in 1 .. Len(s) : s[n] = x
    BY <1>1
  <2> HIDE DEF E
  <2>. QED BY <1>1, <2>1, <2>2 DEF Bijection, Injection, Surjection, IsInjective
<1>4. ExistsBijection(1 .. Len(s), E)
  BY <1>3 DEF ExistsBijection
<1>. QED BY <1>2, <1>4, FS_Bijection

\* A sequence of distinct members of S, as long as S is large, holds them all.
LEMMA Permutation ==
  ASSUME NEW S, IsFiniteSet(S), NEW s \in [1 .. Cardinality(S) -> S],
         \A i, j \in 1 .. Cardinality(S) : i # j => s[i] # s[j]
  PROVE  /\ s \in Seq(S) /\ DOMAIN s = 1 .. Cardinality(S) /\ Cardinality(S) \in Nat
         /\ {s[i] : i \in DOMAIN s} = S
<1> DEFINE c == Cardinality(S)
           E == {s[i] : i \in DOMAIN s}
<1>1. c \in Nat
  BY FS_CardinalityType
<1>2. s \in Seq(S) /\ Len(s) = c /\ DOMAIN s = 1 .. c
  <2> HIDE DEF c
  <2>. QED BY <1>1, FunctionIsSeq DEF c
<1>3. \A i, j \in DOMAIN s : s[i] = s[j] => i = j
  BY <1>2
<1>4. Cardinality(E) = c
  BY <1>2, <1>3, DistinctCount
<1>5. E \in SUBSET S
  OBVIOUS
<1>6. E = S
  <2> HIDE DEF E
  <2>. QED BY <1>4, <1>5, FS_Subset
<1>. QED BY <1>1, <1>2, <1>6

\* The union of the finite sets a sequence lists is finite.
LEMMA ListedUnion ==
  ASSUME NEW n \in Nat, NEW T, NEW f \in [1 .. n -> T],
         \A i \in 1 .. n : IsFiniteSet(f[i])
  PROVE  IsFiniteSet(UNION {f[i] : i \in 1 .. n})
<1> DEFINE S == {f[i] : i \in 1 .. n}
<1>1. f \in Surjection(1 .. n, S)
  <2>1. f \in [1 .. n -> S]
    OBVIOUS
  <2>2. \A x \in S : \E i \in 1 .. n : f[i] = x
    OBVIOUS
  <2> HIDE DEF S
  <2>. QED BY <2>1, <2>2 DEF Surjection
<1>2. IsFiniteSet(S)
  <2>1. IsFiniteSet(1 .. n)
    BY FS_Interval
  <2> HIDE DEF S
  <2>. QED BY <1>1, <2>1, FS_Surjection
<1>. QED BY <1>2, FS_UNION

\* What lies before a position does not depend on what is appended.
LEMMA BeforeAppend ==
  ASSUME NEW S, NEW s \in Seq(S), NEW x \in S, NEW n \in 0 .. Len(s)
  PROVE  /\ SubSeq(Append(s, x), 1, n) = SubSeq(s, 1, n)
         /\ n = Len(s) => SubSeq(Append(s, x), 1, n) = s
<1>1. /\ Append(s, x) \in Seq(S) /\ Len(Append(s, x)) = Len(s) + 1 /\ Len(s) \in Nat
      /\ \A i \in 1 .. Len(s) : Append(s, x)[i] = s[i]
  BY LenProperties, AppendProperties
<1>2. n \in 0 .. Len(Append(s, x)) /\ n \in Nat
  BY <1>1
<1>3. /\ SubSeq(Append(s, x), 1, n) = [i \in 1 .. n |-> Append(s, x)[i]]
      /\ SubSeq(s, 1, n) = [i \in 1 .. n |-> s[i]]
  <2> DEFINE t == Append(s, x)
  <2> HIDE DEF t
  <2>1. SubSeq(t, 1, n) = Restrict(t, 1 .. n)
    BY <1>1, <1>2, SubSeqRestrict DEF t
  <2>2. SubSeq(s, 1, n) = Restrict(s, 1 .. n)
    BY SubSeqRestrict
  <2>. QED BY <2>1, <2>2 DEF Restrict, t
<1>4. [i \in 1 .. n |-> Append(s, x)[i]] = [i \in 1 .. n |-> s[i]]
  BY <1>1, <1>2
<1>. QED BY <1>3, <1>4, SubSeqFull

\* The sequence up to a position.
LEMMA Prefix ==
  ASSUME NEW S, NEW s \in Seq(S), NEW n \in 0 .. Len(s)
  PROVE  /\ SubSeq(s, 1, n) \in Seq(S) /\ DOMAIN SubSeq(s, 1, n) = 1 .. n
         /\ \A i \in 1 .. n : SubSeq(s, 1, n)[i] = s[i]
<1>1. SubSeq(s, 1, n) = [i \in 1 .. n |-> s[i]]
  BY SubSeqRestrict DEF Restrict
<1>2. n \in Nat /\ \A i \in 1 .. n : s[i] \in S
  BY LenProperties, ElementOfSeq
<1>3. [i \in 1 .. n |-> s[i]] \in [1 .. n -> S]
  BY <1>2
<1>. QED BY <1>1, <1>2, <1>3, FunctionIsSeq
=============================================================================
