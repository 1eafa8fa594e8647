----------------------------- MODULE StdioProofs -----------------------------
(***************************************************************************)
(* Machine-checked proofs about Stdio: for any registry, any configuration *)
(* files that change at any moment, any process tables and any number of   *)
(* scans, the properties that TLC checks on MCStdio.                       *)
(***************************************************************************)
EXTENDS Stdio, CountingFacts, NaturalsInduction, TLAPS

-----------------------------------------------------------------------------
(* Pieces joined: induction over their number is by Reaches.               *)

\* Joining two; the provers do better not to see it as what it is.
Cat(s, t) == s \o t

Unfolds(f, pieces, n) == f[0] = << >> /\ \A k \in 1 .. n : f[k] = Cat(f[k - 1], pieces[k])

LEMMA JoinDef ==
  ASSUME NEW S, NEW pieces \in Seq(Seq(S))
  PROVE  \E f \in [0 .. Len(pieces) -> Seq(S)] :
            Unfolds(f, pieces, Len(pieces)) /\ Join(pieces) = f[Len(pieces)]
<1> DEFINE L == Len(pieces)
           T == {n \in 0 .. L : \E f \in [0 .. n -> Seq(S)] : Unfolds(f, pieces, n)}
<1>0. L \in Nat /\ \A n \in 1 .. L : pieces[n] \in Seq(S)
  BY LenProperties
<1> HIDE DEF L
<1>1. 0 \in T
  <2>1. PICK f : f = [n \in 0 .. 0 |-> << >>]
    OBVIOUS
  <2>2. f \in [0 .. 0 -> Seq(S)] /\ Unfolds(f, pieces, 0)
    BY <2>1, EmptySeq DEF Unfolds
  <2>. QED BY <1>0, <2>2
<1>2. ASSUME NEW n \in 0 .. L - 1, n \in T PROVE n + 1 \in T
  <2>1. PICK f \in [0 .. n -> Seq(S)] : Unfolds(f, pieces, n)
    BY <1>2
  <2> DEFINE g == [k \in 0 .. n + 1 |-> IF k = n + 1 THEN Cat(f[n], pieces[n + 1]) ELSE f[k]]
  <2>2. n \in Nat /\ n + 1 \in 0 .. L /\ f[n] \in Seq(S) /\ pieces[n + 1] \in Seq(S)
    BY <1>0
  <2>3. Cat(f[n], pieces[n + 1]) \in Seq(S)
    BY <2>2, ConcatProperties DEF Cat
  <2>4. g \in [0 .. n + 1 -> Seq(S)]
    BY <2>2, <2>3
  <2>5. Unfolds(g, pieces, n + 1)
    <3>1. g[0] = << >>
      BY <2>1, <2>2 DEF Unfolds
    <3>2. ASSUME NEW k \in 1 .. n + 1 PROVE g[k] = Cat(g[k - 1], pieces[k])
      <4>1. CASE k = n + 1
        <5>1. g[k] = Cat(f[n], pieces[n + 1]) /\ g[k - 1] = f[n]
          BY <2>2, <4>1
        <5>. QED BY <4>1, <5>1
      <4>2. CASE k \in 1 .. n
        <5>1. g[k] = f[k] /\ g[k - 1] = f[k - 1]
          BY <2>2, <4>2
        <5>. QED BY <2>1, <4>2, <5>1 DEF Unfolds
      <4>. QED BY <2>2, <4>1, <4>2
    <3>. QED BY <3>1, <3>2 DEF Unfolds
  <2>. QED BY <2>2, <2>4, <2>5
<1>3. L \in T
  <2> HIDE DEF T
  <2>1. L \in Nat
    BY <1>0
  <2>2. \A n \in 0 .. L - 1 : n \in T => n + 1 \in T
    BY <1>2
  <2>3. 0 .. L \subseteq T
    BY <2>1, <2>2, <1>1, Reaches
  <2>. QED BY <2>1, <2>3
<1>4. PICK f \in [0 .. L -> Seq(S)] : Unfolds(f, pieces, L)
  BY <1>3
<1>5. f = [n \in 0 .. L |-> IF n = 0 THEN << >> ELSE Cat(f[n - 1], pieces[n])]
  BY <1>0, <1>4 DEF Unfolds
<1>6. PICK g : /\ g = [n \in 0 .. L |-> IF n = 0 THEN << >> ELSE Cat(g[n - 1], pieces[n])]
               /\ Join(pieces) = g[L]
  BY <1>5, Zenon DEF Join, L, Cat
<1>7. Unfolds(g, pieces, L)
  BY <1>0, <1>6 DEF Unfolds
<1> DEFINE P == {n \in 0 .. L : g[n] \in Seq(S)}
<1>8. 0 \in P
  <2>1. g[0] = << >> /\ << >> \in Seq(S) /\ 0 \in 0 .. L
    BY <1>0, <1>7, EmptySeq DEF Unfolds
  <2>. QED BY <2>1
<1>9. ASSUME NEW n \in 0 .. L - 1, n \in P PROVE n + 1 \in P
  <2>1. n + 1 \in 1 .. L /\ (n + 1) - 1 = n /\ g[n] \in Seq(S)
    BY <1>0, <1>9
  <2>2. g[n + 1] = Cat(g[n], pieces[n + 1])
    BY <1>7, <2>1 DEF Unfolds
  <2>3. Cat(g[n], pieces[n + 1]) \in Seq(S)
    BY <1>0, <2>1, ConcatProperties DEF Cat
  <2>. QED BY <1>0, <2>1, <2>2, <2>3
<1>10. 0 .. L \subseteq P
  <2> HIDE DEF P
  <2>. QED BY <1>0, <1>8, <1>9, Reaches
<1>11. g \in [0 .. L -> Seq(S)]
  BY <1>6, <1>10
<1>. QED BY <1>6, <1>7, <1>11 DEF L

LEMMA Concat ==
  ASSUME NEW S, NEW s \in Seq(S), NEW t \in Seq(S)
  PROVE  /\ s \o t \in Seq(S) /\ Len(s \o t) = Len(s) + Len(t)
         /\ Len(s) \in Nat /\ Len(t) \in Nat
         /\ DOMAIN s = 1 .. Len(s) /\ DOMAIN t = 1 .. Len(t)
         /\ DOMAIN (s \o t) = 1 .. Len(s) + Len(t)
         /\ \A i \in DOMAIN s : (s \o t)[i] = s[i]
         /\ \A i \in DOMAIN t : (s \o t)[Len(s) + i] = t[i]
         /\ \A i \in DOMAIN (s \o t) : i \notin DOMAIN s => i - Len(s) \in DOMAIN t
         /\ Range(s \o t) = Range(s) \cup Range(t)
<1>1. /\ Len(s) \in Nat /\ Len(t) \in Nat
      /\ DOMAIN s = 1 .. Len(s) /\ DOMAIN t = 1 .. Len(t)
  BY LenProperties
<1>2. /\ s \o t \in Seq(S) /\ Len(s \o t) = Len(s) + Len(t)
      /\ \A i \in 1 .. Len(s) + Len(t) :
           (s \o t)[i] = IF i <= Len(s) THEN s[i] ELSE t[i - Len(s)]
  BY ConcatProperties
<1> DEFINE u == s \o t
           m == Len(s)
           n == Len(t)
<1>3. DOMAIN u = 1 .. m + n
  BY <1>2, LenProperties
<1> HIDE DEF u, m, n
<1>4. m \in Nat /\ n \in Nat /\ DOMAIN s = 1 .. m /\ DOMAIN t = 1 .. n
      /\ \A i \in 1 .. m + n : u[i] = IF i <= m THEN s[i] ELSE t[i - m]
  BY <1>1, <1>2 DEF u, m, n
<1>5. /\ \A i \in DOMAIN s : u[i] = s[i] /\ i \in DOMAIN u
      /\ \A i \in DOMAIN t : u[m + i] = t[i] /\ m + i \in DOMAIN u
      /\ \A i \in DOMAIN u : i \notin DOMAIN s => i - m \in DOMAIN t /\ u[i] = t[i - m]
  BY <1>3, <1>4
<1>6. Range(u) = Range(s) \cup Range(t)
  <2>1. ASSUME NEW x \in Range(u) PROVE x \in Range(s) \cup Range(t)
    BY <1>5 DEF Range
  <2>2. ASSUME NEW x \in Range(s) PROVE x \in Range(u)
    BY <1>5 DEF Range
  <2>3. ASSUME NEW x \in Range(t) PROVE x \in Range(u)
    BY <1>5 DEF Range
  <2>. QED BY <2>1, <2>2, <2>3
<1>. QED BY <1>2, <1>3, <1>4, <1>5, <1>6 DEF u, m, n

LEMMA JoinFacts ==
  ASSUME NEW S, NEW pieces \in Seq(Seq(S))
  PROVE  /\ Join(pieces) \in Seq(S)
         /\ Range(Join(pieces)) = UNION {Range(pieces[i]) : i \in DOMAIN pieces}
<1> DEFINE L == Len(pieces)
<1>1. L \in Nat /\ DOMAIN pieces = 1 .. L /\ \A n \in 1 .. L : pieces[n] \in Seq(S)
  BY LenProperties
<1>2. PICK f \in [0 .. L -> Seq(S)] : Unfolds(f, pieces, L) /\ Join(pieces) = f[L]
  BY JoinDef
<1> HIDE DEF L
<1> DEFINE T == {n \in 0 .. L : Range(f[n]) = UNION {Range(pieces[i]) : i \in 1 .. n}}
<1>3. 0 \in T
  BY <1>1, <1>2 DEF Unfolds, Range
<1>4. ASSUME NEW n \in 0 .. L - 1, n \in T PROVE n + 1 \in T
  <2>1. n + 1 \in 1 .. L /\ n + 1 \in 0 .. L /\ (n + 1) - 1 = n /\ n \in 0 .. L
    BY <1>1
  <2>2. f[n + 1] = f[n] \o pieces[n + 1]
    BY <1>2, <2>1 DEF Unfolds, Cat
  <2>3. Range(f[n + 1]) = Range(f[n]) \cup Range(pieces[n + 1])
    BY <1>1, <1>2, <2>1, <2>2, Concat
  <2>4. 1 .. n + 1 = (1 .. n) \cup {n + 1}
    BY <2>1
  <2>. QED BY <1>4, <2>1, <2>3, <2>4
<1>5. L \in T
  <2> HIDE DEF T
  <2>1. L \in Nat
    BY <1>1
  <2>2. \A n \in 0 .. L - 1 : n \in T => n + 1 \in T
    BY <1>4
  <2>3. 0 .. L \subseteq T
    BY <2>1, <2>2, <1>3, Reaches
  <2>. QED BY <2>1, <2>3
<1>. QED BY <1>1, <1>2, <1>5

\* Pieces without repeats that share nothing join to a sequence without them.
LEMMA JoinDistinct ==
  ASSUME NEW S, NEW pieces \in Seq(Seq(S)),
         \A i, j \in DOMAIN pieces : \A a \in DOMAIN pieces[i], b \in DOMAIN pieces[j] :
            pieces[i][a] = pieces[j][b] => i = j /\ a = b
  PROVE  \A i, j \in DOMAIN Join(pieces) : Join(pieces)[i] = Join(pieces)[j] => i = j
<1> DEFINE L == Len(pieces)
<1>1. L \in Nat /\ DOMAIN pieces = 1 .. L /\ \A n \in 1 .. L : pieces[n] \in Seq(S)
  BY LenProperties
<1>2. PICK f \in [0 .. L -> Seq(S)] : Unfolds(f, pieces, L) /\ Join(pieces) = f[L]
  BY JoinDef
<1> HIDE DEF L
<1> DEFINE T == {n \in 0 .. L : /\ Range(f[n]) \subseteq UNION {Range(pieces[i]) : i \in 1 .. n}
                               /\ \A i, j \in DOMAIN f[n] : f[n][i] = f[n][j] => i = j}
<1>3. 0 \in T
  BY <1>1, <1>2 DEF Unfolds, Range
<1>4. ASSUME NEW n \in 0 .. L - 1, n \in T PROVE n + 1 \in T
  <2> DEFINE s == f[n]
             t == pieces[n + 1]
             u == f[n + 1]
  <2>1. n + 1 \in 1 .. L /\ n + 1 \in 0 .. L /\ (n + 1) - 1 = n /\ n \in 0 .. L
    BY <1>1
  <2>2. u = s \o t /\ s \in Seq(S) /\ t \in Seq(S)
    BY <1>1, <1>2, <2>1 DEF Unfolds, Cat
  <2>3. 1 .. n + 1 = (1 .. n) \cup {n + 1}
    BY <2>1
  <2>4. /\ Range(u) = Range(s) \cup Range(t)
        /\ \A i \in DOMAIN u : \/ i \in DOMAIN s /\ u[i] = s[i]
                               \/ i \notin DOMAIN s /\ i - Len(s) \in DOMAIN t
                                  /\ u[i] = t[i - Len(s)] /\ i \in Int
        /\ Len(s) \in Nat
    <3> HIDE DEF s, t, u
    <3>1. /\ Range(s \o t) = Range(s) \cup Range(t) /\ Len(s) \in Nat
          /\ DOMAIN (s \o t) = 1 .. Len(s) + Len(t) /\ Len(t) \in Nat
          /\ \A i \in DOMAIN s : (s \o t)[i] = s[i]
          /\ \A i \in DOMAIN t : (s \o t)[Len(s) + i] = t[i]
          /\ \A i \in DOMAIN (s \o t) : i \notin DOMAIN s => i - Len(s) \in DOMAIN t
      BY <2>2, Concat
    <3>2. \A i \in Int : Len(s) + (i - Len(s)) = i
      BY <3>1
    <3>. QED BY <2>2, <3>1, <3>2
  <2>5. Range(s) \subseteq UNION {Range(pieces[i]) : i \in 1 .. n}
    BY <1>4
  <2>6. Range(u) \subseteq UNION {Range(pieces[i]) : i \in 1 .. n + 1}
    BY <2>3, <2>4, <2>5
  <2>7. ASSUME NEW a \in DOMAIN s, NEW b \in DOMAIN t, s[a] = t[b] PROVE FALSE
    <3>1. s[a] \in Range(s)
      BY DEF Range
    <3>2. PICK i \in 1 .. n : s[a] \in Range(pieces[i])
      BY <2>5, <3>1
    <3>3. PICK c \in DOMAIN pieces[i] : pieces[i][c] = s[a]
      BY <3>2 DEF Range
    <3>4. i \in DOMAIN pieces /\ n + 1 \in DOMAIN pieces /\ i # n + 1
      BY <1>1, <2>1
    <3>. QED BY <2>7, <3>3, <3>4
  <2>8. ASSUME NEW i \in DOMAIN u, NEW j \in DOMAIN u, u[i] = u[j] PROVE i = j
    <3>1. CASE i \in DOMAIN s /\ j \in DOMAIN s
      BY <1>4, <2>4, <2>8, <3>1
    <3>2. CASE i \notin DOMAIN s /\ j \notin DOMAIN s
      <4>1. i - Len(s) = j - Len(s)
        <5>1. n + 1 \in DOMAIN pieces
          BY <1>1, <2>1
        <5>. QED BY <2>4, <2>8, <3>2, <5>1
      <4>. QED BY <2>4, <3>2, <4>1
    <3>3. CASE i \in DOMAIN s /\ j \notin DOMAIN s
      BY <2>4, <2>7, <2>8, <3>3
    <3>4. CASE i \notin DOMAIN s /\ j \in DOMAIN s
      BY <2>4, <2>7, <2>8, <3>4
    <3>. QED BY <3>1, <3>2, <3>3, <3>4
  <2>. QED BY <2>1, <2>6, <2>8
<1>5. L \in T
  <2> HIDE DEF T
  <2>1. L \in Nat
    BY <1>1
  <2>2. \A n \in 0 .. L - 1 : n \in T => n + 1 \in T
    BY <1>4
  <2>3. 0 .. L \subseteq T
    BY <2>1, <2>2, <1>3, Reaches
  <2>. QED BY <2>1, <2>3
<1>. QED BY <1>2, <1>5

\* A sequence with a change made to each element.
Each(g, s) == [k \in DOMAIN s |-> g[s[k]]]

\* Joining commutes with it.
LEMMA JoinMap ==
  ASSUME NEW S, NEW U, NEW g \in [S -> U], NEW pieces \in Seq(Seq(S)), NEW images \in Seq(Seq(U)),
         Len(images) = Len(pieces),
         \A i \in DOMAIN pieces : images[i] = Each(g, pieces[i])
  PROVE  Join(images) = Each(g, Join(pieces))
<1> DEFINE L == Len(pieces)
<1>1. /\ L \in Nat /\ DOMAIN pieces = 1 .. L /\ \A n \in 1 .. L : pieces[n] \in Seq(S)
      /\ DOMAIN images = 1 .. L /\ \A n \in 1 .. L : images[n] \in Seq(U)
  BY LenProperties
<1>2. PICK f \in [0 .. L -> Seq(S)] : Unfolds(f, pieces, L) /\ Join(pieces) = f[L]
  BY JoinDef
<1>3. PICK h \in [0 .. L -> Seq(U)] : Unfolds(h, images, L) /\ Join(images) = h[L]
  BY JoinDef
<1> HIDE DEF L
<1> DEFINE T == {n \in 0 .. L : h[n] = Each(g, f[n])}
<1>4. 0 \in T
  <2>1. f[0] = << >> /\ h[0] = << >> /\ 0 \in 0 .. L
    BY <1>1, <1>2, <1>3 DEF Unfolds
  <2>2. Each(g, << >>) = << >>
    BY DEF Each
  <2>. QED BY <2>1, <2>2
<1>5. ASSUME NEW n \in 0 .. L - 1, n \in T PROVE n + 1 \in T
  <2> DEFINE s == f[n]
             t == pieces[n + 1]
             x == h[n]
             y == images[n + 1]
  <2>1. n + 1 \in 1 .. L /\ n + 1 \in 0 .. L /\ (n + 1) - 1 = n /\ n \in 0 .. L
    BY <1>1
  <2>2. /\ f[n + 1] = s \o t /\ s \in Seq(S) /\ t \in Seq(S)
        /\ h[n + 1] = x \o y /\ x \in Seq(U) /\ y \in Seq(U)
    BY <1>1, <1>2, <1>3, <2>1 DEF Unfolds, Cat
  <2>3. x = [k \in DOMAIN s |-> g[s[k]]] /\ y = [k \in DOMAIN t |-> g[t[k]]]
    BY <1>1, <1>5, <2>1 DEF Each
  <2> HIDE DEF s, t, x, y
  <2>4. x \o y = [k \in DOMAIN (s \o t) |-> g[(s \o t)[k]]]
    <3> DEFINE m == Len(s)
               r == Len(t)
    <3>1. /\ m \in Nat /\ r \in Nat /\ DOMAIN s = 1 .. m /\ DOMAIN t = 1 .. r
          /\ DOMAIN (s \o t) = 1 .. m + r
          /\ \A i \in 1 .. m : (s \o t)[i] = s[i]
          /\ \A i \in 1 .. r : (s \o t)[m + i] = t[i]
      BY <2>2, Concat
    <3>2. Len(x) = m /\ Len(y) = r
      BY <2>2, <2>3, <3>1, LenProperties
    <3>3. /\ x \o y \in Seq(U) /\ DOMAIN (x \o y) = 1 .. m + r
          /\ \A i \in 1 .. m : (x \o y)[i] = x[i]
          /\ \A i \in 1 .. r : (x \o y)[m + i] = y[i]
      <4>1. DOMAIN x = 1 .. m /\ DOMAIN y = 1 .. r
        BY <2>3, <3>1
      <4>2. /\ x \o y \in Seq(U) /\ DOMAIN (x \o y) = 1 .. Len(x) + Len(y)
            /\ \A i \in DOMAIN x : (x \o y)[i] = x[i]
            /\ \A i \in DOMAIN y : (x \o y)[Len(x) + i] = y[i]
        BY <2>2, Concat
      <4> DEFINE u == x \o y
      <4> HIDE DEF u, m, r
      <4>. QED BY <3>2, <4>1, <4>2 DEF u
    <3>4. x \o y = [k \in 1 .. m + r |-> (x \o y)[k]]
      BY <3>3, LenProperties
    <3> DEFINE a == x \o y
               b == s \o t
    <3> HIDE DEF a, b, m, r
    <3>5. \A k \in 1 .. m + r : a[k] = g[b[k]]
      <4> TAKE k \in 1 .. m + r
      <4>1. CASE k <= m
        BY <2>3, <3>1, <3>3, <4>1 DEF a, b
      <4>2. CASE k > m
        <5>1. PICK i \in 1 .. r : k = m + i
          <6>1. k - m \in 1 .. r /\ k = m + (k - m)
            BY <3>1, <4>2
          <6>. QED BY <6>1
        <5>. QED BY <2>3, <3>1, <3>3, <5>1 DEF a, b
      <4>. QED BY <3>1, <4>1, <4>2
    <3>6. a = [k \in 1 .. m + r |-> a[k]] /\ DOMAIN b = 1 .. m + r
      BY <3>1, <3>4 DEF a, b
    <3>7. a = [k \in DOMAIN b |-> g[b[k]]]
      BY <3>5, <3>6
    <3>. QED BY <3>7 DEF a, b
  <2>5. h[n + 1] = Each(g, f[n + 1])
    BY <2>2, <2>4 DEF Each
  <2>. QED BY <2>1, <2>5
<1>6. L \in T
  <2> HIDE DEF T
  <2>1. L \in Nat
    BY <1>1
  <2>2. \A n \in 0 .. L - 1 : n \in T => n + 1 \in T
    BY <1>5
  <2>3. 0 .. L \subseteq T
    BY <2>1, <2>2, <1>4, Reaches
  <2>. QED BY <2>1, <2>3
<1>. QED BY <1>2, <1>3, <1>6
-----------------------------------------------------------------------------
(* The inductive invariant. *)

Snapshots == ProcChoice \cup {<< >>}
AnyFile == UNION {FileChoice[t] : t \in Tool}
Server == {Discovered(t, e, ps) : t \in Tool, e \in UNION {Described(file) : file \in AnyFile},
                                  ps \in Snapshots}

Typing ==
  /\ phase \in {"snapshot", "loop", "open", "done"} /\ cancelled \in BOOLEAN
  /\ next \in 1 .. Len(Resolved) + 1
  /\ procs \in ProcChoice /\ snapshot \in Snapshots
  /\ DOMAIN files = Tool /\ DOMAIN read = Tool /\ DOMAIN lastRead = Tool
  /\ \A t \in Tool : /\ files[t] \in FileChoice[t]
                     /\ read[t] \in FileChoice[t] \cup {Unread}
                     /\ lastRead[t] \in FileChoice[t] \cup {Unread}
  /\ found \in Seq(Server) /\ lastFound \in Seq(Server)

\* The tools before the one in hand have been read, and no others.
LoopInv ==
  /\ \A k \in 1 .. Len(Resolved) : read[Resolved[k]] = Unread <=> next <= k
  /\ phase = "open" => next <= Len(Resolved)
  /\ phase = "done" /\ ~ cancelled => next = Len(Resolved) + 1
  /\ phase = "snapshot" => found = << >>

\* One server for each entry described in what was read, and no other.
FoundInv ==
  /\ \A i \in DOMAIN found : \E e \in Described(read[found[i].tool]) :
       found[i] = Discovered(found[i].tool, e, snapshot)
  /\ \A t \in Tool : \A e \in Described(read[t]) :
       \E i \in DOMAIN found : found[i].tool = t /\ found[i].name = e.name
  /\ \A i, j \in DOMAIN found :
       found[i].tool = found[j].tool /\ found[i].name = found[j].name => i = j

LastInv ==
  \A i \in DOMAIN lastFound : \E e \in Described(lastRead[lastFound[i].tool]) :
    \E ps \in Snapshots : lastFound[i] = Discovered(lastFound[i].tool, e, ps)

\* The process table and the snapshot of this scan are of processes that ran.
RanInv == /\ Range(procs) \subseteq ran
          /\ phase # "snapshot" => Range(snapshot) \subseteq ran

IInv == Typing /\ LoopInv /\ FoundInv /\ LastInv /\ RanInv
-----------------------------------------------------------------------------
(* The registry, the files and the rows made of them. *)

LEMMA ResolvedFacts ==
  /\ Resolved \in Seq(Tool) /\ Len(Resolved) \in Nat /\ DOMAIN Resolved = 1 .. Len(Resolved)
  /\ \A k, m \in DOMAIN Resolved : Resolved[k] = Resolved[m] => k = m
  /\ \A t \in Tool : \E k \in DOMAIN Resolved : Resolved[k] = t
<1> DEFINE names == {Registry[i].tool : i \in DOMAIN Registry}
           pieces == [i \in DOMAIN Registry |-> IF ForThisOS(i) THEN <<Registry[i].tool>> ELSE << >>]
<1>1. DOMAIN Registry = 1 .. Len(Registry) /\ Len(Registry) \in Nat
  BY RegistryAssumption, LenProperties
<1>2. pieces \in Seq(Seq(names))
  <2>1. \A i \in 1 .. Len(Registry) : pieces[i] \in Seq(names)
    <3> TAKE i \in 1 .. Len(Registry)
    <3>1. Registry[i].tool \in names /\ << >> \in Seq(names)
      BY <1>1, EmptySeq
    <3>2. pieces[i] = IF ForThisOS(i) THEN <<Registry[i].tool>> ELSE << >>
      BY <1>1
    <3> HIDE DEF names, pieces
    <3>3. <<Registry[i].tool>> \in Seq(names)
      BY <3>1
    <3>. QED BY <3>1, <3>2, <3>3
  <2>2. pieces \in [1 .. Len(Registry) -> Seq(names)]
    BY <1>1, <2>1
  <2> HIDE DEF names, pieces
  <2>. QED BY <1>1, <2>2, FunctionIsSeq
<1>3. \A i, j \in DOMAIN pieces : \A a \in DOMAIN pieces[i], b \in DOMAIN pieces[j] :
         pieces[i][a] = pieces[j][b] => i = j /\ a = b
  <2> SUFFICES ASSUME NEW i \in DOMAIN pieces, NEW j \in DOMAIN pieces,
                      NEW a \in DOMAIN pieces[i], NEW b \in DOMAIN pieces[j],
                      pieces[i][a] = pieces[j][b]
               PROVE  i = j /\ a = b
    OBVIOUS
  <2>1. ASSUME NEW k \in DOMAIN pieces, NEW c \in DOMAIN pieces[k]
        PROVE  ForThisOS(k) /\ c = 1 /\ pieces[k][c] = Registry[k].tool /\ k \in DOMAIN Registry
    <3>1. k \in DOMAIN Registry
      OBVIOUS
    <3>2. ForThisOS(k)
      BY <3>1
    <3>. QED BY <3>1, <3>2
  <2>2. i = j
    BY <2>1, RegistryAssumption
  <2>. QED BY <2>1, <2>2
<1>4. Resolved = Join(pieces)
  BY DEF Resolved
<1> HIDE DEF names, pieces
<1>5. Resolved \in Seq(names)
  BY <1>2, <1>4, JoinFacts
<1>6. \A k, m \in DOMAIN Resolved : Resolved[k] = Resolved[m] => k = m
  BY <1>2, <1>3, <1>4, JoinDistinct
<1>7. Len(Resolved) \in Nat /\ DOMAIN Resolved = 1 .. Len(Resolved)
      /\ Resolved = [k \in 1 .. Len(Resolved) |-> Resolved[k]]
  BY <1>5, LenProperties
<1>8. Resolved \in Seq(Tool)
  <2>1. \A k \in 1 .. Len(Resolved) : Resolved[k] \in Tool
    BY <1>7 DEF Tool, Range
  <2>2. Resolved \in [1 .. Len(Resolved) -> Tool]
    BY <1>7, <2>1
  <2>. QED BY <1>7, <2>2, FunctionIsSeq
<1>9. \A t \in Tool : \E k \in DOMAIN Resolved : Resolved[k] = t
  BY DEF Tool, Range
<1>. QED BY <1>6, <1>7, <1>8, <1>9

LEMMA FileFacts ==
  /\ \A t \in Tool : Unread \notin FileChoice[t]
  /\ Described(Unread) = {}
  /\ \A t \in Tool : \A file \in FileChoice[t] : file.kind # "map" => Described(file) = {}
  /\ \A t \in Tool : \A file \in FileChoice[t] : IsFiniteSet(Described(file))
  /\ \A t \in Tool : \A file \in FileChoice[t] : \A e, d \in Described(file) : e.name = d.name => e = d
  /\ \A t \in Tool : \A file \in FileChoice[t] : \A e \in Described(file) : IsEntry(e) /\ e \in file.entries
<1>1. Unread.kind = "unread" /\ Described(Unread) = {}
  BY DEF Unread, Described, Parsed
<1> SUFFICES ASSUME NEW t \in Tool, NEW file \in FileChoice[t]
    PROVE  /\ Unread # file
           /\ file.kind # "map" => Described(file) = {}
           /\ IsFiniteSet(Described(file))
           /\ \A e, d \in Described(file) : e.name = d.name => e = d
           /\ \A e \in Described(file) : IsEntry(e) /\ e \in file.entries
  BY <1>1
<1>2. IsFile(file)
  BY FileAssumption
<1>3. Unread # file
  BY <1>1, <1>2 DEF IsFile
<1>4. Described(file) \in SUBSET file.entries /\ \A e \in Described(file) : e.shape
  BY DEF Described, Parsed
<1>5. file.kind # "map" => Described(file) = {}
  BY <1>2 DEF IsFile, Described, Parsed
<1>6. IsFiniteSet(Described(file))
  BY <1>2, <1>4, FS_Subset DEF IsFile
<1>. QED BY <1>2, <1>3, <1>4, <1>5, <1>6 DEF IsFile

LEMMA DiscoveredFacts ==
  ASSUME NEW t, NEW e, NEW ps
  PROVE  /\ Discovered(t, e, ps).tool = t /\ Discovered(t, e, ps).name = e.name
BY DEF Discovered

\* The servers of one file, whatever order its map is walked in.
LEMMA RowsFacts ==
  ASSUME NEW t \in Tool, NEW file \in FileChoice[t], snapshot \in Snapshots,
         NEW rows \in ServersOf(t, file)
  PROVE  /\ rows \in Seq(Server)
         /\ \A i \in DOMAIN rows : \E e \in Described(file) :
              rows[i] = Discovered(t, e, snapshot)
         /\ \A e \in Described(file) : \E i \in DOMAIN rows : rows[i].name = e.name
         /\ \A i, j \in DOMAIN rows : rows[i].name = rows[j].name => i = j
<1> DEFINE D == Described(file)
<1>1. PICK order \in SetToSeqs(D) : rows = [i \in DOMAIN order |-> Discovered(t, order[i], snapshot)]
  BY DEF ServersOf
<1>2. /\ order \in [1 .. Cardinality(D) -> D]
      /\ \A i, j \in 1 .. Cardinality(D) : i # j => order[i] # order[j]
  BY <1>1 DEF SetToSeqs
<1>3. IsFiniteSet(D) /\ \A e, d \in D : e.name = d.name => e = d
  BY FileFacts
<1>4. \A e \in D : Discovered(t, e, snapshot) \in Server
  BY DEF Server, AnyFile
<1> HIDE DEF D
<1>5. /\ DOMAIN order = 1 .. Cardinality(D) /\ Cardinality(D) \in Nat
      /\ {order[i] : i \in DOMAIN order} = D
  BY <1>2, <1>3, Permutation
<1>6. /\ DOMAIN rows = DOMAIN order
      /\ \A i \in DOMAIN order : rows[i] = Discovered(t, order[i], snapshot) /\ order[i] \in D
  BY <1>1, <1>5
<1>7. rows \in Seq(Server)
  <2>1. rows = [i \in DOMAIN rows |-> rows[i]]
    BY <1>1
  <2>2. rows \in [1 .. Cardinality(D) -> Server]
    BY <1>4, <1>5, <1>6, <2>1
  <2>. QED BY <1>5, <2>2, FunctionIsSeq
<1>8. \A i \in DOMAIN rows : rows[i].name = order[i].name
  BY <1>6, DiscoveredFacts
<1>9. \A e \in D : \E i \in DOMAIN rows : rows[i].name = e.name
  <2> TAKE e \in D
  <2>1. PICK i \in DOMAIN order : order[i] = e
    BY <1>5
  <2>. QED BY <1>6, <1>8, <2>1
<1>10. \A i, j \in DOMAIN rows : rows[i].name = rows[j].name => i = j
  BY <1>2, <1>3, <1>5, <1>6, <1>8
<1>. QED BY <1>6, <1>7, <1>9, <1>10 DEF D
-----------------------------------------------------------------------------
(* The steps. *)

LEMMA InitHolds == Init => IInv
<1> SUFFICES ASSUME Init PROVE IInv
  OBVIOUS
<1>1. Typing
  <2>1. << >> \in Seq(Server) /\ 1 \in 1 .. Len(Resolved) + 1 /\ << >> \in Snapshots
    BY ResolvedFacts, EmptySeq DEF Snapshots
  <2>. QED BY <2>1 DEF Init, Typing
<1>2. LoopInv
  BY ResolvedFacts, ElementOfSeq DEF Init, LoopInv
<1>3. FoundInv
  BY FileFacts DEF Init, FoundInv
<1>4. LastInv /\ RanInv
  BY DEF Init, LastInv, RanInv
<1>. QED BY <1>1, <1>2, <1>3, <1>4 DEF IInv

LEMMA SnapshotStep == ASSUME IInv, Snapshot PROVE IInv'
<1>1. Typing'
  BY DEF IInv, Typing, Snapshot, world, Snapshots
<1>2. LoopInv'
  BY DEF IInv, LoopInv, Snapshot, world
<1>3. FoundInv'
  <2>1. found = << >> /\ found' = << >> /\ read' = read
    BY DEF IInv, LoopInv, Snapshot
  <2>. QED BY <2>1 DEF IInv, FoundInv
<1>4. LastInv'
  BY DEF IInv, LastInv, Snapshot
<1>5. RanInv'
  <2>1. Range(<< >>) \subseteq ran
    BY DEF Range
  <2>. QED BY <2>1 DEF IInv, RanInv, Snapshot, world
<1>. QED BY <1>1, <1>2, <1>3, <1>4, <1>5 DEF IInv

LEMMA VisitStep == ASSUME IInv, Visit PROVE IInv'
<1> DEFINE t == Resolved[next]
<1>1. /\ next \in DOMAIN Resolved /\ next \in 1 .. Len(Resolved) /\ Len(Resolved) \in Nat
      /\ t \in Tool /\ phase = "loop"
      /\ UNCHANGED <<world, run, snapshot, cancelled, found, lastFound, lastRead>>
  BY ResolvedFacts, ElementOfSeq DEF IInv, Typing, Visit
<1>2. CASE files[t].kind = "missing"
  <2>1. next' = next + 1 /\ phase' = phase /\ read' = [read EXCEPT ![t] = files[t]]
    BY <1>2 DEF Visit
  <2>2. files[t] \in FileChoice[t] /\ Described(files[t]) = {} /\ files[t] # Unread
    BY <1>1, <1>2, FileFacts DEF IInv, Typing
  <2>3. read[t] = Unread /\ Described(read[t]) = {}
    BY <1>1, FileFacts DEF IInv, LoopInv
  <2> HIDE DEF t
  <2>4. /\ DOMAIN read' = Tool /\ read'[t] = files[t]
        /\ \A u \in Tool : u # t => read'[u] = read[u]
    BY <1>1, <2>1 DEF IInv, Typing
  <2>5. Typing'
    BY <1>1, <2>1, <2>2, <2>4 DEF IInv, Typing, world
  <2>6. LoopInv'
    <3>1. \A k \in 1 .. Len(Resolved) : read'[Resolved[k]] = Unread <=> next' <= k
      <4> TAKE k \in 1 .. Len(Resolved)
      <4>1. Resolved[k] \in Tool /\ (k = next <=> Resolved[k] = t)
        BY <1>1, ResolvedFacts, ElementOfSeq DEF t
      <4>2. CASE k = next
        BY <1>1, <2>1, <2>2, <2>4, <4>1, <4>2
      <4>3. CASE k # next
        <5>1. read'[Resolved[k]] = read[Resolved[k]]
          BY <2>4, <4>1, <4>3
        <5>2. read[Resolved[k]] = Unread <=> next <= k
          BY DEF IInv, LoopInv
        <5>. QED BY <1>1, <2>1, <4>3, <5>1, <5>2
      <4>. QED BY <4>2, <4>3
    <3>. QED BY <1>1, <2>1, <3>1 DEF LoopInv
  <2>7. \A u \in Tool : Described(read'[u]) = Described(read[u])
    BY <2>2, <2>3, <2>4
  <2>8. FoundInv'
    <3>1. found' = found /\ snapshot' = snapshot
      BY <1>1
    <3>2. \A i \in DOMAIN found : found[i].tool \in Tool
      BY ElementOfSeq, LenProperties, DiscoveredFacts DEF IInv, Typing, Server
    <3>. QED BY <2>7, <3>1, <3>2 DEF IInv, FoundInv
  <2>9. LastInv' /\ RanInv'
    BY <1>1, <2>1 DEF IInv, LastInv, RanInv, world
  <2>. QED BY <2>5, <2>6, <2>8, <2>9 DEF IInv
<1>3. CASE files[t].kind # "missing"
  <2>1. phase' = "open" /\ UNCHANGED <<next, read>>
    BY <1>3 DEF Visit
  <2>2. Typing'
    BY <1>1, <2>1 DEF IInv, Typing, world
  <2>3. LoopInv'
    BY <1>1, <2>1 DEF IInv, LoopInv
  <2>4. FoundInv' /\ LastInv' /\ RanInv'
    BY <1>1, <2>1 DEF IInv, FoundInv, LastInv, RanInv, world
  <2>. QED BY <2>2, <2>3, <2>4 DEF IInv
<1>. QED BY <1>2, <1>3

LEMMA ReadFileStep == ASSUME IInv, ReadFile PROVE IInv'
<1> DEFINE t == Resolved[next]
           file == files[t]
<1>1. /\ next \in DOMAIN Resolved /\ next \in 1 .. Len(Resolved) /\ Len(Resolved) \in Nat
      /\ t \in Tool /\ phase = "open"
      /\ UNCHANGED <<world, run, snapshot, cancelled, lastFound, lastRead>>
      /\ phase' = "loop" /\ next' = next + 1 /\ read' = [read EXCEPT ![t] = file]
  BY ResolvedFacts, ElementOfSeq DEF IInv, Typing, LoopInv, ReadFile
<1>2. file \in FileChoice[t] /\ file # Unread /\ snapshot \in Snapshots
  BY <1>1, FileFacts DEF IInv, Typing
<1>3. read[t] = Unread /\ Described(read[t]) = {}
  BY <1>1, FileFacts DEF IInv, LoopInv
\* A file that is refused describes nothing, so its rows are none.
<1>4. PICK rows \in Seq(Server) :
        /\ found' = found \o rows
        /\ \A i \in DOMAIN rows : \E e \in Described(file) : rows[i] = Discovered(t, e, snapshot)
        /\ \A e \in Described(file) : \E i \in DOMAIN rows : rows[i].name = e.name
        /\ \A i, j \in DOMAIN rows : rows[i].name = rows[j].name => i = j
  <2>1. CASE file.kind \in {"missing", "denied", "huge"}
    <3>1. found' = found /\ Described(file) = {}
      BY <1>1, <1>2, <2>1, FileFacts DEF ReadFile
    <3>2. << >> \in Seq(Server) /\ DOMAIN << >> = {} /\ found \o << >> = found
      BY EmptySeq, ConcatEmptySeq DEF IInv, Typing
    <3> HIDE DEF file, t
    <3> DEFINE none == << >>
    <3>3. /\ none \in Seq(Server) /\ found' = found \o none /\ DOMAIN none = {}
      BY <3>1, <3>2
    <3> HIDE DEF none
    <3>4. /\ \A i \in DOMAIN none : \E e \in Described(file) : none[i] = Discovered(t, e, snapshot)
          /\ \A e \in Described(file) : \E i \in DOMAIN none : none[i].name = e.name
          /\ \A i, j \in DOMAIN none : none[i].name = none[j].name => i = j
      BY <3>1, <3>3
    <3>. QED BY <3>3, <3>4, Zenon
  <2>2. CASE file.kind \notin {"missing", "denied", "huge"}
    <3>1. PICK rows \in ServersOf(t, file) : found' = found \o rows
      BY <2>2 DEF ReadFile
    <3> HIDE DEF file, t
    <3>2. /\ rows \in Seq(Server)
          /\ \A i \in DOMAIN rows : \E e \in Described(file) : rows[i] = Discovered(t, e, snapshot)
          /\ \A e \in Described(file) : \E i \in DOMAIN rows : rows[i].name = e.name
          /\ \A i, j \in DOMAIN rows : rows[i].name = rows[j].name => i = j
      BY <1>1, <1>2, RowsFacts
    <3>. QED BY <3>1, <3>2, Zenon
  <2>. QED BY <2>1, <2>2
<1> DEFINE m == Len(found)
           new == found'
<1>7. /\ new \in Seq(Server) /\ m \in Nat /\ DOMAIN found = 1 .. m
      /\ DOMAIN found \subseteq DOMAIN new
      /\ \A i \in DOMAIN found : new[i] = found[i]
      /\ \A i \in DOMAIN rows : m + i \in DOMAIN new /\ new[m + i] = rows[i]
      /\ \A i \in DOMAIN new : i \in Int /\ (i \notin DOMAIN found => i - m \in DOMAIN rows /\ new[i] = rows[i - m])
  <2>1. found \in Seq(Server)
    BY DEF IInv, Typing
  <2> DEFINE r == Len(rows)
  <2>2. /\ new \in Seq(Server) /\ m \in Nat /\ r \in Nat
        /\ DOMAIN found = 1 .. m /\ DOMAIN rows = 1 .. r
        /\ DOMAIN new = 1 .. m + r
        /\ \A i \in DOMAIN found : new[i] = found[i]
        /\ \A i \in DOMAIN rows : new[m + i] = rows[i]
    BY <1>4, <2>1, Concat
  <2> HIDE DEF m, new, r
  <2>3. \A i \in DOMAIN new : i \notin DOMAIN found => i - m \in DOMAIN rows /\ m + (i - m) = i
    BY <2>2
  <2>4. \A i \in DOMAIN rows : m + i \in DOMAIN new
    BY <2>2
  <2>. QED BY <2>2, <2>3, <2>4
<1>10. /\ \A i \in DOMAIN rows : rows[i].tool = t
       /\ \A i \in DOMAIN rows : \E e \in Described(file) : rows[i] = Discovered(t, e, snapshot)
       /\ \A e \in Described(file) : \E i \in DOMAIN rows : rows[i].name = e.name
       /\ \A i, j \in DOMAIN rows : rows[i].name = rows[j].name => i = j
  BY <1>4, DiscoveredFacts
<1> HIDE DEF new, m
<1>5. \A i \in DOMAIN found : found[i].tool \in Tool /\ found[i].tool # t
  <2> TAKE i \in DOMAIN found
  <2>1. found[i].tool \in Tool
    BY ElementOfSeq, LenProperties, DiscoveredFacts DEF IInv, Typing, Server
  <2>2. Described(read[found[i].tool]) # {}
    BY DEF IInv, FoundInv
  <2>. QED BY <1>3, <2>1, <2>2
<1> HIDE DEF t, file
<1>6. /\ DOMAIN read' = Tool /\ read'[t] = file
      /\ \A u \in Tool : u # t => read'[u] = read[u]
  BY <1>1 DEF IInv, Typing
<1>8. Typing'
  BY <1>1, <1>2, <1>6, <1>7 DEF IInv, Typing, world, new
<1>9. LoopInv'
  <2>1. \A k \in 1 .. Len(Resolved) : read'[Resolved[k]] = Unread <=> next' <= k
    <3> TAKE k \in 1 .. Len(Resolved)
    <3>1. Resolved[k] \in Tool /\ (k = next <=> Resolved[k] = t)
      BY <1>1, ResolvedFacts, ElementOfSeq DEF t
    <3>2. CASE k = next
      BY <1>1, <1>2, <1>6, <3>1, <3>2
    <3>3. CASE k # next
      <4>1. read'[Resolved[k]] = read[Resolved[k]]
        BY <1>6, <3>1, <3>3
      <4>2. read[Resolved[k]] = Unread <=> next <= k
        BY DEF IInv, LoopInv
      <4>. QED BY <1>1, <3>3, <4>1, <4>2
    <3>. QED BY <3>2, <3>3
  <2>. QED BY <1>1, <2>1 DEF LoopInv
<1>11. FoundInv'
  <2>1. ASSUME NEW i \in DOMAIN new
        PROVE  \E e \in Described(read'[new[i].tool]) : new[i] = Discovered(new[i].tool, e, snapshot)
    <3>1. CASE i \in DOMAIN found
      <4>1. PICK e \in Described(read[found[i].tool]) : found[i] = Discovered(found[i].tool, e, snapshot)
        BY <3>1 DEF IInv, FoundInv
      <4>. QED BY <1>5, <1>6, <1>7, <3>1, <4>1
    <3>2. CASE i \notin DOMAIN found
      <4>1. PICK k \in DOMAIN rows : new[i] = rows[k]
        BY <1>7, <3>2
      <4>2. PICK e \in Described(file) : rows[k] = Discovered(t, e, snapshot)
        BY <1>10
      <4>3. new[i].tool = t /\ e \in Described(read'[t])
        BY <1>6, <1>10, <4>1, <4>2
      <4>. QED BY <4>1, <4>2, <4>3
    <3>. QED BY <3>1, <3>2
  <2>2. ASSUME NEW u \in Tool, NEW e \in Described(read'[u])
        PROVE  \E i \in DOMAIN new : new[i].tool = u /\ new[i].name = e.name
    <3>1. CASE u = t
      <4>1. e \in Described(file)
        BY <1>6, <3>1
      <4>2. PICK k \in DOMAIN rows : rows[k].name = e.name
        BY <1>10, <4>1
      <4>3. m + k \in DOMAIN new /\ new[m + k] = rows[k] /\ rows[k].tool = t
        BY <1>7, <1>10
      <4>. QED BY <3>1, <4>2, <4>3
    <3>2. CASE u # t
      <4>1. e \in Described(read[u])
        BY <1>6, <3>2
      <4>2. PICK i \in DOMAIN found : found[i].tool = u /\ found[i].name = e.name
        BY <4>1 DEF IInv, FoundInv
      <4>. QED BY <1>7, <4>2
    <3>. QED BY <3>1, <3>2
  <2>3. ASSUME NEW i \in DOMAIN new, NEW j \in DOMAIN new,
               new[i].tool = new[j].tool, new[i].name = new[j].name
        PROVE  i = j
    <3>1. CASE i \in DOMAIN found /\ j \in DOMAIN found
      BY <1>7, <2>3, <3>1 DEF IInv, FoundInv
    <3>2. CASE i \notin DOMAIN found /\ j \notin DOMAIN found
      <4>1. PICK k \in DOMAIN rows : k = i - m /\ new[i] = rows[k]
        BY <1>7, <3>2
      <4>2. PICK c \in DOMAIN rows : c = j - m /\ new[j] = rows[c]
        BY <1>7, <3>2
      <4>3. k = c
        BY <1>10, <2>3, <4>1, <4>2
      <4>4. i \in Int /\ j \in Int /\ m \in Int
        BY <1>7
      <4>. QED BY <4>1, <4>2, <4>3, <4>4
    <3>3. CASE i \in DOMAIN found /\ j \notin DOMAIN found
      BY <1>5, <1>7, <1>10, <2>3, <3>3
    <3>4. CASE i \notin DOMAIN found /\ j \in DOMAIN found
      BY <1>5, <1>7, <1>10, <2>3, <3>4
    <3>. QED BY <3>1, <3>2, <3>3, <3>4
  <2>4. snapshot' = snapshot
    BY <1>1
  <2>. QED BY <2>1, <2>2, <2>3, <2>4 DEF FoundInv, new
<1>12. LastInv' /\ RanInv'
  BY <1>1 DEF IInv, LastInv, RanInv, world
<1>. QED BY <1>8, <1>9, <1>11, <1>12 DEF IInv

LEMMA ReturnStep == ASSUME IInv, Return PROVE IInv'
<1>1. Typing'
  BY DEF IInv, Typing, Return, world
<1>2. LoopInv'
  BY ResolvedFacts DEF IInv, Typing, LoopInv, Return
<1>3. FoundInv' /\ LastInv' /\ RanInv'
  BY DEF IInv, FoundInv, LastInv, RanInv, Return, world
<1>. QED BY <1>1, <1>2, <1>3 DEF IInv

LEMMA AgainStep == ASSUME IInv, Again PROVE IInv'
<1>1. Typing'
  <2>1. << >> \in Seq(Server) /\ 1 \in 1 .. Len(Resolved) + 1 /\ << >> \in Snapshots
    BY ResolvedFacts, EmptySeq DEF Snapshots
  <2>. QED BY <2>1 DEF IInv, Typing, Again, world
<1>2. LoopInv'
  BY ResolvedFacts, ElementOfSeq DEF Again, LoopInv
<1>3. FoundInv'
  <2>1. found' = << >> /\ \A t \in Tool : read'[t] = Unread
    BY DEF Again
  <2>. QED BY <2>1, FileFacts DEF FoundInv
<1>4. LastInv' /\ RanInv'
  BY DEF IInv, Typing, FoundInv, LastInv, RanInv, Again
<1>. QED BY <1>1, <1>2, <1>3, <1>4 DEF IInv

\* The environment, which touches neither what was read nor what was found.
LEMMA EnvironmentStep ==
  ASSUME IInv, Edit \/ Processes \/ Cancel \/ UNCHANGED vars PROVE IInv'
<1>1. UNCHANGED <<run, snapshot, phase, next, found, read, lastFound, lastRead>>
  BY DEF Edit, Processes, Cancel, vars
<1>2. cancelled' \in BOOLEAN /\ procs' \in ProcChoice /\ (cancelled => cancelled')
      /\ (phase = "done" => cancelled' = cancelled)
  BY DEF IInv, Typing, Edit, Processes, Cancel, vars, world
<1>3. DOMAIN files' = Tool /\ \A t \in Tool : files'[t] \in FileChoice[t]
  BY DEF IInv, Typing, Edit, Processes, Cancel, vars, world
<1>4. Typing'
  BY <1>1, <1>2, <1>3 DEF IInv, Typing
<1>5. LoopInv'
  BY <1>1, <1>2 DEF IInv, LoopInv
<1>6. FoundInv' /\ LastInv'
  BY <1>1 DEF IInv, FoundInv, LastInv
<1>7. RanInv'
  BY <1>1 DEF IInv, RanInv, Edit, Processes, Cancel, vars, world
<1>. QED BY <1>4, <1>5, <1>6, <1>7 DEF IInv

LEMMA NextStep == IInv /\ [Next]_vars => IInv'
<1> SUFFICES ASSUME IInv, [Next]_vars PROVE IInv'
  OBVIOUS
<1>. QED BY SnapshotStep, VisitStep, ReadFileStep, ReturnStep, AgainStep, EnvironmentStep
     DEF Next, Finished

\* DetectLocal, scan after scan: each server found is what one entry of a file
\* that was read describes, and each such entry has one.
THEOREM Invariance == Spec => []IInv
BY InitHolds, NextStep, PTL DEF Spec

\* A server that was found is what an entry of its tool's file describes.
LEMMA OriginFacts ==
  ASSUME IInv, NEW i \in DOMAIN found
  PROVE  /\ found[i].tool \in Tool
         /\ \E e \in Described(read[found[i].tool]) :
              /\ found[i] = Discovered(found[i].tool, e, snapshot)
              /\ read[found[i].tool] \in FileChoice[found[i].tool]
<1>1. found[i].tool \in Tool
  BY ElementOfSeq, LenProperties, DiscoveredFacts DEF IInv, Typing, Server
<1>2. PICK e \in Described(read[found[i].tool]) : found[i] = Discovered(found[i].tool, e, snapshot)
  BY DEF IInv, FoundInv
<1>3. read[found[i].tool] # Unread
  BY <1>2, FileFacts
<1>4. read[found[i].tool] \in FileChoice[found[i].tool]
  BY <1>1, <1>3 DEF IInv, Typing
<1>. QED BY <1>1, <1>2, <1>4

\* A scan goes through the tools one by one and finds servers of no others,
\* each likely or confirmed.
THEOREM TypeCorrect == Spec => []TypeOK
<1>1. IInv => TypeOK
  <2> SUFFICES ASSUME IInv PROVE TypeOK
    OBVIOUS
  <2>1. ASSUME NEW i \in DOMAIN found
        PROVE  found[i].tool \in Tool /\ found[i].conf \in {"likely", "confirmed"}
    <3>1. PICK e : found[i] = Discovered(found[i].tool, e, snapshot)
      BY OriginFacts
    <3> DEFINE s == Discovered(found[i].tool, e, snapshot)
    <3>2. s.conf \in {"likely", "confirmed"}
      BY DEF Discovered
    <3> HIDE DEF s
    <3>. QED BY <3>1, <3>2, OriginFacts DEF s
  <2>. QED BY <2>1 DEF IInv, Typing, LoopInv, TypeOK
<1>. QED BY <1>1, Invariance, PTL
-----------------------------------------------------------------------------
(* The entries that are listed. *)

LEMMA ListedFacts ==
  ASSUME NEW t \in Tool, NEW file \in FileChoice[t] \cup {Unread}
  PROVE  Listed(file) = {e.name : e \in Described(file)}
<1>1. file.kind # "map" => file.entries = {}
  BY FileAssumption DEF IsFile, Unread
<1>2. CASE \E e \in file.entries : ~ e.shape
  BY <1>2 DEF Listed, Described, Parsed
<1>3. CASE ~ \E e \in file.entries : ~ e.shape
  <2>1. Parsed(file) = file.entries
    BY <1>1, <1>3 DEF Parsed
  <2>2. Listed(file) = {e.name : e \in {d \in file.entries : ~ d.url /\ d.command # NoCommand}}
    BY <1>3 DEF Listed
  <2>. QED BY <2>1, <2>2 DEF Described, IsStdio
<1>. QED BY <1>2, <1>3

LEMMA SeqIndices ==
  ASSUME NEW S, NEW s \in Seq(S)
  PROVE  /\ DOMAIN s = 1 .. Len(s) /\ Len(s) \in Nat
         /\ IsFiniteSet(DOMAIN s) /\ Cardinality(DOMAIN s) = Len(s)
<1>1. DOMAIN s = 1 .. Len(s) /\ Len(s) \in Nat
  BY LenProperties
<1> DEFINE n == Len(s)
<1> HIDE DEF n
<1>2. DOMAIN s = 1 .. n /\ n \in Nat
  BY <1>1 DEF n
<1>3. IsFiniteSet(1 .. n) /\ Cardinality(1 .. n) = n
  BY <1>2, FS_Interval
<1>. QED BY <1>2, <1>3 DEF n

\* Files that are refused, malformed, edited or removed while a scan goes on
\* hide no entry of another file; a scan that is not cancelled reads them all.
THEOREM EntriesAreExact == Spec => []EntriesExact
<1>1. IInv => EntriesExact
  <2> SUFFICES ASSUME IInv PROVE EntriesExact
    OBVIOUS
  <2>1. ASSUME NEW t \in Tool
        PROVE  /\ {found[i].name : i \in FoundOf(t)} = Listed(read[t])
               /\ Cardinality(FoundOf(t)) = Cardinality(Listed(read[t]))
    <3> DEFINE I == FoundOf(t)
               N == {found[i].name : i \in I}
    <3>1. Listed(read[t]) = {e.name : e \in Described(read[t])}
      BY ListedFacts DEF IInv, Typing
    <3>2. N \subseteq {e.name : e \in Described(read[t])}
      <4> SUFFICES ASSUME NEW i \in I PROVE \E e \in Described(read[t]) : found[i].name = e.name
        OBVIOUS
      <4>1. i \in DOMAIN found /\ found[i].tool = t
        BY DEF FoundOf
      <4>2. PICK e \in Described(read[t]) : found[i] = Discovered(t, e, snapshot)
        BY <4>1 DEF IInv, FoundInv
      <4>. QED BY <4>2, DiscoveredFacts
    <3>3. {e.name : e \in Described(read[t])} \subseteq N
      BY DEF IInv, FoundInv, FoundOf
    <3>4. IsFiniteSet(I)
      <4>1. IsFiniteSet(DOMAIN found)
        BY SeqIndices DEF IInv, Typing
      <4>2. I \in SUBSET DOMAIN found
        BY DEF FoundOf
      <4>. QED BY <4>1, <4>2, FS_Subset
    <3>5. ExistsBijection(I, N)
      <4> DEFINE f == [i \in I |-> found[i].name]
      <4>1. \A i, j \in I : found[i].name = found[j].name => i = j
        BY DEF IInv, FoundInv, FoundOf
      <4>2. f \in Bijection(I, N)
        BY <4>1 DEF Bijection, Injection, Surjection, IsInjective
      <4>. QED BY <4>2 DEF ExistsBijection
    <3> HIDE DEF I, N
    <3>6. Cardinality(N) = Cardinality(I)
      BY <3>4, <3>5, FS_Bijection
    <3>. QED BY <3>1, <3>2, <3>3, <3>6 DEF I, N
  <2>3. ASSUME NEW k \in DOMAIN Resolved, NEW m \in DOMAIN Resolved, k < m,
               read[Resolved[m]].kind # "unread"
        PROVE  read[Resolved[k]].kind # "unread"
    <3>1. /\ k \in 1 .. Len(Resolved) /\ m \in 1 .. Len(Resolved) /\ Len(Resolved) \in Nat
          /\ Resolved[k] \in Tool
      BY ResolvedFacts, ElementOfSeq
    <3>2. read[Resolved[m]] # Unread
      BY <2>3 DEF Unread
    <3>3. ~ (next <= m) /\ next \in Int
      BY <3>1, <3>2, ResolvedFacts DEF IInv, Typing, LoopInv
    <3>4. ~ (next <= k)
      BY <2>3, <3>1, <3>3
    <3>5. read[Resolved[k]] # Unread
      BY <3>1, <3>4 DEF IInv, LoopInv
    <3>6. read[Resolved[k]] \in FileChoice[Resolved[k]]
      BY <3>1, <3>5 DEF IInv, Typing
    <3>. QED BY <3>1, <3>6, FileAssumption DEF IsFile
  <2>2. ASSUME phase = "done", ~ cancelled, NEW t \in Tool PROVE read[t].kind # "unread"
    <3>1. PICK k \in 1 .. Len(Resolved) : Resolved[k] = t
      BY ResolvedFacts
    <3>2. read[t] # Unread
      <4>1. next = Len(Resolved) + 1 /\ Len(Resolved) \in Nat
        BY <2>2, ResolvedFacts DEF IInv, LoopInv
      <4>2. ~ (next <= k)
        BY <4>1
      <4>. QED BY <3>1, <4>2 DEF IInv, LoopInv
    <3>3. read[t] \in FileChoice[t]
      BY <3>2 DEF IInv, Typing
    <3>. QED BY <3>3, FileAssumption DEF IsFile
  <2>. QED BY <2>1, <2>2, <2>3 DEF EntriesExact
<1>. QED BY <1>1, Invariance, PTL
-----------------------------------------------------------------------------
(* The process that confirms a server. *)

LEMMA Least ==
  ASSUME NEW n \in Nat, NEW T \in SUBSET (1 .. n), T # {}
  PROVE  \E m \in T : \A k \in T : m <= k
<1> DEFINE M == {u \in 1 .. n : n + 1 - u \in T}
<1>1. \A k \in T : n + 1 - k \in M /\ n + 1 - (n + 1 - k) = k
  OBVIOUS
<1>2. M # {} /\ M \in SUBSET (1 .. n)
  BY <1>1
<1> HIDE DEF M
<1>3. PICK u \in M : \A v \in M : v <= u
  BY <1>2, Greatest
<1>4. u \in 1 .. n /\ n + 1 - u \in T
  BY DEF M
<1>5. \A k \in T : n + 1 - u <= k
  BY <1>1, <1>3, <1>4
<1>. QED BY <1>4, <1>5

\* FindMatch gives the PID of a process that fits, or 0 if none does.
LEMMA MatchFacts ==
  ASSUME NEW ps \in Snapshots, NEW command, NEW summary
  PROVE  LET pid == FindMatch(ps, command, summary)
             fit == {j \in DOMAIN ps : Aligned(ps[j], command, summary)}
         IN /\ fit = {} => pid = 0
            /\ fit # {} => pid # 0 /\ \E j \in fit : ps[j].pid = pid
<1> DEFINE fit == {j \in DOMAIN ps : Aligned(ps[j], command, summary)}
<1>1. CASE fit = {}
  BY <1>1, Zenon DEF FindMatch
<1>2. CASE fit # {}
  <2>1. ps \in ProcChoice
    BY <1>2 DEF Snapshots
  <2>2. DOMAIN ps = 1 .. Len(ps) /\ Len(ps) \in Nat
    BY <2>1, ProcAssumption, LenProperties
  <2>3. \A j \in fit : ps[j].pid # 0
    BY <2>1, ProcAssumption DEF Aligned
  <2> DEFINE first == CHOOSE j \in fit : \A k \in fit : j <= k
  <2>4. FindMatch(ps, command, summary) = ps[first].pid
    BY <1>2, Zenon DEF FindMatch
  <2>5. fit \in SUBSET (1 .. Len(ps))
    BY <2>2
  <2> HIDE DEF fit
  <2>6. \E j \in fit : \A k \in fit : j <= k
    BY <1>2, <2>2, <2>5, Least
  <2>7. first \in fit
    BY <2>6
  <2> HIDE DEF first
  <2>. QED BY <1>2, <2>3, <2>4, <2>7 DEF fit
<1>. QED BY <1>1, <1>2

\* What FindMatch makes of a server that was found, whose text is masked.
LEMMA VerdictFacts ==
  ASSUME IInv, NEW i \in DOMAIN found
  PROVE  LET s == found[i]
             fit == {j \in DOMAIN snapshot : Aligned(snapshot[j], s.command, s.summary)}
         IN /\ s.conf = IF s.pid = 0 THEN "likely" ELSE "confirmed"
            /\ fit = {} => s.pid = 0
            /\ fit # {} => s.pid # 0 /\ \E j \in fit : snapshot[j].pid = s.pid
<1> DEFINE s == found[i]
<1>1. PICK e : s = Discovered(s.tool, e, snapshot)
  BY OriginFacts
<1> DEFINE d == Discovered(s.tool, e, snapshot)
<1>2. /\ d.pid = FindMatch(snapshot, d.command, d.summary)
      /\ d.conf = IF d.pid = 0 THEN "likely" ELSE "confirmed"
  BY DEF Discovered
<1> HIDE DEF d
<1>3. /\ s.pid = FindMatch(snapshot, s.command, s.summary)
      /\ s.conf = IF s.pid = 0 THEN "likely" ELSE "confirmed"
  BY <1>1, <1>2 DEF d
<1> HIDE DEF s
<1> DEFINE fit == {j \in DOMAIN snapshot : Aligned(snapshot[j], s.command, s.summary)}
<1>4. /\ fit = {} => s.pid = 0
      /\ fit # {} => s.pid # 0 /\ \E j \in fit : snapshot[j].pid = s.pid
  BY <1>3, MatchFacts DEF IInv, Typing
<1>. QED BY <1>3, <1>4 DEF s

\* A server is confirmed only by a process that ran during its own scan, shows
\* it, and has the PID reported; the two verdicts add up to the total.
THEOREM ConfirmedHaveRun == Spec => []ConfirmedRan
<1>1. IInv => ConfirmedRan
  <2> SUFFICES ASSUME IInv PROVE ConfirmedRan
    OBVIOUS
  <2>1. ASSUME NEW i \in DOMAIN found
        PROVE  LET s == found[i]
               IN /\ s.pid # 0 <=> s.conf = "confirmed"
                  /\ s.conf = "confirmed" => \E p \in ran : p.pid = s.pid /\ Shows(p, s)
    <3> DEFINE s == found[i]
               fit == {j \in DOMAIN snapshot : Aligned(snapshot[j], s.command, s.summary)}
    <3>1. /\ s.conf = IF s.pid = 0 THEN "likely" ELSE "confirmed"
          /\ fit = {} => s.pid = 0
          /\ fit # {} => s.pid # 0 /\ \E j \in fit : snapshot[j].pid = s.pid
      BY VerdictFacts
    <3>2. phase # "snapshot"
      BY DEF IInv, LoopInv
    <3>3. \A j \in DOMAIN snapshot : snapshot[j] \in ran
      BY <3>2 DEF IInv, RanInv, Range
    <3>4. \A p : Aligned(p, s.command, s.summary) => Shows(p, s)
      BY DEF Aligned, Shows, KeyTokens
    <3>5. ASSUME s.pid # 0 PROVE \E p \in ran : p.pid = s.pid /\ Shows(p, s)
      <4>1. PICK j \in fit : snapshot[j].pid = s.pid
        BY <3>1, <3>5
      <4>. QED BY <3>3, <3>4, <4>1
    <3> HIDE DEF fit
    <3>6. s.pid # 0 <=> s.conf = "confirmed"
      BY <3>1
    <3>. QED BY <3>5, <3>6
  <2>2. LET c == StdioCounts(found) IN c.total = c.confirmed + c.likely
    <3> DEFINE D == DOMAIN found
               C == {i \in D : found[i].conf = "confirmed"}
               K == {i \in D : found[i].conf = "likely"}
    <3>1. IsFiniteSet(D) /\ Cardinality(D) = Len(found)
      BY SeqIndices DEF IInv, Typing
    <3>2. D = C \cup K /\ C \cap K = {} /\ C \in SUBSET D /\ K \in SUBSET D
      <4>1. \A i \in D : found[i].conf \in {"likely", "confirmed"}
        <5> TAKE i \in D
        <5>1. PICK e : found[i] = Discovered(found[i].tool, e, snapshot)
          BY OriginFacts
        <5> DEFINE d == Discovered(found[i].tool, e, snapshot)
        <5>2. d.conf \in {"likely", "confirmed"}
          BY DEF Discovered
        <5> HIDE DEF d
        <5>. QED BY <5>1, <5>2 DEF d
      <4>. QED BY <4>1
    <3> HIDE DEF D
    <3>3. IsFiniteSet(C) /\ IsFiniteSet(K)
      BY <3>1, <3>2, FS_Subset
    <3> HIDE DEF C, K
    <3>4. /\ Cardinality(D) = Cardinality(C) + Cardinality(K) - Cardinality({})
          /\ Cardinality({}) = 0 /\ Cardinality(C) \in Nat /\ Cardinality(K) \in Nat
      BY <3>2, <3>3, FS_Union, FS_EmptySet, FS_CardinalityType
    <3>5. Len(found) = Cardinality(C) + Cardinality(K)
      BY <3>1, <3>4
    <3>. QED BY <3>5, Zenon DEF StdioCounts, C, K, D
  <2>. QED BY <2>1, <2>2, Zenon DEF ConfirmedRan
<1>. QED BY <1>1, Invariance, PTL
-----------------------------------------------------------------------------
(* Masked text.  A token's text in public has a mark for each secret.      *)

\* What a masked value shows.
Ends(words) == IF words \in Brief THEN {} ELSE {Head3[words[1]], Tail3[Last(words)]}

\* What a token is made of.
Sign == Word \cup Mark \cup {"?"} \cup {Head3[w] : w \in Word} \cup {Tail3[w] : w \in Word}
Token == Seq(Sign)

\* What a token says in public.
Public(u) ==
  CASE Len(u) = 1 /\ u[1] = "******" -> <<"?">>
    [] Len(u) = 3 /\ u[2] = "..." -> <<"?">>
    [] Len(u) = 3 /\ u[2] = "=" /\ u[3] = "******" -> Cat(<<u[1], "=">>, <<"?">>)
    [] Len(u) = 5 /\ u[2] = "=" /\ u[4] = "..." -> Cat(<<u[1], "=">>, <<"?">>)
    [] OTHER -> u

LEMMA Singles ==
  ASSUME NEW S, NEW a \in S
  PROVE  /\ <<a>> \in Seq(S) /\ Len(<<a>>) = 1 /\ DOMAIN <<a>> = 1 .. 1
         /\ <<a>>[1] = a /\ Range(<<a>>) = {a}
<1> DEFINE s == <<a>>
<1>1. s \in Seq(S) /\ Len(s) = 1 /\ s[1] = a /\ DOMAIN s = 1 .. 1
  OBVIOUS
<1>2. DOMAIN s = {1}
  OBVIOUS
<1> HIDE DEF s
<1>3. Range(s) = {a}
  BY <1>1, <1>2 DEF Range
<1>. QED BY <1>1, <1>3 DEF s

LEMMA Pairs ==
  ASSUME NEW S, NEW a \in S, NEW b \in S
  PROVE  /\ <<a, b>> \in Seq(S) /\ Len(<<a, b>>) = 2 /\ DOMAIN <<a, b>> = 1 .. 2
         /\ <<a, b>>[1] = a /\ <<a, b>>[2] = b /\ Range(<<a, b>>) = {a, b}
<1> DEFINE s == <<a, b>>
<1>1. s \in Seq(S) /\ Len(s) = 2 /\ s[1] = a /\ s[2] = b /\ DOMAIN s = 1 .. 2
  OBVIOUS
<1>2. DOMAIN s = {1, 2}
  OBVIOUS
<1> HIDE DEF s
<1>3. Range(s) = {a, b}
  BY <1>1, <1>2 DEF Range
<1>. QED BY <1>1, <1>3 DEF s

LEMMA Triples ==
  ASSUME NEW S, NEW a \in S, NEW b \in S, NEW c \in S
  PROVE  /\ <<a, b, c>> \in Seq(S) /\ Len(<<a, b, c>>) = 3
         /\ <<a, b, c>>[2] = b /\ Range(<<a, b, c>>) = {a, b, c}
<1> DEFINE s == <<a, b, c>>
<1>1. s \in Seq(S) /\ Len(s) = 3 /\ s[1] = a /\ s[2] = b /\ s[3] = c /\ DOMAIN s = 1 .. 3
  OBVIOUS
<1>2. DOMAIN s = {1, 2, 3}
  OBVIOUS
<1> HIDE DEF s
<1>3. Range(s) = {a, b, c}
  BY <1>1, <1>2 DEF Range
<1>. QED BY <1>1, <1>3 DEF s

LEMMA ArgumentFacts ==
  ASSUME NEW a \in Argument
  PROVE  /\ a.sep \in {"", "=", ":"} /\ (a.sep # "" => a.key \in Word)
         /\ a.val \in Seq(Word) /\ a.val # << >>
         /\ Whole(a) \in Seq(Word) /\ Whole(a) # << >>
         /\ a.sep # "" => Range(Whole(a)) = {a.key} \cup Range(a.val)
         /\ a.sep = "" => Whole(a) = a.val
<1>1. /\ a.sep \in {"", "=", ":"} /\ a.key \in Word \cup {""}
      /\ a.val \in Seq(Word) /\ a.val # << >>
      /\ (a.sep = "" <=> a.key = "")
  BY DEF Argument
<1>2. a.sep # "" => a.key \in Word
  BY <1>1
<1>3. CASE a.sep = ""
  BY <1>1, <1>2, <1>3 DEF Whole
<1>4. CASE a.sep # ""
  <2>1. Whole(a) = <<a.key>> \o a.val
    BY <1>4 DEF Whole
  <2> DEFINE k == <<a.key>>
             v == a.val
  <2>2. k \in Seq(Word) /\ Len(k) = 1 /\ Range(k) = {a.key}
    BY <1>2, <1>4, Singles
  <2> HIDE DEF k
  <2>3. Whole(a) = k \o v
    BY <2>1 DEF k
  <2> HIDE DEF v
  <2>4. v \in Seq(Word)
    BY <1>1 DEF v
  <2>5. k \o v \in Seq(Word) /\ k \o v # << >> /\ Range(k \o v) = Range(k) \cup Range(v)
    <3>1. k # << >>
      BY <2>2, EmptySeq
    <3>. QED BY <2>2, <2>4, <3>1, Concat, ConcatEqualIffEmpty
  <2>. QED BY <1>1, <1>2, <1>4, <2>2, <2>3, <2>5 DEF v
<1>. QED BY <1>3, <1>4

\* A key before a token.
LEMMA KeyedFacts ==
  ASSUME NEW k \in Sign, NEW u \in Token
  PROVE  LET x == Cat(<<k, "=">>, u)
         IN /\ x \in Token /\ Len(x) = Len(u) + 2 /\ Len(u) \in Nat
            /\ x[1] = k /\ x[2] = "="
            /\ \A i \in 1 .. Len(u) : x[i + 2] = u[i]
            /\ Range(x) = {k, "="} \cup Range(u)
<1> DEFINE h == <<k, "=">>
<1>1. h \in Token /\ Len(h) = 2 /\ DOMAIN h = 1 .. 2 /\ h[1] = k /\ h[2] = "=" /\ Range(h) = {k, "="}
  <2>1. "=" \in Sign
    BY DEF Sign, Mark
  <2>. QED BY <2>1, Pairs DEF Token
<1> HIDE DEF h
<1> DEFINE x == h \o u
<1>2. /\ x \in Token /\ Len(x) = 2 + Len(u) /\ Len(u) \in Nat
      /\ DOMAIN u = 1 .. Len(u)
      /\ \A i \in DOMAIN h : x[i] = h[i]
      /\ \A i \in DOMAIN u : x[2 + i] = u[i]
      /\ Range(x) = Range(h) \cup Range(u)
  BY <1>1, Concat DEF Token
<1> HIDE DEF x
<1>3. /\ x[1] = k /\ x[2] = "="
      /\ \A i \in 1 .. Len(u) : x[i + 2] = u[i]
  BY <1>1, <1>2
<1>4. Cat(<<k, "=">>, u) = x
  BY DEF Cat, h, x
<1>. QED BY <1>1, <1>2, <1>3, <1>4

\* A masked value is one token, which shows no more than the value's ends.
LEMMA MaskFacts ==
  ASSUME NEW words \in Seq(Word), words # << >>
  PROVE  \E u \in Token :
           /\ MaskValue(words) = <<u>>
           /\ Range(u) \subseteq Mark \cup Ends(words)
           /\ Public(u) = <<"?">>
           /\ \A k \in Sign : Public(Cat(<<k, "=">>, u)) = Cat(<<k, "=">>, <<"?">>)
<1>1. CASE words \in Brief
  <2>1. MaskValue(words) = <<Stars>>
    BY <1>1 DEF MaskValue
  <2>2. /\ Stars \in Token /\ Len(Stars) = 1 /\ Stars[1] = "******"
        /\ Range(Stars) \subseteq Mark
    <3>1. "******" \in Sign /\ "******" \in Mark
      BY DEF Sign, Mark
    <3>. QED BY <3>1, Singles DEF Stars, Token
  <2>3. Public(Stars) = <<"?">>
    BY <2>2 DEF Public
  <2>4. ASSUME NEW k \in Sign PROVE Public(Cat(<<k, "=">>, Stars)) = Cat(<<k, "=">>, <<"?">>)
    <3> DEFINE x == Cat(<<k, "=">>, Stars)
    <3>1. Len(x) = 3 /\ x[1] = k /\ x[2] = "=" /\ x[3] = "******"
      <4>1. Len(x) = Len(Stars) + 2 /\ x[1] = k /\ x[2] = "="
            /\ \A i \in 1 .. Len(Stars) : x[i + 2] = Stars[i]
        BY <2>2, KeyedFacts
      <4> HIDE DEF x
      <4>2. x[1 + 2] = Stars[1]
        BY <2>2, <4>1
      <4>. QED BY <2>2, <4>1, <4>2
    <3> HIDE DEF x
    <3>2. Public(x) = Cat(<<k, "=">>, <<"?">>)
      BY <3>1 DEF Public
    <3>. QED BY <3>2 DEF x
  <2>. QED BY <2>1, <2>2, <2>3, <2>4
<1>2. CASE words \notin Brief
  <2> DEFINE h == Head3[words[1]]
             e == Tail3[Last(words)]
             u == <<h, "...", e>>
  <2>1. h \in Sign /\ e \in Sign
    <3>1. Len(words) \in Nat /\ Len(words) # 0 /\ DOMAIN words = 1 .. Len(words)
      BY LenProperties, EmptySeq
    <3>2. words[1] \in Word /\ Last(words) \in Word
      BY <3>1, ElementOfSeq DEF Last
    <3>. QED BY <3>2 DEF Sign
  <2>2. MaskValue(words) = <<u>> /\ Ends(words) = {h, e}
    BY <1>2 DEF MaskValue, Ends
  <2> HIDE DEF h, e
  <2>3. /\ u \in Token /\ Len(u) = 3 /\ u[2] = "..." /\ Range(u) = {h, "...", e}
    <3>1. "..." \in Sign
      BY DEF Sign, Mark
    <3>. QED BY <2>1, <3>1, Triples DEF Token
  <2> HIDE DEF u
  <2>4. Public(u) = <<"?">>
    BY <2>3 DEF Public
  <2>5. ASSUME NEW k \in Sign PROVE Public(Cat(<<k, "=">>, u)) = Cat(<<k, "=">>, <<"?">>)
    <3> DEFINE x == Cat(<<k, "=">>, u)
    <3>1. Len(x) = 5 /\ x[1] = k /\ x[2] = "=" /\ x[4] = "..."
      <4>1. Len(x) = Len(u) + 2 /\ x[1] = k /\ x[2] = "="
            /\ \A i \in 1 .. Len(u) : x[i + 2] = u[i]
        BY <2>3, KeyedFacts
      <4> HIDE DEF x
      <4>2. x[2 + 2] = u[2]
        BY <2>3, <4>1
      <4>. QED BY <2>3, <4>1, <4>2
    <3> HIDE DEF x
    <3>2. Public(x) = Cat(<<k, "=">>, <<"?">>)
      BY <3>1 DEF Public
    <3>. QED BY <3>2 DEF x
  <2>. QED BY <2>2, <2>3, <2>4, <2>5 DEF Mark
<1>. QED BY <1>1, <1>2

\* A value left as it is says in public what it says.
LEMMA OpenFacts ==
  ASSUME NEW val \in Seq(Word)
  PROVE  /\ Words(val) \in Seq(Token) /\ Len(Words(val)) = Len(val)
         /\ DOMAIN Words(val) = DOMAIN val
         /\ \A i \in DOMAIN val :
              /\ Range(Words(val)[i]) = {val[i]}
              /\ Public(Words(val)[i]) = Words(val)[i]
              /\ \A k \in Sign : Public(Cat(<<k, "=">>, Words(val)[i])) = Cat(<<k, "=">>, Words(val)[i])
<1>1. DOMAIN val = 1 .. Len(val) /\ Len(val) \in Nat /\ \A i \in DOMAIN val : val[i] \in Word
  BY LenProperties, ElementOfSeq
<1>2. ASSUME NEW w \in Word
      PROVE  /\ <<w>> \in Token /\ Range(<<w>>) = {w} /\ Public(<<w>>) = <<w>>
             /\ \A k \in Sign : Public(Cat(<<k, "=">>, <<w>>)) = Cat(<<k, "=">>, <<w>>)
  <2>1. w \in Sign /\ w # "******"
    BY WordAssumption DEF Mark, Sign
  <2> DEFINE u == <<w>>
  <2>2. u \in Token /\ Len(u) = 1 /\ u[1] = w /\ Range(u) = {w}
    BY <2>1, Singles DEF Token
  <2> HIDE DEF u
  <2>3. Public(u) = u
    BY <2>1, <2>2 DEF Public
  <2>4. ASSUME NEW k \in Sign PROVE Public(Cat(<<k, "=">>, u)) = Cat(<<k, "=">>, u)
    <3> DEFINE x == Cat(<<k, "=">>, u)
    <3>1. Len(x) = 3 /\ x[2] = "=" /\ x[3] = w
      <4>1. Len(x) = Len(u) + 2 /\ x[2] = "="
            /\ \A i \in 1 .. Len(u) : x[i + 2] = u[i]
        BY <2>2, KeyedFacts
      <4> HIDE DEF x
      <4>2. x[1 + 2] = u[1]
        BY <2>2, <4>1
      <4>. QED BY <2>2, <4>1, <4>2
    <3> HIDE DEF x
    <3>2. Public(x) = x
      BY <2>1, <3>1 DEF Public
    <3>. QED BY <3>2 DEF x
  <2>. QED BY <2>2, <2>3, <2>4 DEF u
<1>3. Words(val) \in [1 .. Len(val) -> Token]
  BY <1>1, <1>2 DEF Words
<1>4. DOMAIN Words(val) = DOMAIN val /\ \A i \in DOMAIN val : Words(val)[i] = <<val[i]>>
  BY DEF Words
<1>5. Words(val) \in Seq(Token) /\ Len(Words(val)) = Len(val)
  BY <1>1, <1>3, FunctionIsSeq
<1>. QED BY <1>1, <1>2, <1>4, <1>5

\* The text of an argument, token by token.
LEMMA TextFacts ==
  ASSUME NEW a \in Argument, NEW tokens \in Seq(Token), tokens # << >>
  PROVE  LET x == Text(a, tokens)
         IN /\ x \in Seq(Token) /\ Len(tokens) \in Nat /\ Len(x) \in Nat
            /\ a.sep = "" => x = tokens
            /\ a.sep = "=" => /\ Len(x) = Len(tokens) /\ x[1] = Cat(<<a.key, "=">>, tokens[1])
                              /\ \A i \in 2 .. Len(tokens) : x[i] = tokens[i]
            /\ a.sep = ":" => /\ Len(x) = Len(tokens) + 1 /\ x[1] = <<a.key, ":">>
                              /\ \A i \in 1 .. Len(tokens) : x[i + 1] = tokens[i]
<1>1. a.sep \in {"", "=", ":"} /\ (a.sep # "" => a.key \in Sign)
  BY ArgumentFacts DEF Sign
<1>2. Len(tokens) \in Nat /\ DOMAIN tokens = 1 .. Len(tokens) /\ Len(tokens) # 0
  BY LenProperties, EmptySeq
<1>3. CASE a.sep = ""
  <2>1. Text(a, tokens) = tokens
    BY <1>3 DEF Text
  <2>. QED BY <1>2, <1>3, <2>1
<1>4. CASE a.sep = "="
  <2> DEFINE first == Cat(<<a.key, "=">>, tokens[1])
             h == <<first>>
             r == Tail(tokens)
             x == h \o r
  <2>1. /\ Head(tokens) = tokens[1] /\ r \in Seq(Token) /\ Len(r) = Len(tokens) - 1
        /\ \A i \in 1 .. Len(r) : r[i] = tokens[i + 1]
    BY HeadTailProperties
  <2>2. Text(a, tokens) = x
    BY <1>4, <2>1 DEF Text, Cat
  <2>3. first \in Token
    <3>1. tokens[1] \in Token /\ a.key \in Sign
      BY <1>1, <1>2, <1>4, ElementOfSeq
    <3>. QED BY <3>1, KeyedFacts
  <2> HIDE DEF first, r
  <2>4. h \in Seq(Token) /\ Len(h) = 1 /\ DOMAIN h = 1 .. 1 /\ h[1] = first
    BY <2>3, Singles
  <2> HIDE DEF h
  <2>5. /\ x \in Seq(Token) /\ Len(x) = 1 + Len(r) /\ Len(r) \in Nat /\ DOMAIN r = 1 .. Len(r)
        /\ \A i \in DOMAIN h : x[i] = h[i]
        /\ \A i \in DOMAIN r : x[1 + i] = r[i]
    <3>0. h \in Seq(Token) /\ r \in Seq(Token)
      BY <2>1, <2>4
    <3>1. /\ h \o r \in Seq(Token) /\ Len(h \o r) = Len(h) + Len(r) /\ Len(r) \in Nat
          /\ DOMAIN r = 1 .. Len(r)
          /\ \A i \in DOMAIN h : (h \o r)[i] = h[i]
          /\ \A i \in DOMAIN r : (h \o r)[Len(h) + i] = r[i]
      BY <3>0, Concat
    <3>2. Len(h) = 1
      BY <2>4
    <3>. QED BY <3>1, <3>2, Zenon
  <2> HIDE DEF x
  <2>6. Len(x) = Len(tokens) /\ x[1] = first
    BY <1>2, <2>1, <2>4, <2>5
  <2>7. ASSUME NEW i \in 2 .. Len(tokens) PROVE x[i] = tokens[i]
    <3>1. i - 1 \in 1 .. Len(r) /\ (i - 1) + 1 = i /\ 1 + (i - 1) = i
      BY <1>2, <2>1
    <3>2. x[1 + (i - 1)] = r[i - 1] /\ r[i - 1] = tokens[(i - 1) + 1]
      BY <2>1, <2>5, <3>1
    <3>. QED BY <3>1, <3>2
  <2>. QED BY <1>2, <1>4, <2>2, <2>5, <2>6, <2>7 DEF first
<1>5. CASE a.sep = ":"
  <2> DEFINE first == <<a.key, ":">>
             h == <<first>>
             x == h \o tokens
  <2>1. Text(a, tokens) = x
    BY <1>5 DEF Text
  <2>2. first \in Token
    <3>1. ":" \in Sign /\ a.key \in Sign
      BY <1>1, <1>5 DEF Sign, Mark
    <3>. QED BY <3>1, Pairs DEF Token
  <2> HIDE DEF first
  <2>3. h \in Seq(Token) /\ Len(h) = 1 /\ DOMAIN h = 1 .. 1 /\ h[1] = first
    BY <2>2, Singles
  <2> HIDE DEF h
  <2>4. /\ x \in Seq(Token) /\ Len(x) = 1 + Len(tokens)
        /\ \A i \in DOMAIN h : x[i] = h[i]
        /\ \A i \in DOMAIN tokens : x[1 + i] = tokens[i]
    <3>0. h \in Seq(Token)
      BY <2>3
    <3>1. /\ h \o tokens \in Seq(Token) /\ Len(h \o tokens) = Len(h) + Len(tokens)
          /\ \A i \in DOMAIN h : (h \o tokens)[i] = h[i]
          /\ \A i \in DOMAIN tokens : (h \o tokens)[Len(h) + i] = tokens[i]
      BY <3>0, Concat
    <3>2. Len(h) = 1
      BY <2>3
    <3>. QED BY <3>1, <3>2, Zenon
  <2> HIDE DEF x
  <2>5. /\ x[1] = first /\ Len(x) = Len(tokens) + 1
        /\ \A i \in 1 .. Len(tokens) : x[i + 1] = tokens[i]
    BY <1>2, <2>3, <2>4
  <2>. QED BY <1>2, <1>5, <2>1, <2>4, <2>5 DEF first
<1>. QED BY <1>1, <1>3, <1>4, <1>5

\* The images are what the tokens say in public, alone and behind a key.
Publishes(tokens, images) ==
  /\ Len(images) = Len(tokens)
  /\ \A i \in 1 .. Len(tokens) :
       /\ images[i] = Public(tokens[i])
       /\ \A k \in Sign : Public(Cat(<<k, "=">>, tokens[i])) = Cat(<<k, "=">>, images[i])

\* Then the text of the argument with the images is what it says in public.
LEMMA TextPublic ==
  ASSUME NEW a \in Argument,
         NEW tokens \in Seq(Token), tokens # << >>, NEW images \in Seq(Token),
         Publishes(tokens, images)
  PROVE  /\ DOMAIN Text(a, images) = DOMAIN Text(a, tokens)
         /\ Text(a, images) = [i \in DOMAIN Text(a, tokens) |-> Public(Text(a, tokens)[i])]
<1> DEFINE x == Text(a, tokens)
           y == Text(a, images)
           n == Len(tokens)
<1>0. a.sep \in {"", "=", ":"} /\ (a.sep # "" => a.key \in Sign)
  BY ArgumentFacts DEF Sign
<1>1. n \in Nat /\ n # 0 /\ Len(images) = n /\ images # << >>
  BY LenProperties, EmptySeq DEF Publishes
<1>2. /\ x \in Seq(Token) /\ y \in Seq(Token)
      /\ a.sep = "" => x = tokens /\ y = images
      /\ a.sep = "=" => /\ Len(x) = n /\ x[1] = Cat(<<a.key, "=">>, tokens[1])
                        /\ \A i \in 2 .. n : x[i] = tokens[i]
                        /\ Len(y) = n /\ y[1] = Cat(<<a.key, "=">>, images[1])
                        /\ \A i \in 2 .. n : y[i] = images[i]
      /\ a.sep = ":" => /\ Len(x) = n + 1 /\ x[1] = <<a.key, ":">>
                        /\ \A i \in 1 .. n : x[i + 1] = tokens[i]
                        /\ Len(y) = n + 1 /\ y[1] = <<a.key, ":">>
                        /\ \A i \in 1 .. n : y[i + 1] = images[i]
  BY <1>0, <1>1, TextFacts
<1>3. /\ DOMAIN x = 1 .. Len(x) /\ DOMAIN y = 1 .. Len(y)
      /\ y = [i \in 1 .. Len(y) |-> y[i]]
  BY <1>2, LenProperties
<1> HIDE DEF x, y, n
<1>4. CASE a.sep = ""
  <2>1. Len(x) = n /\ Len(y) = n
    BY <1>1, <1>2, <1>4 DEF n
  <2>2. \A i \in 1 .. n : y[i] = Public(x[i])
    BY <1>2, <1>4 DEF n, Publishes
  <2>. QED BY <1>3, <2>1, <2>2 DEF x, y
<1>5. CASE a.sep = "="
  <2>1. \A i \in 1 .. n : y[i] = Public(x[i])
    <3> TAKE i \in 1 .. n
    <3>1. CASE i = 1
      <4>1. Public(Cat(<<a.key, "=">>, tokens[1])) = Cat(<<a.key, "=">>, images[1])
        BY <1>0, <1>1, <1>5 DEF n, Publishes
      <4>. QED BY <1>2, <1>5, <3>1, <4>1
    <3>2. CASE i # 1
      <4>1. i \in 2 .. n
        BY <1>1, <3>2
      <4>. QED BY <1>2, <1>5, <4>1 DEF n, Publishes
    <3>. QED BY <3>1, <3>2
  <2>2. Len(x) = n /\ Len(y) = n
    BY <1>2, <1>5
  <2>. QED BY <1>3, <2>1, <2>2 DEF x, y
<1>6. CASE a.sep = ":"
  <2>1. Len(x) = n + 1 /\ Len(y) = n + 1
    BY <1>2, <1>6
  <2>2. \A i \in 1 .. n + 1 : y[i] = Public(x[i])
    <3> TAKE i \in 1 .. n + 1
    <3>1. CASE i = 1
      <4> DEFINE u == <<a.key, ":">>
      <4>1. Len(u) = 2
        OBVIOUS
      <4> HIDE DEF u
      <4>2. Public(u) = u
        BY <4>1 DEF Public
      <4>. QED BY <1>2, <1>6, <3>1, <4>2 DEF u
    <3>2. CASE i # 1
      <4>1. i - 1 \in 1 .. n /\ (i - 1) + 1 = i
        BY <1>1, <3>2
      <4>2. x[(i - 1) + 1] = tokens[i - 1] /\ y[(i - 1) + 1] = images[i - 1]
        BY <1>2, <1>6, <4>1
      <4>3. images[i - 1] = Public(tokens[i - 1])
        BY <4>1 DEF n, Publishes
      <4>. QED BY <4>1, <4>2, <4>3
    <3>. QED BY <3>1, <3>2
  <2>. QED BY <1>3, <2>1, <2>2 DEF x, y
<1>. QED BY <1>0, <1>4, <1>5, <1>6

\* What the text of an argument shows.
LEMMA TextRange ==
  ASSUME NEW a \in Argument, NEW tokens \in Seq(Token), tokens # << >>,
         NEW u \in Range(Text(a, tokens))
  PROVE  Range(u) \subseteq Mark \cup (IF a.sep = "" THEN {} ELSE {a.key})
                            \cup UNION {Range(tokens[i]) : i \in DOMAIN tokens}
<1> DEFINE x == Text(a, tokens)
           n == Len(tokens)
           R == UNION {Range(tokens[i]) : i \in DOMAIN tokens}
<1>1. /\ x \in Seq(Token) /\ n \in Nat /\ Len(x) \in Nat
      /\ a.sep = "" => x = tokens
      /\ a.sep = "=" => /\ Len(x) = n /\ x[1] = Cat(<<a.key, "=">>, tokens[1])
                        /\ \A i \in 2 .. n : x[i] = tokens[i]
      /\ a.sep = ":" => /\ Len(x) = n + 1 /\ x[1] = <<a.key, ":">>
                        /\ \A i \in 1 .. n : x[i + 1] = tokens[i]
  BY TextFacts
<1>2. a.sep \in {"", "=", ":"} /\ (a.sep # "" => a.key \in Sign)
  BY ArgumentFacts DEF Sign
<1>3. /\ DOMAIN tokens = 1 .. n /\ n # 0 /\ \A i \in 1 .. n : tokens[i] \in Token
      /\ DOMAIN x = 1 .. Len(x)
  BY <1>1, LenProperties, EmptySeq, ElementOfSeq
<1> HIDE DEF x, n
<1>4. PICK k \in DOMAIN x : u = x[k]
  BY DEF Range, x
<1>5. \A i \in 1 .. n : Range(tokens[i]) \subseteq R
  BY <1>3
<1> HIDE DEF R
<1>6. CASE a.sep = ""
  <2>1. k \in 1 .. n /\ u = tokens[k]
    BY <1>1, <1>3, <1>4, <1>6
  <2>. QED BY <1>5, <2>1 DEF R
<1>7. CASE a.sep = "="
  <2>1. CASE k = 1
    <3>1. u = Cat(<<a.key, "=">>, tokens[1]) /\ 1 \in 1 .. n
      BY <1>1, <1>3, <1>4, <1>7, <2>1
    <3>2. Range(u) = {a.key, "="} \cup Range(tokens[1])
      BY <1>2, <1>3, <1>7, <3>1, KeyedFacts
    <3>3. "=" \in Mark /\ Range(tokens[1]) \subseteq R
      BY <1>5, <3>1 DEF Mark
    <3>. QED BY <1>7, <3>2, <3>3 DEF R
  <2>2. CASE k # 1
    <3>1. k \in 2 .. n /\ k \in 1 .. n
      BY <1>1, <1>3, <1>7, <2>2
    <3>2. u = tokens[k]
      BY <1>1, <1>4, <1>7, <3>1
    <3>. QED BY <1>5, <3>1, <3>2 DEF R
  <2>. QED BY <2>1, <2>2
<1>8. CASE a.sep = ":"
  <2>1. CASE k = 1
    <3>1. u = <<a.key, ":">>
      BY <1>1, <1>4, <1>8, <2>1
    <3>2. ":" \in Mark /\ ":" \in Sign /\ a.key \in Sign
      BY <1>2, <1>8 DEF Mark, Sign
    <3>3. Range(u) = {a.key, ":"}
      BY <3>1, <3>2, Pairs
    <3>. QED BY <1>8, <3>2, <3>3
  <2>2. CASE k # 1
    <3>1. k - 1 \in 1 .. n /\ (k - 1) + 1 = k
      <4>1. k \in 1 .. n + 1
        BY <1>1, <1>3, <1>8
      <4>2. n \in Nat
        BY <1>1
      <4>. QED BY <2>2, <4>1, <4>2
    <3>2. x[(k - 1) + 1] = tokens[k - 1]
      BY <1>1, <1>8, <3>1
    <3>3. u = tokens[k - 1]
      BY <1>4, <3>1, <3>2
    <3>. QED BY <1>5, <3>1, <3>3 DEF R
  <2>. QED BY <2>1, <2>2
<1>. QED BY <1>2, <1>6, <1>7, <1>8

\* The masked text of an argument by itself: what it shows, and that in
\* public it says what PublicText says.
LEMMA StringFacts ==
  ASSUME NEW a \in Argument
  PROVE  LET x == MaskString(a)
         IN /\ x \in Seq(Token)
            /\ \A u \in Range(x) :
                 Range(u) \subseteq Mark \cup (IF Hides(a) THEN {a.key} \cup Ends(a.val)
                                               ELSE Range(Whole(a)))
            /\ Text(a, IF Hides(a) THEN Hidden ELSE Words(a.val)) = [k \in DOMAIN x |-> Public(x[k])]
<1>1. /\ a.val \in Seq(Word) /\ a.val # << >>
      /\ (a.sep # "" => Range(Whole(a)) = {a.key} \cup Range(a.val))
      /\ (a.sep = "" => Whole(a) = a.val)
  BY ArgumentFacts
<1>2. CASE Hides(a)
  <2>1. PICK u \in Token :
          /\ MaskValue(a.val) = <<u>>
          /\ Range(u) \subseteq Mark \cup Ends(a.val)
          /\ Public(u) = <<"?">>
          /\ \A k \in Sign : Public(Cat(<<k, "=">>, u)) = Cat(<<k, "=">>, <<"?">>)
    BY <1>1, MaskFacts
  <2> DEFINE tokens == <<u>>
             mark == <<"?">>
             images == <<mark>>
  <2>2. mark \in Token
    <3>1. "?" \in Sign
      BY DEF Sign
    <3>. QED BY <3>1, Singles DEF Token
  <2>3. Hidden = images /\ MaskString(a) = Text(a, tokens)
    BY <1>2, <2>1 DEF Hidden, MaskString
  <2>4. /\ tokens \in Seq(Token) /\ Len(tokens) = 1 /\ DOMAIN tokens = 1 .. 1 /\ tokens[1] = u
    BY Singles
  <2> HIDE DEF mark
  <2>5. /\ images \in Seq(Token) /\ Len(images) = 1 /\ images[1] = mark
    BY <2>2, Singles
  <2> HIDE DEF images, tokens
  <2>6. tokens # << >>
    BY <2>4, EmptySeq
  <2>7. Publishes(tokens, images)
    BY <2>1, <2>4, <2>5 DEF Publishes, mark
  <2>8. Text(a, tokens) \in Seq(Token)
    BY <2>4, <2>6, TextFacts
  <2>9. Text(a, images) = [k \in DOMAIN Text(a, tokens) |-> Public(Text(a, tokens)[k])]
    BY <2>4, <2>5, <2>6, <2>7, TextPublic
  <2>10. UNION {Range(tokens[i]) : i \in DOMAIN tokens} = Range(u)
    BY <2>4
  <2>11. \A v \in Range(Text(a, tokens)) : Range(v) \subseteq Mark \cup {a.key} \cup Ends(a.val)
    <3> TAKE v \in Range(Text(a, tokens))
    <3>1. Range(v) \subseteq Mark \cup (IF a.sep = "" THEN {} ELSE {a.key}) \cup Range(u)
      BY <2>4, <2>6, <2>10, TextRange
    <3>. QED BY <2>1, <3>1
  <2>. QED BY <1>2, <2>3, <2>8, <2>9, <2>11
<1>3. CASE ~ Hides(a)
  <2> DEFINE tokens == Words(a.val)
  <2>1. MaskString(a) = Text(a, tokens)
    BY <1>3 DEF MaskString
  <2>2. /\ tokens \in Seq(Token) /\ Len(tokens) = Len(a.val) /\ DOMAIN tokens = DOMAIN a.val
        /\ \A i \in DOMAIN a.val :
             /\ Range(tokens[i]) = {a.val[i]}
             /\ Public(tokens[i]) = tokens[i]
             /\ \A k \in Sign : Public(Cat(<<k, "=">>, tokens[i])) = Cat(<<k, "=">>, tokens[i])
    BY <1>1, OpenFacts
  <2>3. DOMAIN a.val = 1 .. Len(a.val) /\ Len(a.val) # 0
    BY <1>1, LenProperties, EmptySeq
  <2> HIDE DEF tokens
  <2>4. tokens # << >>
    BY <2>2, <2>3, EmptySeq
  <2>5. Publishes(tokens, tokens)
    BY <2>2, <2>3 DEF Publishes
  <2>6. Text(a, tokens) \in Seq(Token)
    BY <2>2, <2>4, TextFacts
  <2>7. Text(a, tokens) = [k \in DOMAIN Text(a, tokens) |-> Public(Text(a, tokens)[k])]
    BY <2>2, <2>4, <2>5, TextPublic
  <2>8. UNION {Range(tokens[i]) : i \in DOMAIN tokens} = Range(a.val)
    <3>1. \A i \in DOMAIN tokens : Range(tokens[i]) = {a.val[i]}
      BY <2>2
    <3>2. Range(a.val) = {a.val[i] : i \in DOMAIN tokens}
      BY <2>2 DEF Range
    <3>. QED BY <3>1, <3>2
  <2>9. \A v \in Range(Text(a, tokens)) : Range(v) \subseteq Mark \cup Range(Whole(a))
    <3> TAKE v \in Range(Text(a, tokens))
    <3>1. Range(v) \subseteq Mark \cup (IF a.sep = "" THEN {} ELSE {a.key}) \cup Range(a.val)
      BY <2>2, <2>4, <2>8, TextRange
    <3>. QED BY <1>1, <3>1
  <2>. QED BY <1>3, <2>1, <2>6, <2>7, <2>9 DEF tokens
<1>. QED BY <1>2, <1>3

\* PublicText's piece for argument i.
PublicPiece(args, i) ==
  IF FollowsCredential(args, i) THEN Hidden
  ELSE Text(args[i], IF Hides(args[i]) THEN Hidden ELSE Words(args[i].val))

\* The same of an argument in its list.
LEMMA PieceFacts ==
  ASSUME NEW args \in Seq(Argument), NEW i \in DOMAIN args
  PROVE  LET x == MaskArgs(args)[i]
         IN /\ x \in Seq(Token)
            /\ \A u \in Range(x) :
                 Range(u) \subseteq
                   Mark \cup (IF FollowsCredential(args, i) THEN Ends(Whole(args[i]))
                              ELSE IF Hides(args[i]) THEN {args[i].key} \cup Ends(args[i].val)
                              ELSE Range(Whole(args[i])))
            /\ PublicPiece(args, i) = [k \in DOMAIN x |-> Public(x[k])]
<1> DEFINE a == args[i]
<1>1. a \in Argument
  BY ElementOfSeq, LenProperties
<1>2. MaskArgs(args)[i] = IF FollowsCredential(args, i) THEN MaskValue(Whole(a)) ELSE MaskString(a)
  BY DEF MaskArgs
<1> HIDE DEF a
<1>3. CASE FollowsCredential(args, i)
  <2>1. Whole(a) \in Seq(Word) /\ Whole(a) # << >>
    BY <1>1, ArgumentFacts
  <2>2. PICK u \in Token : /\ MaskValue(Whole(a)) = <<u>>
                          /\ Range(u) \subseteq Mark \cup Ends(Whole(a))
                          /\ Public(u) = <<"?">>
    BY <2>1, MaskFacts
  <2> DEFINE x == <<u>>
  <2>3. x \in Seq(Token) /\ DOMAIN x = 1 .. 1 /\ x[1] = u /\ Range(x) = {u}
    BY Singles
  <2>4. Hidden = [k \in 1 .. 1 |-> <<"?">>]
    BY DEF Hidden
  <2> HIDE DEF x
  <2>5. Hidden = [k \in DOMAIN x |-> Public(x[k])]
    BY <2>2, <2>3, <2>4
  <2>6. MaskArgs(args)[i] = x
    BY <1>2, <1>3, <2>2 DEF x
  <2>. QED BY <1>3, <2>2, <2>3, <2>5, <2>6 DEF PublicPiece, a
<1>4. CASE ~ FollowsCredential(args, i)
  <2>1. MaskArgs(args)[i] = MaskString(a)
    BY <1>2, <1>4
  <2>2. PublicPiece(args, i) = Text(a, IF Hides(a) THEN Hidden ELSE Words(a.val))
    BY <1>4 DEF PublicPiece, a
  <2>. QED BY <1>1, <1>4, <2>1, <2>2, StringFacts DEF a
<1>. QED BY <1>3, <1>4

LEMMA SummaryFacts ==
  ASSUME NEW args \in Seq(Argument)
  PROVE  LET x == SummarizeArgs(args)
         IN /\ x \in Seq(Token)
            /\ \A u \in Range(x) : \E i \in DOMAIN args : u \in Range(MaskArgs(args)[i])
            /\ \A i \in DOMAIN args : Range(MaskArgs(args)[i]) \subseteq Range(x)
            /\ Join([i \in DOMAIN args |-> PublicPiece(args, i)]) = [k \in DOMAIN x |-> Public(x[k])]
<1> DEFINE pieces == MaskArgs(args)
           images == [i \in DOMAIN args |-> PublicPiece(args, i)]
           U == {Public(u) : u \in Token}
           g == [u \in Token |-> Public(u)]
<1>1. DOMAIN args = 1 .. Len(args) /\ Len(args) \in Nat
  BY LenProperties
<1>2. DOMAIN pieces = 1 .. Len(args) /\ \A i \in 1 .. Len(args) : pieces[i] \in Seq(Token)
  BY <1>1, PieceFacts DEF MaskArgs
<1>3. pieces \in Seq(Seq(Token)) /\ Len(pieces) = Len(args)
  <2>1. pieces = [i \in DOMAIN args |-> pieces[i]]
    BY DEF MaskArgs
  <2> HIDE DEF pieces
  <2>2. pieces \in [1 .. Len(args) -> Seq(Token)]
    BY <1>1, <1>2, <2>1
  <2>. QED BY <1>1, <2>2, FunctionIsSeq
<1>4. \A i \in DOMAIN args : images[i] = [k \in DOMAIN pieces[i] |-> Public(pieces[i][k])]
  BY PieceFacts
<1>5. \A i \in 1 .. Len(args) : /\ images[i] \in Seq(U)
                               /\ images[i] = [k \in DOMAIN pieces[i] |-> g[pieces[i][k]]]
  <2> TAKE i \in 1 .. Len(args)
  <2> DEFINE q == pieces[i]
             y == images[i]
  <2>1. q \in Seq(Token) /\ y = [k \in DOMAIN q |-> Public(q[k])]
    BY <1>1, <1>2, <1>4
  <2> HIDE DEF q, y
  <2>2. DOMAIN q = 1 .. Len(q) /\ Len(q) \in Nat /\ \A k \in DOMAIN q : q[k] \in Token
    BY <2>1, LenProperties, ElementOfSeq
  <2>3. y \in [1 .. Len(q) -> U] /\ y = [k \in DOMAIN q |-> g[q[k]]]
    BY <2>1, <2>2
  <2>4. y \in Seq(U)
    BY <2>2, <2>3, FunctionIsSeq
  <2>. QED BY <2>3, <2>4 DEF q, y
<1>6. images \in Seq(Seq(U)) /\ Len(images) = Len(args)
  <2>1. DOMAIN images = 1 .. Len(args) /\ images = [i \in DOMAIN images |-> images[i]]
    BY <1>1
  <2> HIDE DEF images, U
  <2>2. images \in [1 .. Len(args) -> Seq(U)]
    BY <1>5, <2>1
  <2>. QED BY <1>1, <2>2, FunctionIsSeq
<1>7. g \in [Token -> U]
  OBVIOUS
<1>8. Join(pieces) \in Seq(Token)
      /\ Range(Join(pieces)) = UNION {Range(pieces[i]) : i \in DOMAIN pieces}
  BY <1>3, JoinFacts
<1>9. Join(images) = Each(g, Join(pieces))
  <2>1. \A i \in DOMAIN pieces : images[i] = Each(g, pieces[i])
    BY <1>2, <1>5 DEF Each
  <2>2. Len(images) = Len(pieces)
    BY <1>3, <1>6
  <2> HIDE DEF pieces, images, U, g
  <2>. QED BY <1>3, <1>6, <1>7, <2>1, <2>2, JoinMap
<1>10. \A k \in DOMAIN Join(pieces) : Join(pieces)[k] \in Token
  BY <1>8, LenProperties, ElementOfSeq
<1>11. Join(images) = [k \in DOMAIN Join(pieces) |-> Public(Join(pieces)[k])]
  BY <1>9, <1>10 DEF Each
<1>12. /\ \A u \in Range(Join(pieces)) : \E i \in DOMAIN args : u \in Range(pieces[i])
       /\ \A i \in DOMAIN args : Range(pieces[i]) \subseteq Range(Join(pieces))
  BY <1>1, <1>2, <1>8
<1>. QED BY <1>8, <1>11, <1>12 DEF SummarizeArgs

LEMMA EntryOfFacts ==
  ASSUME NEW t \in Tool, NEW file \in FileChoice[t], NEW e \in Described(file)
  PROVE  /\ EntryOf(file, e.name) = e
         /\ e.command \in Argument /\ e.args \in Seq(Argument) /\ e.env \in BOOLEAN
<1>1. e \in file.entries /\ IsEntry(e)
  BY FileFacts
<1>2. \A d \in file.entries : d.name = e.name => d = e
  BY <1>1, FileAssumption DEF IsFile
<1>3. e.command # NoCommand
  BY DEF Described, IsStdio
<1>. QED BY <1>1, <1>2, <1>3 DEF EntryOf, IsEntry

\* What is kept of a server and of its hash.
LEMMA KeptFacts ==
  ASSUME NEW t, NEW e, NEW ps
  PROVE  LET s == Discovered(t, e, ps)
         IN /\ s.command = MaskString(e.command) /\ s.summary = SummarizeArgs(e.args)
            /\ s.hash = ConfigHash(MaskString(e.command), SummarizeArgs(e.args), e.env)
BY DEF Discovered

\* A server that was found keeps the masked text of its entry.
LEMMA ServerFacts ==
  ASSUME IInv, NEW i \in DOMAIN found
  PROVE  LET e == Configured(found[i])
         IN /\ e.command \in Argument /\ e.args \in Seq(Argument)
            /\ found[i].command = MaskString(e.command)
            /\ found[i].summary = SummarizeArgs(e.args)
<1> DEFINE s == found[i]
           t == s.tool
<1>1. t \in Tool
  BY OriginFacts
<1>2. PICK e \in Described(read[t]) : s = Discovered(t, e, snapshot) /\ read[t] \in FileChoice[t]
  BY OriginFacts
<1>3. s.name = e.name /\ s.command = MaskString(e.command) /\ s.summary = SummarizeArgs(e.args)
  <2> DEFINE d == Discovered(t, e, snapshot)
  <2>1. d.name = e.name /\ d.command = MaskString(e.command) /\ d.summary = SummarizeArgs(e.args)
    BY DiscoveredFacts, KeptFacts
  <2> HIDE DEF d
  <2>. QED BY <1>2, <2>1 DEF d
<1>4. /\ EntryOf(read[t], s.name) = e
      /\ e.command \in Argument /\ e.args \in Seq(Argument)
  BY <1>1, <1>2, <1>3, EntryOfFacts
<1>. QED BY <1>3, <1>4, Zenon DEF Configured

\* A server whose entry a process was started from is confirmed, although only
\* masked text is compared, as long as there is something to know it by.
THEOREM RunningAreConfirmed == Spec => []RunningConfirmed
<1>1. IInv => RunningConfirmed
  <2> SUFFICES ASSUME IInv, NEW i \in DOMAIN found, NEW j \in DOMAIN snapshot,
                      Started(snapshot[j], Configured(found[i])),
                      ~ Hides(Configured(found[i]).command),
                      Executable(RawText(Configured(found[i]).command)) \in Runner =>
                        Recognisable(Configured(found[i]))
      PROVE  found[i].conf = "confirmed"
    BY DEF RunningConfirmed
  <2> DEFINE s == found[i]
             p == snapshot[j]
             e == Configured(s)
             args == e.args
  <2>1. args \in Seq(Argument) /\ s.command = MaskString(e.command) /\ s.summary = SummarizeArgs(args)
    BY ServerFacts
  <2>2. s.command = RawText(e.command)
    BY <2>1 DEF MaskString, RawText
  <2>3. snapshot \in ProcChoice
    BY DEF IInv, Typing, Snapshots
  <2>4. /\ p.line # {} => p.pid # 0
        /\ \A text \in p.line : /\ Executable(text) \in p.line
                                /\ Len(text) = 1 => <<BaseToken(text[1])>> \in p.line
    BY <2>3, ProcAssumption, Zenon
  <2>5. p.line # {} /\ Executable(s.command) \in p.line
    BY <2>2, <2>4 DEF Started
  <2>6. ASSUME Executable(s.command) \in Runner
        PROVE  \E tok \in KeyTokens(s.summary) : <<tok>> \in p.line
    <3>1. PICK k \in DOMAIN args :
            /\ ~ FollowsCredential(args, k) /\ ~ Hides(args[k])
            /\ \E tok \in Range(RawText(args[k])) : Telling(tok)
      BY <2>2, <2>6 DEF Recognisable
    <3>2. PICK tok \in Range(RawText(args[k])) : Telling(tok)
      BY <3>1
    <3>3. MaskArgs(args)[k] = RawText(args[k])
      BY <3>1 DEF MaskArgs, MaskString, RawText
    <3>4. tok \in Range(s.summary)
      BY <2>1, <3>2, <3>3, SummaryFacts
    <3>5. <<tok>> \in p.line
      BY <3>2 DEF Started
    <3>6. Len(<<tok>>) = 1 /\ <<tok>>[1] = tok
      OBVIOUS
    <3>7. <<BaseToken(tok)>> \in p.line
      BY <2>4, <3>5, <3>6
    <3>. QED BY <3>2, <3>4, <3>7 DEF KeyTokens
  <2>7. Aligned(p, s.command, s.summary)
    BY <2>5, <2>6 DEF Aligned
  <2>. QED BY <2>7, VerdictFacts
<1>. QED BY <1>1, Invariance, PTL

\* What is announced is masked.
LEMMA AnnouncedFacts ==
  /\ \A a : Announced(a) <=> Hides(a)
  /\ \A args, i : AnnouncedAt(args, i) => Hides(args[i]) \/ FollowsCredential(args, i)
<1>1. \A a : Announced(a) <=> Hides(a)
  BY DEF Announced, Hides, HighEntropy
<1>2. ASSUME NEW a, Flag(a) PROVE NamesCredential(a)
  <2> DEFINE v == a.val
  <2>1. Whole(a) = v /\ Len(v) = 1 /\ v[1] \in Credential
    BY <1>2 DEF Flag, Whole
  <2>. QED BY <2>1 DEF NamesCredential, Range
<1>. QED BY <1>1, <1>2 DEF AnnouncedAt, FollowsCredential

\* A credential that an entry gives in the documented shapes only is nowhere in
\* the text that a scan keeps of it.
THEOREM SecretsAreMasked == Spec => []SecretsMasked
<1>1. IInv => SecretsMasked
  <2> SUFFICES ASSUME IInv, NEW i \in DOMAIN found
      PROVE  Kept(found[i]) \subseteq Unannounced(Configured(found[i]))
    BY DEF SecretsMasked
  <2> DEFINE s == found[i]
             e == Configured(s)
             c == e.command
             args == e.args
  <2>1. c \in Argument /\ args \in Seq(Argument)
        /\ s.command = MaskString(c) /\ s.summary = SummarizeArgs(args)
    BY ServerFacts
  <2> HIDE DEF s, e
  <2> SUFFICES ASSUME NEW w \in Secret, NEW tok \in Range(s.command \o s.summary), w \in Range(tok)
      PROVE  w \in Unannounced(e)
    BY DEF Kept, s, e
  <2>2. \/ tok \in Range(MaskString(c))
        \/ \E k \in DOMAIN args : tok \in Range(MaskArgs(args)[k])
    <3>1. MaskString(c) \in Seq(Token) /\ SummarizeArgs(args) \in Seq(Token)
      BY <2>1, StringFacts, SummaryFacts
    <3>2. Range(MaskString(c) \o SummarizeArgs(args)) = Range(MaskString(c)) \cup Range(SummarizeArgs(args))
      BY <3>1, Concat
    <3>3. \A u \in Range(SummarizeArgs(args)) : \E k \in DOMAIN args : u \in Range(MaskArgs(args)[k])
      BY <2>1, SummaryFacts
    <3>. QED BY <2>1, <3>2, <3>3
  <2>3. w \in Word /\ w \notin Mark /\ \A words \in Seq(Word) : words # << >> => w \notin Ends(words)
    <3>1. w \in Word /\ w \notin Mark
      BY WordAssumption
    <3>2. ASSUME NEW words \in Seq(Word), words # << >> PROVE w \notin Ends(words)
      <4>1. Len(words) \in Nat /\ Len(words) # 0 /\ DOMAIN words = 1 .. Len(words)
        BY <3>2, LenProperties, EmptySeq
      <4>2. words[1] \in Word /\ Last(words) \in Word
        BY <4>1, ElementOfSeq DEF Last
      <4>. QED BY <4>2, WordAssumption DEF Ends
    <3>. QED BY <3>1, <3>2
  <2>4. CASE tok \in Range(MaskString(c))
    <3>1. w \in (IF Hides(c) THEN {c.key} \cup Ends(c.val) ELSE Range(Whole(c)))
      BY <2>1, <2>3, <2>4, StringFacts
    <3>2. w \notin Ends(c.val)
      BY <2>1, <2>3, ArgumentFacts
    <3>3. Range(<<c.key>>) = {c.key}
      BY Singles
    <3>4. w \in Range(IF Announced(c) THEN <<c.key>> ELSE Whole(c))
      BY <3>1, <3>2, <3>3, AnnouncedFacts
    <3>. QED BY <3>4 DEF Unannounced
  <2>5. ASSUME NEW k \in DOMAIN args, tok \in Range(MaskArgs(args)[k]) PROVE w \in Unannounced(e)
    <3> DEFINE a == args[k]
    <3>1. a \in Argument
      BY <2>1, ElementOfSeq, LenProperties
    <3>2. w \in (IF FollowsCredential(args, k) THEN Ends(Whole(a))
                 ELSE IF Hides(a) THEN {a.key} \cup Ends(a.val) ELSE Range(Whole(a)))
      BY <2>1, <2>3, <2>5, PieceFacts
    <3>3. w \notin Ends(a.val) /\ w \notin Ends(Whole(a))
      BY <2>3, <3>1, ArgumentFacts
    <3>4. Range(<<a.key>>) = {a.key}
      BY Singles
    <3> HIDE DEF a, args
    <3>5. w \in Range(IF AnnouncedAt(args, k) THEN <<a.key>> ELSE Whole(a))
      <4>1. AnnouncedAt(args, k) <=> Hides(a) \/ (~ Hides(a) /\ AnnouncedAt(args, k))
        BY AnnouncedFacts DEF AnnouncedAt, a
      <4>2. AnnouncedAt(args, k) => Hides(a) \/ FollowsCredential(args, k)
        BY AnnouncedFacts DEF a
      <4>. QED BY <3>2, <3>3, <3>4, <4>1, <4>2
    <3>. QED BY <3>5 DEF Unannounced, a, args
  <2>. QED BY <2>2, <2>4, <2>5
<1>. QED BY <1>1, Invariance, PTL
-----------------------------------------------------------------------------
(* The hash of two scans. *)

LEMMA PublicFacts ==
  ASSUME NEW e, e.command \in Argument, e.args \in Seq(Argument)
  PROVE  LET x == MaskString(e.command)
             y == SummarizeArgs(e.args)
         IN PublicText(e) = << [k \in DOMAIN x |-> Public(x[k])], [k \in DOMAIN y |-> Public(y[k])] >>
<1> DEFINE c == e.command
           args == e.args
<1>1. Text(c, IF Hides(c) THEN Hidden ELSE Words(c.val))
        = [k \in DOMAIN MaskString(c) |-> Public(MaskString(c)[k])]
  BY StringFacts
<1>2. Join([i \in DOMAIN args |-> PublicPiece(args, i)])
        = [k \in DOMAIN SummarizeArgs(args) |-> Public(SummarizeArgs(args)[k])]
  BY SummaryFacts
<1>3. PublicText(e) = << Text(c, IF Hides(c) THEN Hidden ELSE Words(c.val)),
                         Join([i \in DOMAIN args |-> PublicPiece(args, i)]) >>
  <2>1. \A i : PublicPiece(args, i) =
          CASE FollowsCredential(args, i) -> Hidden
            [] OTHER -> Text(args[i], IF Hides(args[i]) THEN Hidden ELSE Words(args[i].val))
    BY DEF PublicPiece
  <2>2. [i \in DOMAIN args |-> PublicPiece(args, i)] =
        [i \in DOMAIN args |->
          CASE FollowsCredential(args, i) -> Hidden
            [] OTHER -> Text(args[i], IF Hides(args[i]) THEN Hidden ELSE Words(args[i].val))]
    BY <2>1
  <2>. QED BY <2>2, Zenon DEF PublicText
<1>. QED BY <1>1, <1>2, <1>3, Zenon

\* A mark that occurs in neither of two texts tells where they end.
LEMMA AtMark ==
  ASSUME NEW V, NEW m \in V, NEW c \in Seq(V), NEW d \in Seq(V), NEW x \in Seq(V), NEW y \in Seq(V),
         m \notin Range(c), m \notin Range(d),
         (c \o <<m>>) \o x = (d \o <<m>>) \o y
  PROVE  c = d /\ x = y
<1> DEFINE f == Append(c, m)
           g == Append(d, m)
           h == f \o x
           k == g \o y
           a == Len(c)
           b == Len(d)
<1>1. /\ f \in Seq(V) /\ Len(f) = a + 1 /\ f[a + 1] = m
      /\ \A i \in 1 .. a : f[i] = c[i]
      /\ DOMAIN c = 1 .. a /\ a \in Nat /\ c = [i \in 1 .. a |-> c[i]]
      /\ f = c \o <<m>>
  BY AppendProperties, AppendIsConcat, LenProperties
<1>2. /\ g \in Seq(V) /\ Len(g) = b + 1 /\ g[b + 1] = m
      /\ \A i \in 1 .. b : g[i] = d[i]
      /\ DOMAIN d = 1 .. b /\ b \in Nat /\ d = [i \in 1 .. b |-> d[i]]
      /\ g = d \o <<m>>
  BY AppendProperties, AppendIsConcat, LenProperties
<1>3. h = k
  BY <1>1, <1>2
<1> HIDE DEF f, g
<1>4. /\ \A i \in 1 .. a + 1 : h[i] = f[i]
      /\ Len(h) = a + 1 + Len(x) /\ Len(x) \in Nat
      /\ \A i \in 1 .. Len(x) : h[a + 1 + i] = x[i]
  <2>1. /\ DOMAIN f = 1 .. Len(f) /\ DOMAIN x = 1 .. Len(x) /\ Len(x) \in Nat
        /\ \A i \in DOMAIN f : h[i] = f[i]
        /\ Len(h) = Len(f) + Len(x)
        /\ \A i \in DOMAIN x : h[Len(f) + i] = x[i]
    BY <1>1, Concat
  <2> HIDE DEF h, a
  <2>. QED BY <1>1, <2>1
<1>5. /\ \A i \in 1 .. b + 1 : k[i] = g[i]
      /\ Len(k) = b + 1 + Len(y) /\ Len(y) \in Nat
      /\ \A i \in 1 .. Len(y) : k[b + 1 + i] = y[i]
  <2>1. /\ DOMAIN g = 1 .. Len(g) /\ DOMAIN y = 1 .. Len(y) /\ Len(y) \in Nat
        /\ \A i \in DOMAIN g : k[i] = g[i]
        /\ Len(k) = Len(g) + Len(y)
        /\ \A i \in DOMAIN y : k[Len(g) + i] = y[i]
    BY <1>2, Concat
  <2> HIDE DEF k, b
  <2>. QED BY <1>2, <2>1
<1>6. x = [i \in 1 .. Len(x) |-> x[i]] /\ y = [i \in 1 .. Len(y) |-> y[i]]
  BY LenProperties
<1> HIDE DEF h, k, a, b
<1>10. (\A i \in 1 .. a : c[i] # m) /\ (\A i \in 1 .. b : d[i] # m)
  BY <1>1, <1>2 DEF Range
<1>7. a = b
  <2>0. a \in Nat /\ b \in Nat
    BY <1>1, <1>2
  <2>1. ASSUME a < b PROVE FALSE
    <3>1. a + 1 \in 1 .. a + 1 /\ a + 1 \in 1 .. b /\ a + 1 \in 1 .. b + 1
      BY <2>0, <2>1
    <3>2. d[a + 1] = m
      BY <1>1, <1>2, <1>3, <1>4, <1>5, <3>1
    <3>. QED BY <1>10, <3>1, <3>2
  <2>2. ASSUME b < a PROVE FALSE
    <3>1. b + 1 \in 1 .. b + 1 /\ b + 1 \in 1 .. a /\ b + 1 \in 1 .. a + 1
      BY <2>0, <2>2
    <3>2. c[b + 1] = m
      BY <1>1, <1>2, <1>3, <1>4, <1>5, <3>1
    <3>. QED BY <1>10, <3>1, <3>2
  <2>. QED BY <2>0, <2>1, <2>2
<1>8. c = d
  <2>1. \A i \in 1 .. a : i \in 1 .. a + 1
    BY <1>1
  <2>2. \A i \in 1 .. a : c[i] = d[i]
    BY <1>1, <1>2, <1>3, <1>4, <1>5, <1>7, <2>1
  <2>. QED BY <1>1, <1>2, <1>7, <2>2
<1>9. x = y
  <2>1. Len(x) = Len(y)
    BY <1>1, <1>3, <1>4, <1>5, <1>7
  <2>2. \A i \in 1 .. Len(x) : x[i] = y[i]
    BY <1>3, <1>4, <1>5, <1>7, <2>1
  <2>. QED BY <1>6, <2>1, <2>2
<1>. QED BY <1>8, <1>9

\* So the hashed text tells the command, the arguments and the env flag apart.
LEMMA HashInjective ==
  ASSUME NEW c \in Seq(Token), NEW s \in Seq(Token), NEW b \in BOOLEAN,
         NEW d \in Seq(Token), NEW u \in Seq(Token), NEW f \in BOOLEAN,
         ConfigHash(c, s, b) = ConfigHash(d, u, f)
  PROVE  c = d /\ s = u /\ b = f
<1> DEFINE V == Token \cup {ArgsPart, EnvPart(TRUE), EnvPart(FALSE)}
           x == s \o <<EnvPart(b)>>
           y == u \o <<EnvPart(f)>>
<1>1. ArgsPart \notin Token
  <2>1. "|args:" \notin Sign
    BY WordAssumption DEF Sign, Mark
  <2>2. Len(ArgsPart) = 1 /\ ArgsPart[1] = "|args:"
    BY DEF ArgsPart
  <2>3. ASSUME NEW q \in Seq(Sign), Len(q) = 1 PROVE q[1] \in Sign
    <3>1. 1 \in 1 .. Len(q)
      BY <2>3
    <3>. QED BY <3>1, ElementOfSeq
  <2>. QED BY <2>1, <2>2, <2>3 DEF Token
<1>2. /\ c \in Seq(V) /\ d \in Seq(V) /\ s \in Seq(V) /\ u \in Seq(V)
      /\ ArgsPart \in V /\ EnvPart(b) \in V /\ EnvPart(f) \in V
  <2>1. \A q \in Seq(Token) : q \in Seq(V)
    <3>1. Token \subseteq V
      OBVIOUS
    <3> HIDE DEF V
    <3> TAKE q \in Seq(Token)
    <3>2. Len(q) \in Nat /\ q \in [1 .. Len(q) -> Token]
      BY LenProperties
    <3>3. q \in [1 .. Len(q) -> V]
      BY <3>1, <3>2
    <3>. QED BY <3>2, <3>3, FunctionIsSeq
  <2>. QED BY <2>1
<1>3. \A q \in Seq(Token) : \A i \in DOMAIN q : q[i] # ArgsPart
  BY <1>1, LenProperties, ElementOfSeq
<1>4. (c \o <<ArgsPart>>) \o x = (d \o <<ArgsPart>>) \o y
  BY DEF ConfigHash
<1> HIDE DEF V
<1>5. x \in Seq(V) /\ y \in Seq(V) /\ x = Append(s, EnvPart(b)) /\ y = Append(u, EnvPart(f))
  BY <1>2, AppendProperties, AppendIsConcat
<1> HIDE DEF x, y
<1>6. c = d /\ x = y
  <2>1. ArgsPart \notin Range(c) /\ ArgsPart \notin Range(d)
    BY <1>3 DEF Range
  <2> DEFINE m == ArgsPart
  <2> HIDE DEF m
  <2>2. m \in V /\ (c \o <<m>>) \o x = (d \o <<m>>) \o y
    BY <1>2, <1>4 DEF m
  <2>3. m \notin Range(c) /\ m \notin Range(d)
    BY <2>1 DEF m
  <2>4. c \in Seq(V) /\ d \in Seq(V) /\ x \in Seq(V) /\ y \in Seq(V)
    BY <1>2, <1>5
  <2>. QED BY <2>2, <2>3, <2>4, AtMark
<1>7. s = u /\ EnvPart(b) = EnvPart(f)
  <2> DEFINE p == EnvPart(b)
             q == EnvPart(f)
  <2> HIDE DEF p, q
  <2>1. p \in V /\ q \in V /\ Append(s, p) = Append(u, q)
    BY <1>2, <1>5, <1>6 DEF p, q
  <2>2. s = u /\ p = q
    BY <1>2, <2>1, AppendInjective
  <2>. QED BY <2>2 DEF p, q
<1>8. b = f
  BY <1>7 DEF EnvPart
<1>. QED BY <1>6, <1>7, <1>8

\* From one scan to the next the hash changes with what an entry says in
\* public, and stays if the entry does.
THEOREM HashesTrack == Spec => []HashTracksEntry
<1>1. IInv => HashTracksEntry
  <2> SUFFICES ASSUME IInv, NEW i \in DOMAIN found, NEW j \in DOMAIN lastFound,
                      found[i].tool = lastFound[j].tool, found[i].name = lastFound[j].name
      PROVE  LET s == found[i]
                 o == lastFound[j]
                 e == EntryOf(read[s.tool], s.name)
                 d == EntryOf(lastRead[o.tool], o.name)
             IN /\ e = d => s.hash = o.hash
                /\ s.hash = o.hash => e.env = d.env /\ PublicText(e) = PublicText(d)
    BY Zenon DEF HashTracksEntry
  <2> DEFINE s == found[i]
             o == lastFound[j]
             t == s.tool
  <2>1. t \in Tool /\ o.tool = t
    BY OriginFacts
  <2>2. PICK e \in Described(read[t]) : s = Discovered(t, e, snapshot) /\ read[t] \in FileChoice[t]
    BY OriginFacts
  <2>3. PICK d \in Described(lastRead[t]) : \E ps \in Snapshots : o = Discovered(t, d, ps)
    BY <2>1 DEF IInv, LastInv
  <2>4. PICK ps \in Snapshots : o = Discovered(t, d, ps)
    BY <2>3
  <2>5. lastRead[t] \in FileChoice[t]
    <3>1. lastRead[t] # Unread
      BY <2>3, FileFacts
    <3>. QED BY <2>1, <3>1 DEF IInv, Typing
  <2>6. /\ s.name = e.name
        /\ s.hash = ConfigHash(MaskString(e.command), SummarizeArgs(e.args), e.env)
    <3> DEFINE r == Discovered(t, e, snapshot)
    <3>1. r.name = e.name /\ r.hash = ConfigHash(MaskString(e.command), SummarizeArgs(e.args), e.env)
      BY DiscoveredFacts, KeptFacts
    <3> HIDE DEF r
    <3>. QED BY <2>2, <3>1 DEF r
  <2>7. /\ o.name = d.name
        /\ o.hash = ConfigHash(MaskString(d.command), SummarizeArgs(d.args), d.env)
    <3> DEFINE r == Discovered(t, d, ps)
    <3>1. r.name = d.name /\ r.hash = ConfigHash(MaskString(d.command), SummarizeArgs(d.args), d.env)
      BY DiscoveredFacts, KeptFacts
    <3> HIDE DEF r
    <3>. QED BY <2>4, <3>1 DEF r
  <2>8. /\ EntryOf(read[t], s.name) = e
        /\ e.command \in Argument /\ e.args \in Seq(Argument) /\ e.env \in BOOLEAN
    BY <2>1, <2>2, <2>6, EntryOfFacts
  <2>9. /\ EntryOf(lastRead[t], o.name) = d
        /\ d.command \in Argument /\ d.args \in Seq(Argument) /\ d.env \in BOOLEAN
    BY <2>1, <2>3, <2>5, <2>7, EntryOfFacts
  <2>10. EntryOf(lastRead[o.tool], o.name) = d
    BY <2>1, <2>9
  <2> HIDE DEF s, o, t
  <2>11. e = d => s.hash = o.hash
    BY <2>6, <2>7
  <2>12. ASSUME s.hash = o.hash PROVE e.env = d.env /\ PublicText(e) = PublicText(d)
    <3>1. /\ MaskString(e.command) = MaskString(d.command)
          /\ SummarizeArgs(e.args) = SummarizeArgs(d.args) /\ e.env = d.env
      <4>1. /\ MaskString(e.command) \in Seq(Token) /\ SummarizeArgs(e.args) \in Seq(Token)
            /\ MaskString(d.command) \in Seq(Token) /\ SummarizeArgs(d.args) \in Seq(Token)
        BY <2>8, <2>9, StringFacts, SummaryFacts
      <4> DEFINE c1 == MaskString(e.command)
                 y1 == SummarizeArgs(e.args)
                 c2 == MaskString(d.command)
                 y2 == SummarizeArgs(d.args)
                 b1 == e.env
                 b2 == d.env
      <4>2. ConfigHash(c1, y1, b1) = ConfigHash(c2, y2, b2)
        BY <2>6, <2>7, <2>12
      <4>3. b1 \in BOOLEAN /\ b2 \in BOOLEAN
        BY <2>8, <2>9
      <4> HIDE DEF c1, y1, c2, y2, b1, b2
      <4>4. /\ c1 \in Seq(Token) /\ y1 \in Seq(Token)
            /\ c2 \in Seq(Token) /\ y2 \in Seq(Token)
        BY <4>1 DEF c1, y1, c2, y2
      <4>5. c1 = c2 /\ y1 = y2 /\ b1 = b2
        BY <4>2, <4>3, <4>4, HashInjective
      <4>. QED BY <4>5 DEF c1, y1, c2, y2, b1, b2
    <3>2. PublicText(e) = PublicText(d)
      BY <2>8, <2>9, <3>1, PublicFacts
    <3>. QED BY <3>1, <3>2
  <2>. QED BY <2>8, <2>10, <2>11, <2>12 DEF s, o, t
<1>. QED BY <1>1, Invariance, PTL

=============================================================================
