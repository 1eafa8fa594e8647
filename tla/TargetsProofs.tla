---------------------------- MODULE TargetsProofs ----------------------------
(***************************************************************************)
(* Machine-checked proofs about Targets: for addresses of any width, any   *)
(* cap below the size of the address space, and any --target and --ports,  *)
(* the safety properties TLC checks on MCTargets.                          *)
(***************************************************************************)
EXTENDS Targets, CountingFacts, TLAPS

-----------------------------------------------------------------------------
(* The inductive invariant. *)

Typing ==
  /\ items \in Seq(TargetItem) /\ allowPublic \in BOOLEAN
  /\ pc \in {"start", "item", "loop4", "loop6", "validate", "merge", "ports",
             "chunk", "ready", "error", "killed"}
  /\ k \in Nat \ {0} /\ pos \in Nat \ {0}
  /\ i \in 0 .. Size - 1 /\ end \in 0 .. Size - 1
  /\ ips \in Seq(Host) /\ resolved \in Seq(Host) /\ seen \in SUBSET Host
  /\ chunks \in Seq(Seq(Int)) /\ portMap \in SUBSET (1 .. MaxPort)
  /\ err \in {"none", "invalid", "range", "public", "ports"}

Accepting == {"ports", "chunk", "ready"}
Expanding == {"loop4", "loop6", "validate", "merge"}

\* The hosts an item becomes: of a mapped block, its first address.
Expanded(it) == IF it.kind = "mapped" THEN {<<4, Low(it.addr, it.ones)>>} ELSE Denotes(it)

PositionInv ==
  /\ pc \in {"start", "item"} => k \in 1 .. Len(items) + 1
  /\ pc = "start" => k = 1 /\ resolved = << >>
  /\ pc \in {"item"} \cup Expanding => items # << >>
  /\ pc \in Expanding => k \in 1 .. Len(items) /\ Item.kind \in {"ip", "cidr", "mapped"}
  /\ pc \in {"validate", "merge"} => pos <= Len(ips) + 1
  /\ pc \in Accepting => err = "none"

\* A loop has appended an interval of hosts, and i is the next address; an
\* IPv4 loop to the last address never ends, and then nothing is claimed.
Loop4Inv ==
  LET first == Low(Item.addr, Item.ones)
  IN /\ pos = 1
     /\ \/ Item.kind = "mapped" /\ end = first
        \/ Item.kind = "cidr" /\ Item.fam = 4 /\ end = High(Item.addr, Item.ones)
     /\ end # Size - 1 => /\ i = first + Len(ips) /\ i <= end + 1
                          /\ Entries(ips) = {4} \X (first .. i - 1)

Loop6Inv ==
  LET first == Low(Item.addr, Item.ones)
  IN /\ pos = 1
     /\ Item.kind = "cidr" /\ Item.fam = 6 /\ W - Item.ones <= CapBits
     /\ end = High(Item.addr, Item.ones)
     /\ first + Len(ips) <= end + 1 /\ i = Uint(first + Len(ips))
     /\ Entries(ips) = {6} \X (first .. first + Len(ips) - 1)

LoopInv ==
  /\ pc = "loop4" => Loop4Inv
  /\ pc = "loop6" => Loop6Inv
  /\ pc \in {"validate", "merge"} => Entries(ips) = Expanded(Item)

Allowed(host) == allowPublic \/ host \in Permitted

CheckedInv ==
  /\ pc = "validate" => \A n \in DOMAIN ips : n < pos => Allowed(ips[n])
  /\ pc = "merge" => \A n \in DOMAIN ips : Allowed(ips[n])
  /\ \A n \in DOMAIN resolved : Allowed(resolved[n])
  /\ err = "public" => /\ pc = "error" /\ ~ allowPublic
                       /\ ~ Denotes(items[k]) \subseteq Permitted

\* The hosts of the items before number n.
Before(n) == UNION {Expanded(items[m]) : m \in 1 .. n - 1}

ResolvedInv ==
  /\ items # << >> => seen = Entries(resolved)
  /\ \A n, m \in DOMAIN resolved : resolved[n] = resolved[m] => n = m
  /\ pc \in {"start", "item", "loop4", "loop6", "validate"} => Entries(resolved) = Before(k)
  /\ pc = "merge" => Entries(resolved) = Before(k) \cup {ips[n] : n \in 1 .. pos - 1}
  /\ pc \in Accepting /\ items # << >> => Entries(resolved) = Before(Len(items) + 1)

CapInv ==
  /\ pc \notin {"merge", "error", "killed"} => Len(resolved) <= MaxCap
  /\ err # "none" => pc = "error"
  /\ err = "range" => k \in 1 .. Len(items) /\ Cardinality(Named(1, k)) > MaxCap

Good(c) == c = << >> \/ GoodPort(c) \/ GoodRange(c)
PortsOf(c) == IF Len(c) = 0 THEN {} ELSE c[1] .. c[Len(c)]

PortInv ==
  /\ pc \in {"chunk", "ready"} =>
       /\ k \in 1 .. Len(chunks) + 1
       /\ portMap = UNION {PortsOf(chunks[n]) : n \in 1 .. k - 1}
  /\ pc = "ready" => k = Len(chunks) + 1
  /\ pc \notin {"chunk", "ready", "error"} => portMap = {}

IInv == /\ Typing /\ PositionInv /\ LoopInv /\ CheckedInv
        /\ ResolvedInv /\ CapInv /\ PortInv
-----------------------------------------------------------------------------
(* Powers of two, and the blocks they cut out of the address space.         *)

LEMMA PowDef == /\ Pow[0] = 1
                /\ \A b \in 1 .. W : Pow[b] = 2 * Pow[b - 1]
                /\ \A b \in 0 .. W : Pow[b] \in Nat \ {0}
<1> DEFINE Doubles(f, n) == f[0] = 1 /\ \A b \in 1 .. n : f[b] = 2 * f[b - 1]
           T == {n \in 0 .. W : \E f \in [0 .. n -> Nat] : Doubles(f, n)}
<1>1. 0 \in T
  <2>1. PICK f : f = [b \in 0 .. 0 |-> 1]
    OBVIOUS
  <2>2. f \in [0 .. 0 -> Nat] /\ f[0] = 1 /\ \A b \in 1 .. 0 : f[b] = 2 * f[b - 1]
    BY <2>1
  <2>3. Doubles(f, 0) /\ 0 \in 0 .. W
    BY <2>2, WidthAssumption
  <2>. QED BY <2>2, <2>3
<1>2. ASSUME NEW n \in 0 .. W - 1, n \in T PROVE n + 1 \in T
  <2>1. PICK f \in [0 .. n -> Nat] : Doubles(f, n)
    BY <1>2
  <2> DEFINE g == [b \in 0 .. n + 1 |-> IF b = n + 1 THEN 2 * f[n] ELSE f[b]]
  <2>2. n \in Nat /\ n + 1 \in 0 .. W /\ f[n] \in Nat
    BY WidthAssumption
  <2>3. g \in [0 .. n + 1 -> Nat]
    BY <2>2
  <2>4. Doubles(g, n + 1)
    BY <2>1, <2>2
  <2>. QED BY <2>2, <2>3, <2>4
<1>3. W \in T
  <2> HIDE DEF T
  <2>. QED BY <1>1, <1>2, Reaches, WidthAssumption
<1>4. PICK f \in [0 .. W -> Nat] : Doubles(f, W)
  BY <1>3
<1>5. f = [b \in 0 .. W |-> IF b = 0 THEN 1 ELSE 2 * f[b - 1]]
  BY <1>4, WidthAssumption
<1>6. Pow = [b \in 0 .. W |-> IF b = 0 THEN 1 ELSE 2 * Pow[b - 1]]
  BY <1>5 DEF Pow
<1>7. Doubles(Pow, W)
  BY <1>6, WidthAssumption
<1> DEFINE P == {n \in 0 .. W : Pow[n] \in Nat \ {0}}
<1>8. 0 \in P /\ \A n \in 0 .. W - 1 : n \in P => n + 1 \in P
  BY <1>7, WidthAssumption
<1>9. 0 .. W \subseteq P
  <2> HIDE DEF P
  <2>. QED BY <1>8, Reaches, WidthAssumption
<1>. QED BY <1>7, <1>9

LEMMA PowGrows == \A a, b \in 0 .. W : a < b => Pow[a] < Pow[b]
<1> DEFINE T == {n \in 0 .. W : \A a \in 0 .. n : a < n => Pow[a] < Pow[n]}
<1>1. 0 \in T
  BY WidthAssumption
<1>2. ASSUME NEW n \in 0 .. W - 1, n \in T PROVE n + 1 \in T
  <2>1. /\ n + 1 \in 0 .. W /\ n \in 0 .. W
        /\ Pow[n + 1] = 2 * Pow[n] /\ Pow[n] \in Nat \ {0}
    BY PowDef, WidthAssumption
  <2>2. ASSUME NEW a \in 0 .. n + 1, a < n + 1 PROVE Pow[a] < Pow[n + 1]
    <3>1. a \in 0 .. W /\ Pow[a] \in Nat
      <4>1. a \in 0 .. W
        BY <2>1, <2>2, WidthAssumption
      <4>. QED BY <4>1, PowDef
    <3>2. a = n \/ a < n
      BY <2>2, <2>1
    <3>3. Pow[a] <= Pow[n]
      BY <1>2, <3>1, <3>2, <2>1
    <3>. QED BY <3>1, <3>3, <2>1
  <2>. QED BY <2>1, <2>2
<1>3. 0 .. W \subseteq T
  <2> HIDE DEF T
  <2>. QED BY <1>1, <1>2, Reaches, WidthAssumption
<1>. QED BY <1>3

LEMMA PowSplits == \A b \in 0 .. W : Size = Pow[W - b] * Pow[b]
<1> DEFINE T == {b \in 0 .. W : Size = Pow[W - b] * Pow[b]}
<1>1. 0 \in T
  BY PowDef, WidthAssumption DEF Size
<1>2. ASSUME NEW b \in 0 .. W - 1, b \in T PROVE b + 1 \in T
  <2> DEFINE x == Pow[W - (b + 1)]
             y == Pow[b]
  <2>1. x \in Nat /\ y \in Nat /\ Pow[W - b] = 2 * x /\ Pow[b + 1] = 2 * y
    <3>1. /\ W - (b + 1) \in 0 .. W /\ b \in 0 .. W /\ W - b \in 1 .. W
          /\ b + 1 \in 1 .. W /\ (W - b) - 1 = W - (b + 1) /\ (b + 1) - 1 = b
      BY WidthAssumption
    <3>2. Pow[W - b] = 2 * Pow[W - (b + 1)] /\ Pow[b + 1] = 2 * Pow[b]
      BY <3>1, PowDef
    <3>. QED BY <3>1, <3>2, PowDef
  <2>2. Size = (2 * x) * y
    BY <1>2, <2>1
  <2> HIDE DEF x, y
  <2>3. (2 * x) * y = x * (2 * y)
    BY <2>1
  <2>. QED BY <2>1, <2>2, <2>3, WidthAssumption DEF x
<1>3. 0 .. W \subseteq T
  <2> HIDE DEF T
  <2>. QED BY <1>1, <1>2, Reaches, WidthAssumption
<1>. QED BY <1>3

LEMMA BlockFacts ==
  ASSUME NEW n \in 0 .. Size - 1, NEW ones \in 0 .. W
  PROVE  /\ Low(n, ones) \in 0 .. Size - 1 /\ High(n, ones) \in 0 .. Size - 1
         /\ Low(n, ones) <= n /\ n <= High(n, ones)
         /\ High(n, ones) - Low(n, ones) + 1 = Pow[W - ones]
         /\ Pow[W - ones] \in Nat \ {0}
<1> DEFINE m == Pow[W - ones]
           r == Pow[ones]
           q == n \div m
<1>1. m \in Nat \ {0} /\ r \in Nat \ {0} /\ Size = m * r
  BY PowDef, PowSplits, WidthAssumption
<1>2. n \in Nat /\ n < m * r
  BY <1>1
<1> HIDE DEF m, r
<1>3. /\ n % m \in 0 .. m - 1 /\ n - (n % m) = m * q /\ q \in Nat /\ m * q \in Nat
  BY <1>1, <1>2
<1> HIDE DEF q
<1>4. m * q < m * r
  BY <1>1, <1>2, <1>3
<1>5. m * q + m <= m * r
  BY <1>1, <1>3, <1>4
<1>6. Low(n, ones) = m * q /\ High(n, ones) = m * q + m - 1
  BY <1>3 DEF Low, High, m
<1>7. m * q <= n /\ n <= m * q + m - 1
  BY <1>1, <1>2, <1>3
<1>8. PICK l \in Nat : l = m * q
  BY <1>3
<1>9. PICK top \in Nat : top = m * r
  BY <1>1
<1>10. /\ l + m <= top /\ Size = top /\ l <= n /\ n <= l + m - 1
       /\ Low(n, ones) = l /\ High(n, ones) = l + m - 1
  BY <1>1, <1>5, <1>6, <1>7, <1>8, <1>9
<1>11. /\ Low(n, ones) \in 0 .. Size - 1 /\ High(n, ones) \in 0 .. Size - 1
       /\ High(n, ones) - Low(n, ones) + 1 = m
  BY <1>1, <1>10
<1>. QED BY <1>1, <1>10, <1>11 DEF m

LEMMA SizeFacts ==
  /\ Size \in Nat \ {0} /\ MaxCap \in Nat \ {0} /\ MaxCap < Size
  /\ \A n \in 0 .. Size - 1 : Uint(n) = n
  /\ Uint(Size) = 0
<1>1. /\ Size \in Nat \ {0} /\ MaxCap \in Nat \ {0} /\ MaxCap < Size
  BY PowDef, PowGrows, WidthAssumption, CapAssumption DEF Size
<1> HIDE DEF Size
<1>. QED BY <1>1 DEF Uint
-----------------------------------------------------------------------------
(* Sets of hosts. *)

LEMMA DenotesFacts ==
  ASSUME NEW it \in TargetItem
  PROVE  /\ Low(it.addr, it.ones) \in 0 .. Size - 1
         /\ High(it.addr, it.ones) \in 0 .. Size - 1
         /\ Low(it.addr, it.ones) <= High(it.addr, it.ones)
         /\ High(it.addr, it.ones) - Low(it.addr, it.ones) + 1 = Pow[W - it.ones]
         /\ Denotes(it) \subseteq Host
         /\ Expanded(it) \subseteq Denotes(it)
         /\ it.kind # "mapped" => Expanded(it) = Denotes(it)
<1>1. it.addr \in 0 .. Size - 1 /\ it.ones \in 0 .. W /\ it.fam \in {4, 6}
      /\ it.kind \in {"blank", "bad", "ip", "cidr", "mapped"}
  BY DEF TargetItem
<1>2. /\ Low(it.addr, it.ones) \in 0 .. Size - 1
      /\ High(it.addr, it.ones) \in 0 .. Size - 1
      /\ Low(it.addr, it.ones) <= High(it.addr, it.ones)
      /\ High(it.addr, it.ones) - Low(it.addr, it.ones) + 1 = Pow[W - it.ones]
  BY <1>1, BlockFacts, SizeFacts
<1>3. /\ Low(it.addr, it.ones) .. High(it.addr, it.ones) \subseteq 0 .. Size - 1
      /\ Low(it.addr, it.ones) \in Low(it.addr, it.ones) .. High(it.addr, it.ones)
  BY <1>2, SizeFacts
<1>4. Denotes(it) \subseteq Host
  BY <1>1, <1>3 DEF Denotes, Host
<1>5. Expanded(it) \subseteq Denotes(it) /\ (it.kind # "mapped" => Expanded(it) = Denotes(it))
  BY <1>1, <1>3 DEF Denotes, Expanded
<1>. QED BY <1>2, <1>4, <1>5

LEMMA BlockCount ==
  ASSUME NEW it \in TargetItem, it.kind = "cidr"
  PROVE  Cardinality(Denotes(it)) = Pow[W - it.ones]
<1> DEFINE low == Low(it.addr, it.ones)
           high == High(it.addr, it.ones)
<1>1. low \in Int /\ high \in Int /\ low <= high /\ high - low + 1 = Pow[W - it.ones]
  BY DenotesFacts
<1>2. Denotes(it) = {it.fam} \X (low .. high)
  BY DEF Denotes
<1> HIDE DEF low, high
<1>3. IsFiniteSet(low .. high) /\ Cardinality(low .. high) = high - low + 1
  BY <1>1, FS_Interval
<1>4. IsFiniteSet({it.fam}) /\ Cardinality({it.fam}) = 1
  BY FS_Singleton
<1>5. Cardinality({it.fam} \X (low .. high)) = 1 * (high - low + 1)
  BY <1>3, <1>4, FS_Product
<1>. QED BY <1>1, <1>2, <1>5

LEMMA HostsFinite == IsFiniteSet(Host)
<1>1. IsFiniteSet(0 .. Size - 1)
  BY FS_Interval, SizeFacts
<1>2. IsFiniteSet({4, 6})
  <2>1. IsFiniteSet({4}) /\ IsFiniteSet({6}) /\ {4, 6} = {4} \cup {6}
    BY FS_Singleton
  <2>. QED BY <2>1, FS_Union
<1>. QED BY <1>1, <1>2, FS_Product DEF Host

LEMMA NamedBound ==
  ASSUME items \in Seq(TargetItem), NEW n \in 1 .. Len(items),
         NEW S \in SUBSET Named(1, n)
  PROVE  /\ IsFiniteSet(S) /\ Cardinality(S) \in Nat
         /\ Cardinality(Named(1, n)) \in Nat
         /\ Cardinality(S) <= Cardinality(Named(1, n))
<1>1. \A m \in 1 .. n : items[m] \in TargetItem
  BY LenProperties, ElementOfSeq
<1>2. Named(1, n) \in SUBSET Host
  BY <1>1, DenotesFacts DEF Named
<1>3. IsFiniteSet(Named(1, n))
  BY <1>2, HostsFinite, FS_Subset
<1>. QED BY <1>3, FS_Subset, FS_CardinalityType

LEMMA ItemFacts ==
  ASSUME Typing, PositionInv, k <= Len(items)
  PROVE  Item \in TargetItem /\ k \in 1 .. Len(items) /\ Len(items) \in Nat
<1>1. Len(items) \in Nat /\ k \in 1 .. Len(items)
  BY LenProperties DEF Typing
<1>. QED BY <1>1, ElementOfSeq DEF Typing, Item

LEMMA EntriesAppend ==
  ASSUME NEW S, NEW s \in Seq(S), NEW x \in S
  PROVE  Entries(Append(s, x)) = Entries(s) \cup {x}
BY Extended DEF Entries

LEMMA BeforeNext ==
  ASSUME NEW n \in Nat \ {0}
  PROVE  Before(n + 1) = Before(n) \cup Expanded(items[n])
<1>1. 1 .. (n + 1) - 1 = (1 .. n - 1) \cup {n}
  OBVIOUS
<1>. QED BY <1>1 DEF Before

LEMMA BeforeNamed ==
  ASSUME Typing, NEW n \in Nat, n <= Len(items)
  PROVE  /\ Before(n + 1) \subseteq Named(1, n)
         /\ (\A m \in DOMAIN items : items[m].kind # "mapped") => Before(n + 1) = Named(1, n)
<1>1. \A m \in 1 .. n : m \in DOMAIN items /\ items[m] \in TargetItem
  BY LenProperties, ElementOfSeq DEF Typing
<1>2. (n + 1) - 1 = n
  OBVIOUS
<1>. QED BY <1>1, <1>2, DenotesFacts DEF Before, Named
-----------------------------------------------------------------------------
(* The inductive invariant holds at the start, and every step keeps it.     *)

LEMMA InitHolds == Init => IInv
<1> SUFFICES ASSUME Init PROVE IInv
  OBVIOUS
<1>1. Len(items) \in Nat /\ items \in Seq(TargetItem)
  BY LenProperties, ListAssumption DEF Init
<1>2. Typing
  BY <1>1, SizeFacts DEF Typing, Init
<1>3. Before(1) = {} /\ Entries(<< >>) = {}
  BY DEF Before, Entries
<1>4. PositionInv /\ LoopInv /\ CheckedInv /\ PortInv
  BY <1>1 DEF Init, PositionInv, LoopInv, CheckedInv, PortInv, Expanding, Accepting
<1>5. ResolvedInv
  <2>1. seen = Entries(resolved) /\ resolved = << >> /\ pc = "start"
    BY <1>3 DEF Init
  <2>2. Before(k) = Entries(resolved)
    BY <1>3, <2>1 DEF Init
  <2>. QED BY <2>1, <2>2 DEF ResolvedInv, Accepting
<1>6. CapInv
  BY SizeFacts DEF Init, CapInv
<1>. QED BY <1>2, <1>4, <1>5, <1>6 DEF IInv

\* An error keeps what was resolved, and an error of size needs a request
\* beyond the cap.
LEMMA FailStep ==
  ASSUME IInv, NEW why \in {"invalid", "range", "public", "ports"}, Fail(why),
         why = "range" => k \in 1 .. Len(items) /\ Cardinality(Named(1, k)) > MaxCap,
         why = "public" => ~ allowPublic /\ ~ Denotes(items[k]) \subseteq Permitted
  PROVE  IInv'
<1>1. /\ pc' = "error" /\ err' = why
      /\ UNCHANGED <<items, allowPublic, k, i, end, ips, pos, seen, resolved, chunks, portMap>>
  BY DEF Fail, target, expansion, portState
<1>2. Typing'
  BY <1>1 DEF IInv, Typing
<1>3. PositionInv' /\ LoopInv' /\ PortInv'
  BY <1>1 DEF PositionInv, LoopInv, PortInv, Expanding, Accepting
<1>4. CheckedInv' /\ ResolvedInv'
  BY <1>1 DEF IInv, CheckedInv, ResolvedInv, Accepting, Allowed, Entries
<1>5. CapInv'
  BY <1>1 DEF CapInv, Named
<1>. QED BY <1>2, <1>3, <1>4, <1>5 DEF IInv

LEMMA StartStep == ASSUME IInv, Start PROVE IInv'
<1>1. /\ pc = "start" /\ err = "none" /\ k = 1 /\ resolved = << >> /\ portMap = {}
      /\ UNCHANGED <<items, allowPublic, k, i, end, ips, pos, seen, chunks, portMap, err>>
  BY DEF Start, IInv, PositionInv, CapInv, PortInv, target, expansion, portState
<1>2. Localhost \in Host /\ Localhost \in Permitted
  BY HostAssumption DEF Permitted
<1>3. \/ items = << >> /\ pc' = "ports" /\ resolved' = <<Localhost>>
      \/ items # << >> /\ pc' = "item" /\ resolved' = << >>
  BY DEF Start
<1>4. Typing'
  <2>1. <<Localhost>> \in Seq(Host) /\ << >> \in Seq(Host)
    BY <1>2
  <2>2. resolved' \in Seq(Host)
    BY <1>3, <2>1
  <2>. QED BY <1>1, <1>3, <2>2 DEF IInv, Typing
<1>5. PositionInv' /\ LoopInv' /\ PortInv'
  BY <1>1, <1>3 DEF IInv, PositionInv, LoopInv, PortInv, Expanding, Accepting
<1>6. CheckedInv'
  BY <1>1, <1>2, <1>3 DEF CheckedInv, Allowed
<1>7. ResolvedInv'
  BY <1>1, <1>3 DEF IInv, ResolvedInv, Accepting, Entries, Before
<1>8. CapInv'
  <2>1. Len(resolved') \in {0, 1}
    BY <1>3
  <2>2. Len(resolved') <= MaxCap
    BY <2>1, SizeFacts
  <2>. QED BY <1>1, <2>2 DEF CapInv
<1>. QED BY <1>4, <1>5, <1>6, <1>7, <1>8 DEF IInv

LEMMA SkipBlankStep == ASSUME IInv, SkipBlank PROVE IInv'
<1>1. /\ pc = "item" /\ k <= Len(items) /\ Item.kind = "blank" /\ k' = k + 1
      /\ err = "none" /\ portMap = {}
      /\ UNCHANGED <<items, allowPublic, pc, i, end, ips, pos, seen, resolved,
                      chunks, portMap, err>>
  BY DEF SkipBlank, Taking, IInv, CapInv, PortInv, target, expansion, portState
<1>2. k \in 1 .. Len(items) /\ Len(items) \in Nat
  BY <1>1, ItemFacts DEF IInv
<1>3. Typing'
  BY <1>1, <1>2 DEF IInv, Typing
<1>4. PositionInv' /\ LoopInv' /\ PortInv'
  BY <1>1, <1>2 DEF IInv, PositionInv, LoopInv, PortInv, Expanding, Accepting
<1>5. Before(k + 1) = Before(k)
  <2>1. Expanded(items[k]) = {}
    BY <1>1 DEF Expanded, Denotes, Item
  <2>2. k \in Nat \ {0}
    BY <1>2
  <2>3. Before(k + 1) = Before(k) \cup Expanded(items[k])
    BY <2>2, BeforeNext
  <2>. QED BY <2>1, <2>3
<1>6. CheckedInv' /\ CapInv'
  BY <1>1 DEF IInv, CheckedInv, CapInv, Allowed
<1>7. ResolvedInv'
  <2>1. Before(k)' = Before(k + 1)
    BY <1>1 DEF Before
  <2>. QED BY <1>1, <1>5, <2>1 DEF IInv, ResolvedInv, Accepting
<1>. QED BY <1>3, <1>4, <1>6, <1>7 DEF IInv

LEMMA RejectBadStep == ASSUME IInv, RejectBad PROVE IInv'
BY FailStep DEF RejectBad

LEMMA TakeAddressStep == ASSUME IInv, TakeAddress PROVE IInv'
<1>1. /\ pc = "item" /\ k <= Len(items) /\ Item.kind = "ip"
      /\ ips' = << <<Item.fam, Item.addr>> >> /\ pos' = 1 /\ pc' = "validate"
      /\ err = "none" /\ portMap = {}
      /\ UNCHANGED <<items, allowPublic, k, i, end, seen, resolved, chunks, portMap, err>>
  BY DEF TakeAddress, Taking, IInv, CapInv, PortInv, target, portState
<1>2. k \in 1 .. Len(items) /\ Len(items) \in Nat /\ Item \in TargetItem
  BY <1>1, ItemFacts DEF IInv
<1>3. <<Item.fam, Item.addr>> \in Host
  BY <1>2 DEF TargetItem, Host
<1>4. Typing'
  BY <1>1, <1>3 DEF IInv, Typing
<1>5. PositionInv' /\ PortInv' /\ CheckedInv' /\ CapInv'
  BY <1>1, <1>2 DEF IInv, PositionInv, PortInv, CheckedInv, CapInv, Expanding, Accepting,
     Item, Allowed
<1>6. LoopInv'
  BY <1>1 DEF LoopInv, Item, Expanded, Denotes, Entries
<1>7. ResolvedInv'
  BY <1>1 DEF IInv, ResolvedInv, Before, Accepting
<1>. QED BY <1>4, <1>5, <1>6, <1>7 DEF IInv

\* A block that is refused for its size has more hosts than the cap allows.
LEMMA BlockOverCap ==
  ASSUME Typing, PositionInv, k <= Len(items), Item.kind = "cidr",
         Pow[W - Item.ones] > MaxCap
  PROVE  k \in 1 .. Len(items) /\ Cardinality(Named(1, k)) > MaxCap
<1>1. Item \in TargetItem /\ k \in 1 .. Len(items)
  BY ItemFacts
<1>2. Cardinality(Denotes(Item)) = Pow[W - Item.ones]
  BY <1>1, BlockCount
<1>3. Denotes(Item) \in SUBSET Named(1, k)
  BY <1>1 DEF Named, Item
<1>4. /\ Cardinality(Denotes(Item)) <= Cardinality(Named(1, k))
      /\ Cardinality(Denotes(Item)) \in Nat /\ Cardinality(Named(1, k)) \in Nat
  BY <1>1, <1>3, NamedBound DEF Typing
<1>. QED BY <1>1, <1>2, <1>4, SizeFacts

\* The count of an IPv4 block wraps for the whole space only, so it is never
\* more than the hosts there are.
LEMMA CountWraps ==
  ASSUME NEW n \in 1 .. Size, Uint(n) > MaxCap
  PROVE  n > MaxCap
<1>1. n = Size \/ n \in 0 .. Size - 1
  BY SizeFacts
<1>. QED BY <1>1, SizeFacts

LEMMA Begin4Step ==
  ASSUME IInv, pc = "item", k <= Len(items), NEW last,
         \/ Item.kind = "cidr" /\ Item.fam = 4 /\ last = Block.last
         \/ Item.kind = "mapped" /\ last = Block.first,
         Begin4(Block.first, last)
  PROVE  IInv'
<1> DEFINE first == Low(Item.addr, Item.ones)
<1>1. k \in 1 .. Len(items) /\ Len(items) \in Nat /\ Item \in TargetItem
  BY ItemFacts DEF IInv
<1>2. /\ Item.ones \in 0 .. W /\ W - Item.ones \in 0 .. W /\ W \in 0 .. W
      /\ Pow[W - Item.ones] \in Nat \ {0}
  BY <1>1, WidthAssumption, PowDef DEF TargetItem
<1>3. /\ first \in 0 .. Size - 1 /\ last \in 0 .. Size - 1 /\ first <= last
      /\ Block.first = first
      /\ \/ Item.kind = "cidr" /\ last = High(Item.addr, Item.ones)
            /\ last - first + 1 = Pow[W - Item.ones]
         \/ Item.kind = "mapped" /\ last = first
  BY <1>1, DenotesFacts, SizeFacts DEF Block
<1>4. err = "none" /\ portMap = {} /\ items # << >>
  BY DEF IInv, CapInv, PortInv, PositionInv
<1> HIDE DEF first
<1>5. CASE HostCount(Block.first, last) > MaxCap
  <2>1. Uint(last - first + 1) > MaxCap /\ last - first + 1 \in 1 .. Size
    BY <1>3, <1>5, SizeFacts DEF HostCount
  <2>2. last - first + 1 > MaxCap
    BY <2>1, CountWraps
  <2>3. Item.kind = "cidr" /\ Pow[W - Item.ones] > MaxCap
    BY <1>3, <2>2, SizeFacts
  <2>4. Fail("range")
    BY <1>5 DEF Begin4
  <2>. QED BY <2>3, <2>4, BlockOverCap, FailStep DEF IInv
<1>6. CASE ~ HostCount(Block.first, last) > MaxCap
  <2>1. /\ i' = first /\ end' = last /\ ips' = << >> /\ pos' = 1 /\ pc' = "loop4"
        /\ UNCHANGED <<items, allowPublic, k, seen, resolved, chunks, portMap, err>>
    BY <1>3, <1>6 DEF Begin4, target, portState
  <2>2. Typing'
    BY <2>1, <1>3 DEF IInv, Typing
  <2>3. PositionInv' /\ PortInv' /\ CheckedInv' /\ CapInv'
    BY <2>1, <1>1, <1>3, <1>4 DEF IInv, PositionInv, PortInv, CheckedInv, CapInv,
       Expanding, Accepting, Item, Allowed
  <2>4. LoopInv'
    <3>1. Item' = Item /\ Len(ips') = 0 /\ Entries(ips') = {}
      BY <2>1 DEF Item, Entries
    <3>2. {4} \X (first .. first - 1) = {} /\ first + 0 = first /\ first <= last + 1
      BY <1>3
    <3>3. Item.fam = 4 \/ Item.kind = "mapped"
      OBVIOUS
    <3>4. /\ Low(Item.addr, Item.ones)' = first
          /\ High(Item.addr, Item.ones)' = High(Item.addr, Item.ones)
      BY <3>1 DEF first, Low, High
    <3>5. \/ Item'.kind = "mapped" /\ end' = first
          \/ Item'.kind = "cidr" /\ Item'.fam = 4 /\ end' = High(Item.addr, Item.ones)'
      BY <1>3, <2>1, <3>1, <3>3, <3>4
    <3>6. /\ i' = first + Len(ips') /\ i' <= end' + 1
          /\ Entries(ips)' = {4} \X (first .. i' - 1)
      BY <2>1, <3>1, <3>2
    <3>. QED BY <2>1, <3>4, <3>5, <3>6 DEF LoopInv, Loop4Inv
  <2>5. ResolvedInv'
    BY <2>1 DEF IInv, ResolvedInv, Before, Accepting
  <2>. QED BY <2>2, <2>3, <2>4, <2>5 DEF IInv
<1>. QED BY <1>5, <1>6

LEMMA BeginBlock4Step == ASSUME IInv, BeginBlock4 PROVE IInv'
BY Begin4Step DEF BeginBlock4, Taking

LEMMA BeginMappedStep == ASSUME IInv, BeginMapped PROVE IInv'
BY Begin4Step DEF BeginMapped, Taking

\* An address added to the item in hand leaves the rest as it was.
LEMMA LoopAppend ==
  ASSUME IInv, pc \in {"loop4", "loop6"}, NEW fam \in {4, 6},
         ips' = Append(ips, <<fam, i>>), i' = Uint(i + 1),
         UNCHANGED <<target, pc, k, end, pos, seen, resolved, portState, err>>
  PROVE  /\ Typing' /\ PositionInv' /\ CheckedInv' /\ ResolvedInv' /\ CapInv' /\ PortInv'
         /\ Len(ips') = Len(ips) + 1 /\ Len(ips) \in Nat
         /\ Entries(ips') = Entries(ips) \cup {<<fam, i>>}
<1>1. UNCHANGED <<items, allowPublic, pc, k, end, pos, seen, resolved, chunks, portMap, err>>
  BY DEF target, portState
<1>2. i \in 0 .. Size - 1 /\ ips \in Seq(Host) /\ <<fam, i>> \in Host
  BY DEF IInv, Typing, Host
<1>3. i' \in 0 .. Size - 1
  <2>1. i + 1 = Size \/ i + 1 \in 0 .. Size - 1
    BY <1>2, SizeFacts
  <2>. QED BY <2>1, SizeFacts
<1>4. ips' \in Seq(Host) /\ Len(ips') = Len(ips) + 1 /\ Len(ips) \in Nat
  BY <1>2
<1>5. Typing'
  BY <1>1, <1>3, <1>4 DEF IInv, Typing
<1>6. PositionInv' /\ PortInv' /\ CheckedInv' /\ CapInv'
  BY <1>1 DEF IInv, PositionInv, PortInv, CheckedInv, CapInv, Expanding, Accepting,
     Item, Allowed, Named
<1>7. ResolvedInv'
  BY <1>1 DEF IInv, ResolvedInv, Before, Accepting
<1>8. Entries(ips') = Entries(ips) \cup {<<fam, i>>}
  BY <1>2, EntriesAppend
<1>. QED BY <1>4, <1>5, <1>6, <1>7, <1>8

\* A loop that has covered its block hands the item over for validation.
LEMMA LoopExit ==
  ASSUME IInv, pc \in {"loop4", "loop6"}, Entries(ips) = Expanded(Item), pos = 1,
         pc' = "validate",
         UNCHANGED <<target, k, i, end, ips, pos, seen, resolved, portState, err>>
  PROVE  IInv'
<1>1. UNCHANGED <<items, allowPublic, k, i, end, ips, pos, seen, resolved, chunks, portMap, err>>
  BY DEF target, portState
<1>2. Typing'
  BY <1>1 DEF IInv, Typing
<1>3. Len(ips) \in Nat
  BY LenProperties DEF IInv, Typing
<1>4. PositionInv' /\ PortInv' /\ CapInv'
  BY <1>1, <1>3 DEF IInv, PositionInv, PortInv, CapInv, Expanding, Accepting, Item, Named
<1>5. CheckedInv'
  BY <1>1, <1>3 DEF IInv, CheckedInv, Allowed
<1>6. LoopInv'
  BY <1>1 DEF LoopInv, Item, Expanded, Denotes, Entries, Low, High
<1>7. ResolvedInv'
  BY <1>1 DEF IInv, ResolvedInv, Before, Accepting
<1>. QED BY <1>2, <1>4, <1>5, <1>6, <1>7 DEF IInv

LEMMA Loop4Step == ASSUME IInv, Loop4 PROVE IInv'
<1> DEFINE first == Low(Item.addr, Item.ones)
<1>1. /\ pc = "loop4" /\ pos = 1
      /\ \/ Item.kind = "mapped" /\ end = first
         \/ Item.kind = "cidr" /\ Item.fam = 4 /\ end = High(Item.addr, Item.ones)
      /\ end # Size - 1 => /\ i = first + Len(ips) /\ i <= end + 1
                           /\ Entries(ips) = {4} \X (first .. i - 1)
  BY DEF Loop4, IInv, LoopInv, Loop4Inv
<1>2. /\ i \in 0 .. Size - 1 /\ end \in 0 .. Size - 1 /\ first \in 0 .. Size - 1
      /\ Size \in Nat /\ Len(ips) \in Nat
  <2>1. k <= Len(items)
    BY <1>1, LenProperties DEF IInv, Typing, PositionInv, Expanding
  <2>2. Item \in TargetItem
    BY <2>1, ItemFacts DEF IInv
  <2>. QED BY <2>2, DenotesFacts, SizeFacts, LenProperties DEF IInv, Typing
<1>3. CASE i > end
  <2>1. i = end + 1 /\ Entries(ips) = {4} \X (first .. end)
    BY <1>1, <1>2, <1>3
  <2>2. {4} \X (first .. first) = {<<4, first>>}
    BY <1>2
  <2>3. Entries(ips) = Expanded(Item)
    BY <1>1, <2>1, <2>2 DEF Expanded, Denotes
  <2>. QED BY <1>1, <1>3, <2>3, LoopExit DEF Loop4
<1>4. CASE ~ i > end /\ Len(ips) = Memory
  <2>1. /\ pc' = "killed"
        /\ UNCHANGED <<items, allowPublic, k, i, end, ips, pos, seen, resolved, chunks, portMap, err>>
    BY <1>4 DEF Loop4, target, portState
  <2>2. err = "none" /\ portMap = {}
    BY <1>1 DEF IInv, CapInv, PortInv
  <2>3. Typing' /\ PositionInv' /\ LoopInv' /\ CheckedInv' /\ ResolvedInv' /\ PortInv'
    BY <2>1, <2>2 DEF IInv, Typing, PositionInv, LoopInv, CheckedInv, ResolvedInv, PortInv,
       Expanding, Accepting, Allowed, Entries
  <2>4. CapInv'
    BY <2>1, <2>2 DEF CapInv
  <2>. QED BY <2>3, <2>4 DEF IInv
<1>5. CASE ~ i > end /\ Len(ips) # Memory
  <2>1. /\ ips' = Append(ips, <<4, i>>) /\ i' = Uint(i + 1)
        /\ UNCHANGED <<target, pc, k, end, pos, seen, resolved, portState, err>>
    BY <1>5 DEF Loop4
  <2>2. /\ Typing' /\ PositionInv' /\ CheckedInv' /\ ResolvedInv' /\ CapInv' /\ PortInv'
        /\ Len(ips') = Len(ips) + 1
        /\ Entries(ips') = Entries(ips) \cup {<<4, i>>}
    BY <1>1, <2>1, LoopAppend
  <2>3. LoopInv'
    <3>1. /\ pc' = "loop4" /\ pos' = 1 /\ end' = end
          /\ Item' = Item /\ Low(Item.addr, Item.ones)' = first
          /\ High(Item.addr, Item.ones)' = High(Item.addr, Item.ones)
      BY <1>1, <2>1 DEF Item, Low, High, target
    <3>2. ASSUME end # Size - 1
          PROVE  /\ i' = first + Len(ips') /\ i' <= end + 1
                 /\ Entries(ips') = {4} \X (first .. i' - 1)
      <4>1. i <= end /\ i + 1 \in 0 .. Size - 1 /\ i' = i + 1
        BY <1>2, <1>5, <2>1, <3>2, SizeFacts
      <4>2. i = first + Len(ips) /\ Entries(ips) = {4} \X (first .. i - 1)
        BY <1>1, <3>2
      <4> HIDE DEF first
      <4>3. first .. i' - 1 = (first .. i - 1) \cup {i}
        BY <1>2, <4>1, <4>2
      <4>4. {4} \X (first .. i' - 1) = ({4} \X (first .. i - 1)) \cup {<<4, i>>}
        BY <4>3
      <4>. QED BY <1>2, <2>2, <4>1, <4>2, <4>4
    <3>3. \/ Item'.kind = "mapped" /\ end' = first
          \/ Item'.kind = "cidr" /\ Item'.fam = 4 /\ end' = High(Item.addr, Item.ones)'
      BY <1>1, <3>1
    <3>4. end' # Size - 1 => /\ i' = first + Len(ips') /\ i' <= end' + 1
                             /\ Entries(ips)' = {4} \X (first .. i' - 1)
      BY <3>1, <3>2
    <3> HIDE DEF first
    <3>. QED BY <3>1, <3>3, <3>4 DEF LoopInv, Loop4Inv
  <2>. QED BY <2>2, <2>3 DEF IInv
<1>. QED BY <1>3, <1>4, <1>5

LEMMA BeginBlock6Step == ASSUME IInv, BeginBlock6 PROVE IInv'
<1> DEFINE first == Low(Item.addr, Item.ones)
           last == High(Item.addr, Item.ones)
<1>1. pc = "item" /\ k <= Len(items) /\ Item.kind = "cidr" /\ Item.fam = 6
  BY DEF BeginBlock6, Taking
<1>2. k \in 1 .. Len(items) /\ Len(items) \in Nat /\ Item \in TargetItem
  BY <1>1, ItemFacts DEF IInv
<1>3. /\ first \in 0 .. Size - 1 /\ last \in 0 .. Size - 1 /\ first <= last
      /\ Block.first = first /\ Block.last = last
  BY <1>2, DenotesFacts DEF Block
<1>4. err = "none" /\ portMap = {} /\ items # << >>
  BY <1>1 DEF IInv, CapInv, PortInv, PositionInv
<1> HIDE DEF first, last
<1>5. CASE W - Item.ones > CapBits
  <2>1. W - Item.ones \in 0 .. W /\ CapBits \in 0 .. W
    BY <1>2, WidthAssumption, CapAssumption DEF TargetItem
  <2>2. Pow[W - Item.ones] > MaxCap
    <3>1. Pow[CapBits] < Pow[W - Item.ones]
      BY <1>5, <2>1, PowGrows
    <3>. QED BY <3>1, <2>1, CapAssumption, PowDef
  <2>3. Fail("range")
    BY <1>5 DEF BeginBlock6
  <2>. QED BY <1>1, <2>2, <2>3, BlockOverCap, FailStep DEF IInv
<1>6. CASE ~ W - Item.ones > CapBits
  <2>1. /\ i' = first /\ end' = last /\ ips' = << >> /\ pos' = 1 /\ pc' = "loop6"
        /\ UNCHANGED <<items, allowPublic, k, seen, resolved, chunks, portMap, err>>
    BY <1>3, <1>6 DEF BeginBlock6, target, portState
  <2>2. Typing'
    BY <2>1, <1>3 DEF IInv, Typing
  <2>3. PositionInv' /\ PortInv' /\ CheckedInv' /\ CapInv'
    BY <2>1, <1>1, <1>2, <1>4 DEF IInv, PositionInv, PortInv, CheckedInv, CapInv,
       Expanding, Accepting, Item, Allowed
  <2>4. LoopInv'
    <3>1. /\ Item' = Item /\ Len(ips') = 0 /\ Entries(ips)' = {}
          /\ Low(Item.addr, Item.ones)' = first /\ High(Item.addr, Item.ones)' = last
      BY <2>1 DEF Item, Entries, first, last, Low, High
    <3>2. W - Item.ones <= CapBits
      BY <1>2, <1>6, WidthAssumption, CapAssumption DEF TargetItem
    <3>3. /\ first + Len(ips') = first /\ Uint(first) = first /\ first <= end' + 1
          /\ {6} \X (first .. first - 1) = {}
      BY <1>3, <2>1, <3>1, SizeFacts
    <3>4. Item'.kind = "cidr" /\ Item'.fam = 6 /\ W - Item'.ones <= CapBits
      BY <1>1, <3>1, <3>2
    <3>5. /\ first + Len(ips') <= end' + 1 /\ i' = Uint(first + Len(ips'))
          /\ Entries(ips)' = {6} \X (first .. first + Len(ips') - 1)
      <4>1. first + Len(ips') <= end' + 1 /\ i' = Uint(first + Len(ips'))
        BY <2>1, <3>3
      <4>2. first + Len(ips') - 1 = first - 1
        BY <1>3, <3>1, SizeFacts
      <4>3. Entries(ips)' = {6} \X (first .. first + Len(ips') - 1)
        BY <3>1, <3>3, <4>2
      <4>. QED BY <4>1, <4>3
    <3>6. Loop6Inv'
      BY <2>1, <3>1, <3>4, <3>5 DEF Loop6Inv
    <3>. QED BY <2>1, <3>6 DEF LoopInv
  <2>5. ResolvedInv'
    BY <1>1, <2>1 DEF IInv, ResolvedInv, Before, Accepting
  <2>. QED BY <2>2, <2>3, <2>4, <2>5 DEF IInv
<1>. QED BY <1>5, <1>6

\* Where the IPv6 loop is: inside its block with room below the cap, or past
\* its end, which the wrapped address shows too.
LEMMA Loop6Position ==
  ASSUME IInv, pc = "loop6"
  PROVE  LET first == Low(Item.addr, Item.ones)
             last == High(Item.addr, Item.ones)
         IN /\ first \in 0 .. Size - 1 /\ last \in 0 .. Size - 1
            /\ Item \in TargetItem /\ Len(ips) \in Nat
            /\ \/ i = first + Len(ips) /\ i <= last /\ Len(ips) < MaxCap
               \/ first + Len(ips) = last + 1 /\ i \notin first .. last
<1> DEFINE first == Low(Item.addr, Item.ones)
           last == High(Item.addr, Item.ones)
<1>1. /\ W - Item.ones <= CapBits /\ end = last
      /\ first + Len(ips) <= end + 1 /\ i = Uint(first + Len(ips))
  BY DEF IInv, LoopInv, Loop6Inv
<1>2. Item \in TargetItem /\ Len(ips) \in Nat
  <2>1. k <= Len(items)
    BY LenProperties DEF IInv, Typing, PositionInv, Expanding
  <2>. QED BY <2>1, ItemFacts, LenProperties DEF IInv, Typing
<1>3. /\ first \in 0 .. Size - 1 /\ last \in 0 .. Size - 1 /\ first <= last
      /\ last - first + 1 = Pow[W - Item.ones]
  BY <1>2, DenotesFacts
<1>4. Pow[W - Item.ones] \in Nat /\ Pow[W - Item.ones] <= MaxCap
  <2>1. W - Item.ones \in 0 .. W /\ CapBits \in 0 .. W
    BY <1>2, WidthAssumption, CapAssumption DEF TargetItem
  <2>2. W - Item.ones = CapBits \/ W - Item.ones < CapBits
    BY <1>1, <2>1
  <2>3. Pow[CapBits] \in Nat /\ Pow[W - Item.ones] \in Nat
    BY <2>1, PowDef
  <2>. QED BY <2>1, <2>2, <2>3, PowGrows, CapAssumption
<1> HIDE DEF first, last
<1>5. Size \in Nat /\ MaxCap \in Nat /\ MaxCap < Size
  BY SizeFacts
<1>6. CASE first + Len(ips) <= last
  <2>1. first + Len(ips) \in 0 .. Size - 1
    BY <1>2, <1>3, <1>5, <1>6
  <2>2. i = first + Len(ips)
    BY <1>1, <2>1, SizeFacts
  <2>3. i <= last /\ Len(ips) < MaxCap
    BY <1>2, <1>3, <1>4, <1>5, <1>6, <2>2
  <2>. QED BY <1>2, <1>3, <2>2, <2>3 DEF first, last
<1>7. CASE first + Len(ips) = last + 1
  <2>1. last + 1 = Size \/ last + 1 \in 0 .. Size - 1
    BY <1>3, <1>5
  <2>2. i = last + 1 \/ (last + 1 = Size /\ i = 0)
    BY <1>1, <1>7, <2>1, SizeFacts
  <2>3. i \notin first .. last
    BY <1>3, <1>4, <1>5, <2>2
  <2>. QED BY <1>2, <1>3, <1>7, <2>3 DEF first, last
<1>. QED BY <1>1, <1>2, <1>3, <1>6, <1>7

LEMMA Loop6Step == ASSUME IInv, Loop6 PROVE IInv'
<1> DEFINE first == Low(Item.addr, Item.ones)
           last == High(Item.addr, Item.ones)
<1>1. pc = "loop6" /\ Block.first = first /\ Block.last = last
  BY DEF Loop6, Block
<1>2. /\ pos = 1 /\ Item.kind = "cidr" /\ Item.fam = 6 /\ W - Item.ones <= CapBits
      /\ end = last /\ Entries(ips) = {6} \X (first .. first + Len(ips) - 1)
  <2>1. Loop6Inv
    BY <1>1 DEF IInv, LoopInv
  <2>. QED BY <2>1 DEF Loop6Inv
<1>3. /\ first \in 0 .. Size - 1 /\ last \in 0 .. Size - 1 /\ Size \in Nat
      /\ Item \in TargetItem /\ Len(ips) \in Nat
      /\ \/ i = first + Len(ips) /\ i <= last /\ Len(ips) < MaxCap
         \/ first + Len(ips) = last + 1 /\ i \notin first .. last
  BY <1>1, Loop6Position, SizeFacts
<1> HIDE DEF first, last
<1>4. CASE i \notin first .. last
  <2>1. first + Len(ips) = last + 1
    BY <1>3, <1>4
  <2>2. first + Len(ips) - 1 = last
    BY <1>3, <2>1
  <2>3. Entries(ips) = Expanded(Item)
    BY <1>2, <2>2 DEF Expanded, Denotes, first, last
  <2>4. /\ pc' = "validate"
        /\ UNCHANGED <<target, k, i, end, ips, pos, seen, resolved, portState, err>>
    BY <1>1, <1>4 DEF Loop6, expansion
  <2>. QED BY <1>1, <1>2, <2>3, <2>4, LoopExit
<1>5. CASE i \in first .. last
  <2>1. i = first + Len(ips) /\ i <= last /\ Len(ips) # MaxCap
    BY <1>3, <1>5, SizeFacts
  <2>2. /\ ips' = Append(ips, <<6, i>>) /\ i' = Uint(i + 1)
        /\ UNCHANGED <<target, pc, k, end, pos, seen, resolved, portState, err>>
    BY <1>1, <1>5, <2>1 DEF Loop6
  <2>3. /\ Typing' /\ PositionInv' /\ CheckedInv' /\ ResolvedInv' /\ CapInv' /\ PortInv'
        /\ Len(ips') = Len(ips) + 1
        /\ Entries(ips') = Entries(ips) \cup {<<6, i>>}
    BY <1>1, <2>2, LoopAppend
  <2>4. LoopInv'
    <3>1. /\ pc' = "loop6" /\ pos' = 1 /\ end' = end
          /\ Item' = Item /\ Low(Item.addr, Item.ones)' = first
          /\ High(Item.addr, Item.ones)' = last
      BY <1>1, <1>2, <2>2 DEF Item, Low, High, target, first, last
    <3>2. /\ first + Len(ips') = i + 1 /\ first + Len(ips') <= end + 1
          /\ i' = Uint(first + Len(ips'))
      BY <1>2, <1>3, <2>1, <2>2, <2>3
    <3>3. first .. first + Len(ips') - 1 = (first .. first + Len(ips) - 1) \cup {i}
      BY <1>3, <2>1, <2>3
    <3>4. Entries(ips)' = {6} \X (first .. first + Len(ips') - 1)
      BY <1>2, <2>3, <3>3
    <3>5. Item'.kind = "cidr" /\ Item'.fam = 6 /\ W - Item'.ones <= CapBits
      BY <1>2, <3>1
    <3>6. pc' \notin {"loop4", "validate", "merge"} /\ end' = High(Item.addr, Item.ones)'
      BY <1>2, <3>1
    <3>7. Loop6Inv'
      BY <3>1, <3>2, <3>4, <3>5, <3>6 DEF Loop6Inv
    <3>. QED BY <3>6, <3>7 DEF LoopInv
  <2>. QED BY <2>3, <2>4 DEF IInv
<1>. QED BY <1>4, <1>5

LEMMA ValidateStep == ASSUME IInv, Validate PROVE IInv'
<1>1. /\ pc = "validate" /\ pos \in Nat \ {0} /\ pos <= Len(ips) + 1
      /\ Len(ips) \in Nat /\ DOMAIN ips = 1 .. Len(ips)
  BY LenProperties DEF Validate, IInv, Typing, PositionInv
<1>2. CASE pos > Len(ips)
  <2>1. /\ pos' = 1 /\ pc' = "merge"
        /\ UNCHANGED <<items, allowPublic, k, i, end, ips, seen, resolved, chunks, portMap, err>>
    BY <1>2 DEF Validate, target, portState
  <2>2. Typing'
    BY <2>1 DEF IInv, Typing
  <2>3. PositionInv' /\ PortInv' /\ CapInv'
    BY <1>1, <2>1 DEF IInv, PositionInv, PortInv, CapInv, Expanding, Accepting, Item, Named
  <2>4. CheckedInv'
    <3>1. \A n \in DOMAIN ips : n < pos
      BY <1>1, <1>2
    <3>. QED BY <1>1, <2>1, <3>1 DEF IInv, CheckedInv, Allowed
  <2>5. LoopInv'
    BY <1>1, <2>1 DEF IInv, LoopInv, Item, Expanded, Denotes, Entries, Low, High
  <2>6. ResolvedInv'
    <3>1. {ips'[n] : n \in 1 .. pos' - 1} = {}
      BY <2>1
    <3>. QED BY <1>1, <2>1, <3>1 DEF IInv, ResolvedInv, Before, Accepting
  <2>. QED BY <2>2, <2>3, <2>4, <2>5, <2>6 DEF IInv
<1>3. CASE ~ pos > Len(ips) /\ ~ allowPublic /\ ips[pos] \notin Permitted
  <2>1. Fail("public") /\ k \in 1 .. Len(items) /\ Item \in TargetItem
    BY <1>1, <1>3, ItemFacts DEF Validate, IInv, PositionInv, Expanding
  <2>2. ips[pos] \in Expanded(Item)
    BY <1>1, <1>3 DEF IInv, LoopInv, Entries
  <2>3. ips[pos] \in Denotes(items[k])
    BY <2>1, <2>2, DenotesFacts DEF Item
  <2>. QED BY <1>3, <2>1, <2>3, FailStep
<1>4. CASE ~ pos > Len(ips) /\ (allowPublic \/ ips[pos] \in Permitted)
  <2>1. /\ pos' = pos + 1 /\ pos <= Len(ips)
        /\ UNCHANGED <<items, allowPublic, pc, k, i, end, ips, seen, resolved, chunks, portMap, err>>
    BY <1>1, <1>4 DEF Validate, target, portState
  <2>2. Typing'
    BY <1>1, <2>1 DEF IInv, Typing
  <2>3. PositionInv' /\ PortInv' /\ CapInv'
    BY <1>1, <2>1 DEF IInv, PositionInv, PortInv, CapInv, Expanding, Accepting, Item, Named
  <2>4. CheckedInv'
    <3>1. \A n \in DOMAIN ips : n < pos' => n < pos \/ n = pos
      BY <1>1, <2>1
    <3>. QED BY <1>1, <1>4, <2>1, <3>1 DEF IInv, CheckedInv, Allowed
  <2>5. LoopInv'
    BY <1>1, <2>1 DEF IInv, LoopInv, Item, Expanded, Denotes, Entries, Low, High
  <2>6. ResolvedInv'
    BY <1>1, <2>1 DEF IInv, ResolvedInv, Before, Accepting
  <2>. QED BY <2>2, <2>3, <2>4, <2>5, <2>6 DEF IInv
<1>. QED BY <1>1, <1>2, <1>3, <1>4

\* A host is kept the first time it is met.
LEMMA MergeStep == ASSUME IInv, Merge PROVE IInv'
<1> DEFINE x == ips[pos]
<1>1. /\ pc = "merge" /\ pos \in 1 .. Len(ips) /\ Len(ips) \in Nat
      /\ DOMAIN ips = 1 .. Len(ips) /\ ips \in Seq(Host) /\ resolved \in Seq(Host)
      /\ items # << >> /\ portMap = {} /\ err = "none"
  BY LenProperties DEF Merge, IInv, Typing, PositionInv, PortInv, CapInv, Expanding
<1>2. /\ pos' = pos + 1 /\ seen' = seen \cup {x}
      /\ resolved' = IF x \in seen THEN resolved ELSE Append(resolved, x)
      /\ UNCHANGED <<items, allowPublic, pc, k, i, end, ips, chunks, portMap, err>>
  BY DEF Merge, target, portState
<1>3. x \in Host /\ Allowed(x)
  BY <1>1, ElementOfSeq DEF IInv, CheckedInv
<1>4. /\ seen = Entries(resolved)
      /\ Entries(resolved) = Before(k) \cup {ips[n] : n \in 1 .. pos - 1}
  BY <1>1 DEF IInv, ResolvedInv
<1>5. /\ resolved' \in Seq(Host) /\ Entries(resolved') = Entries(resolved) \cup {x}
      /\ \A n, m \in DOMAIN resolved' : resolved'[n] = resolved'[m] => n = m
      /\ \A n \in DOMAIN resolved' : Allowed(resolved'[n])
  <2>1. /\ \A n, m \in DOMAIN resolved : resolved[n] = resolved[m] => n = m
        /\ \A n \in DOMAIN resolved : Allowed(resolved[n])
    BY DEF IInv, ResolvedInv, CheckedInv
  <2> HIDE DEF x
  <2>2. CASE x \in seen
    BY <1>1, <1>2, <1>4, <2>1, <2>2
  <2>3. CASE x \notin seen
    <3>1. \A n \in DOMAIN resolved : resolved[n] # x
      BY <1>4, <2>3 DEF Entries
    <3>2. resolved' = Append(resolved, x)
      BY <1>2, <2>3
    <3>3. Entries(resolved') = Entries(resolved) \cup {x}
      BY <1>1, <1>3, <3>2, EntriesAppend
    <3>4. /\ Append(resolved, x) \in Seq(Host)
          /\ DOMAIN Append(resolved, x) = DOMAIN resolved \cup {Len(resolved) + 1}
          /\ \A n \in DOMAIN resolved : Append(resolved, x)[n] = resolved[n]
          /\ Append(resolved, x)[Len(resolved) + 1] = x
      BY <1>1, <1>3, Extended
    <3> DEFINE grown == resolved'
               top == Len(resolved) + 1
    <3>5. /\ DOMAIN grown = DOMAIN resolved \cup {top} /\ grown[top] = x
          /\ \A n \in DOMAIN resolved : grown[n] = resolved[n]
      BY <3>2, <3>4
    <3> HIDE DEF grown, top
    <3>6. \A n, m \in DOMAIN grown : grown[n] = grown[m] => n = m
      BY <2>1, <3>1, <3>5
    <3>7. \A n \in DOMAIN grown : Allowed(grown[n])
      BY <1>3, <2>1, <3>5
    <3>. QED BY <3>2, <3>3, <3>4, <3>6, <3>7 DEF grown
  <2>. QED BY <2>2, <2>3
<1>6. Typing'
  BY <1>1, <1>2, <1>3, <1>5 DEF IInv, Typing
<1>7. PositionInv' /\ PortInv' /\ CapInv'
  BY <1>1, <1>2 DEF IInv, PositionInv, PortInv, CapInv, Expanding, Accepting, Item, Named
<1>8. CheckedInv'
  BY <1>1, <1>2, <1>5 DEF IInv, CheckedInv, Allowed
<1>9. LoopInv'
  BY <1>1, <1>2 DEF IInv, LoopInv, Item, Expanded, Denotes, Entries, Low, High
<1>10. ResolvedInv'
  <2>1. Before(k)' = Before(k) /\ Entries(resolved)' = Entries(resolved')
    BY <1>2 DEF Before, Entries
  <2>2. {ips'[n] : n \in 1 .. pos' - 1} = {ips[n] : n \in 1 .. pos - 1} \cup {x}
    BY <1>1, <1>2
  <2>3. Entries(resolved)' = Before(k)' \cup {ips'[n] : n \in 1 .. pos' - 1}
    BY <1>4, <1>5, <2>1, <2>2
  <2>4. seen' = Entries(resolved)'
    BY <1>2, <1>4, <1>5, <2>1
  <2>. QED BY <1>1, <1>2, <1>5, <2>3, <2>4 DEF ResolvedInv, Accepting
<1>. QED BY <1>6, <1>7, <1>8, <1>9, <1>10 DEF IInv

\* Every host resolved so far is named by the items so far, and no host is
\* resolved twice: more than the cap resolved is more than the cap asked for.
LEMMA NextItemStep == ASSUME IInv, NextItem PROVE IInv'
<1>1. /\ pc = "merge" /\ pos > Len(ips) /\ pos \in Nat /\ pos <= Len(ips) + 1
      /\ Len(ips) \in Nat /\ DOMAIN ips = 1 .. Len(ips) /\ Len(resolved) \in Nat
      /\ items # << >> /\ k \in 1 .. Len(items) /\ Len(items) \in Nat
      /\ err = "none" /\ portMap = {}
  BY LenProperties DEF NextItem, IInv, Typing, PositionInv, PortInv, CapInv, Expanding
<1>2. Entries(resolved) = Before(k + 1)
  <2>1. pos - 1 = Len(ips)
    BY <1>1
  <2>2. Entries(resolved) = Before(k) \cup Entries(ips)
    BY <1>1, <2>1 DEF IInv, ResolvedInv, Entries
  <2>3. Entries(ips) = Expanded(items[k])
    BY <1>1 DEF IInv, LoopInv, Item
  <2>4. k \in Nat \ {0}
    BY <1>1
  <2>5. Before(k + 1) = Before(k) \cup Expanded(items[k])
    BY <2>4, BeforeNext
  <2>. QED BY <2>2, <2>3, <2>5
<1>3. CASE OverCap(Len(resolved))
  <2>1. Cardinality(Entries(resolved)) = Len(resolved)
    BY DistinctCount DEF IInv, Typing, ResolvedInv, Entries
  <2>2. Entries(resolved) \in SUBSET Named(1, k)
    BY <1>1, <1>2, BeforeNamed DEF IInv
  <2>3. /\ Cardinality(Entries(resolved)) <= Cardinality(Named(1, k))
        /\ Cardinality(Named(1, k)) \in Nat
    BY <1>1, <2>2, NamedBound DEF IInv, Typing
  <2>4. Cardinality(Named(1, k)) > MaxCap
    BY <1>1, <1>3, <2>1, <2>3, SizeFacts DEF OverCap
  <2>. QED BY <1>1, <1>3, <2>4, FailStep DEF NextItem
<1>4. CASE ~ OverCap(Len(resolved))
  <2>1. /\ k' = k + 1 /\ pc' = "item"
        /\ UNCHANGED <<items, allowPublic, i, end, ips, pos, seen, resolved, chunks, portMap, err>>
    BY <1>4 DEF NextItem, target, expansion, portState
  <2>2. Typing'
    BY <1>1, <2>1 DEF IInv, Typing
  <2>3. PositionInv' /\ PortInv' /\ LoopInv'
    BY <1>1, <2>1 DEF IInv, PositionInv, PortInv, LoopInv, Expanding, Accepting
  <2>4. CheckedInv'
    BY <1>1, <2>1 DEF IInv, CheckedInv, Allowed
  <2>5. CapInv'
    BY <1>1, <1>4, <2>1, SizeFacts DEF CapInv, OverCap
  <2>6. ResolvedInv'
    <3>1. Before(k)' = Before(k + 1)
      BY <2>1 DEF Before
    <3>. QED BY <1>2, <2>1, <3>1 DEF IInv, ResolvedInv, Accepting, Entries
  <2>. QED BY <2>2, <2>3, <2>4, <2>5, <2>6 DEF IInv
<1>. QED BY <1>3, <1>4

LEMMA ResolvedStep == ASSUME IInv, Resolved PROVE IInv'
<1>1. CASE resolved = << >>
  BY <1>1, FailStep DEF Resolved
<1>2. CASE resolved # << >>
  <2>1. /\ pc = "item" /\ k > Len(items) /\ pc' = "ports"
        /\ UNCHANGED <<items, allowPublic, k, i, end, ips, pos, seen, resolved, chunks, portMap, err>>
    BY <1>2 DEF Resolved, target, expansion, portState
  <2>2. k = Len(items) + 1 /\ err = "none" /\ portMap = {}
    BY <2>1, LenProperties DEF IInv, Typing, PositionInv, CapInv, PortInv
  <2>3. Typing'
    BY <2>1 DEF IInv, Typing
  <2>4. PositionInv' /\ LoopInv' /\ CheckedInv' /\ CapInv' /\ PortInv'
    BY <2>1, <2>2 DEF IInv, PositionInv, LoopInv, CheckedInv, CapInv, PortInv, Expanding,
       Accepting, Allowed
  <2>5. ResolvedInv'
    <3>1. Entries(resolved) = Before(Len(items) + 1)
      BY <2>1, <2>2 DEF IInv, ResolvedInv
    <3>2. Before(Len(items) + 1)' = Before(Len(items) + 1)
      BY <2>1 DEF Before
    <3>. QED BY <2>1, <3>1, <3>2 DEF IInv, ResolvedInv, Entries
  <2>. QED BY <2>3, <2>4, <2>5 DEF IInv
<1>. QED BY <1>1, <1>2
-----------------------------------------------------------------------------
(* ParsePorts. *)

LEMMA ReadPortsStep == ASSUME IInv, ReadPorts PROVE IInv'
<1>1. /\ pc = "ports" /\ chunks' \in ChunkLists /\ k' = 1 /\ err = "none" /\ portMap = {}
      /\ \/ chunks' = << >> /\ pc' = "error" /\ err' = "ports"
         \/ pc' = "chunk" /\ err' = err
      /\ UNCHANGED <<items, allowPublic, i, end, ips, pos, seen, resolved, portMap>>
  BY DEF ReadPorts, IInv, PositionInv, PortInv, Accepting, target, expansion
<1>2. chunks' \in Seq(Seq(Int)) /\ Len(chunks') \in Nat
  BY <1>1, ListAssumption, LenProperties
<1>3. Typing'
  BY <1>1, <1>2 DEF IInv, Typing
<1>4. PositionInv' /\ LoopInv' /\ CheckedInv' /\ CapInv'
  BY <1>1 DEF IInv, PositionInv, LoopInv, CheckedInv, CapInv, Expanding, Accepting, Allowed
<1>5. ResolvedInv'
  <2>1. Before(Len(items) + 1)' = Before(Len(items) + 1)
    BY <1>1 DEF Before
  <2>. QED BY <1>1, <2>1 DEF IInv, ResolvedInv, Accepting, Entries
<1>6. PortInv'
  <2>1. {} = UNION {PortsOf(chunks'[n]) : n \in 1 .. k' - 1}
    BY <1>1
  <2>. QED BY <1>1, <1>2, <2>1 DEF PortInv, PortsOf
<1>. QED BY <1>3, <1>4, <1>5, <1>6 DEF IInv

\* The ports of a good chunk are ports.
LEMMA GoodChunk ==
  ASSUME NEW c \in Seq(Int), Good(c)
  PROVE  /\ PortsOf(c) \in SUBSET (1 .. MaxPort)
         /\ PortsOf(c) = IF c = << >> THEN {}
                         ELSE IF Len(c) = 1 THEN {c[1]} ELSE RangePorts(c)
<1>1. CASE c = << >>
  BY <1>1 DEF PortsOf
<1>2. CASE c # << >> /\ GoodPort(c)
  <2>1. Len(c) = 1 /\ c[1] \in Int /\ c[1] >= 1 /\ c[1] <= MaxPort
    BY <1>2, ElementOfSeq DEF GoodPort
  <2>2. PortsOf(c) = {c[1]} /\ c[1] \in 1 .. MaxPort
    BY <2>1, WidthAssumption DEF PortsOf
  <2>. QED BY <1>2, <2>1, <2>2
<1>3. CASE c # << >> /\ GoodRange(c)
  <2>1. Len(c) = 2 /\ c[1] \in Int /\ c[2] \in Int /\ c[1] >= 1 /\ c[2] <= MaxPort
    BY <1>3, ElementOfSeq DEF GoodRange
  <2>2. PortsOf(c) = c[1] .. c[2] /\ c[1] .. c[2] \in SUBSET (1 .. MaxPort)
    BY <2>1, WidthAssumption DEF PortsOf
  <2>. QED BY <1>3, <2>1, <2>2 DEF RangePorts
<1>. QED BY <1>1, <1>2, <1>3 DEF Good

LEMMA ParseChunkStep == ASSUME IInv, ParseChunk PROVE IInv'
<1> DEFINE c == chunks[k]
<1>1. /\ pc = "chunk" /\ k \in 1 .. Len(chunks) /\ Len(chunks) \in Nat
      /\ c \in Seq(Int) /\ err = "none" /\ portMap \in SUBSET (1 .. MaxPort)
      /\ portMap = UNION {PortsOf(chunks[n]) : n \in 1 .. k - 1}
  <2>1. /\ pc = "chunk" /\ k <= Len(chunks) /\ k \in Nat \ {0} /\ chunks \in Seq(Seq(Int))
    BY DEF ParseChunk, IInv, Typing
  <2>2. k \in 1 .. Len(chunks) /\ Len(chunks) \in Nat
    BY <2>1, LenProperties
  <2>3. c \in Seq(Int)
    BY <2>1, <2>2, ElementOfSeq
  <2>. QED BY <2>1, <2>2, <2>3 DEF IInv, Typing, CapInv, PortInv
<1>2. CASE Good(c)
  <2>1. /\ portMap' = portMap \cup PortsOf(c) /\ k' = k + 1
        /\ UNCHANGED <<items, allowPublic, pc, i, end, ips, pos, seen, resolved, chunks, err>>
    BY <1>1, <1>2, GoodChunk DEF ParseChunk, Good, target, expansion
  <2>2. PortsOf(c) \in SUBSET (1 .. MaxPort)
    BY <1>1, <1>2, GoodChunk
  <2>3. Typing'
    BY <1>1, <2>1, <2>2 DEF IInv, Typing
  <2>4. PositionInv' /\ LoopInv' /\ CheckedInv' /\ CapInv'
    BY <1>1, <2>1 DEF IInv, PositionInv, LoopInv, CheckedInv, CapInv, Expanding, Accepting,
       Allowed
  <2>5. ResolvedInv'
    <3>1. Before(Len(items) + 1)' = Before(Len(items) + 1)
      BY <2>1 DEF Before
    <3>. QED BY <1>1, <2>1, <3>1 DEF IInv, ResolvedInv, Accepting, Entries
  <2>6. PortInv'
    <3>1. 1 .. k' - 1 = (1 .. k - 1) \cup {k}
      BY <1>1, <2>1
    <3>2. UNION {PortsOf(chunks[n]) : n \in 1 .. k' - 1} = portMap \cup PortsOf(c)
      BY <1>1, <3>1
    <3>. QED BY <1>1, <2>1, <3>2 DEF PortInv, PortsOf
  <2>. QED BY <2>3, <2>4, <2>5, <2>6 DEF IInv
<1>3. CASE ~ Good(c)
  BY <1>3, FailStep DEF ParseChunk, Good
<1>. QED BY <1>2, <1>3

LEMMA PortsParsedStep == ASSUME IInv, PortsParsed PROVE IInv'
<1>1. CASE portMap = {}
  BY <1>1, FailStep DEF PortsParsed
<1>2. CASE portMap # {}
  <2>1. /\ pc = "chunk" /\ k > Len(chunks) /\ pc' = "ready"
        /\ UNCHANGED <<items, allowPublic, k, i, end, ips, pos, seen, resolved, chunks, portMap, err>>
    BY <1>2 DEF PortsParsed, target, expansion, portState
  <2>2. k = Len(chunks) + 1 /\ err = "none"
    BY <2>1, LenProperties DEF IInv, Typing, PortInv, CapInv
  <2>3. Typing'
    BY <2>1 DEF IInv, Typing
  <2>4. PositionInv' /\ LoopInv' /\ CheckedInv' /\ CapInv' /\ PortInv'
    BY <2>1, <2>2 DEF IInv, PositionInv, LoopInv, CheckedInv, CapInv, PortInv, Expanding,
       Accepting, Allowed, PortsOf
  <2>5. ResolvedInv'
    <3>1. Before(Len(items) + 1)' = Before(Len(items) + 1)
      BY <2>1 DEF Before
    <3>. QED BY <2>1, <3>1 DEF IInv, ResolvedInv, Accepting, Entries
  <2>. QED BY <2>3, <2>4, <2>5 DEF IInv
<1>. QED BY <1>1, <1>2

LEMMA IdleStep == ASSUME IInv, UNCHANGED vars PROVE IInv'
<1>1. UNCHANGED <<items, allowPublic, pc, k, i, end, ips, pos, seen, resolved, chunks, portMap, err>>
  BY DEF vars, target, expansion, portState
<1>2. Typing' /\ PositionInv' /\ CheckedInv' /\ PortInv'
  BY <1>1 DEF IInv, Typing, PositionInv, CheckedInv, PortInv, Item, Allowed, PortsOf
<1>3. LoopInv'
  BY <1>1 DEF IInv, LoopInv, Loop4Inv, Loop6Inv, Item, Expanded, Denotes, Entries, Low, High
<1>4. ResolvedInv' /\ CapInv'
  <2>1. Before(k)' = Before(k) /\ Before(Len(items) + 1)' = Before(Len(items) + 1)
    BY <1>1 DEF Before
  <2>2. ResolvedInv'
    <3>1. Entries(resolved)' = Entries(resolved)
      BY <1>1
    <3>2. {ips[n] : n \in 1 .. pos - 1}' = {ips[n] : n \in 1 .. pos - 1}
      BY <1>1
    <3>. QED BY <1>1, <2>1, <3>1, <3>2 DEF IInv, ResolvedInv, Accepting
  <2>3. Named(1, k)' = Named(1, k)
    BY <1>1 DEF Named
  <2>4. CapInv'
    BY <1>1, <2>3 DEF IInv, CapInv
  <2>. QED BY <2>2, <2>4
<1>. QED BY <1>2, <1>3, <1>4 DEF IInv

LEMMA NextStep == IInv /\ [Next]_vars => IInv'
<1> SUFFICES ASSUME IInv, [Next]_vars PROVE IInv'
  OBVIOUS
<1>1. CASE Resolve
  BY <1>1, StartStep, SkipBlankStep, RejectBadStep, TakeAddressStep, BeginBlock4Step,
     BeginMappedStep, Loop4Step, BeginBlock6Step, Loop6Step, ValidateStep, MergeStep,
     NextItemStep, ResolvedStep DEF Resolve
<1>2. CASE ReadPorts \/ ParseChunk \/ PortsParsed
  BY <1>2, ReadPortsStep, ParseChunkStep, PortsParsedStep
<1>3. CASE Stopped \/ UNCHANGED vars
  BY <1>3, IdleStep DEF Stopped
<1>. QED BY <1>1, <1>2, <1>3 DEF Next, Step
-----------------------------------------------------------------------------
(* The results. *)

\* Whatever --target and --ports say, the loops of ResolveTargets, expandCIDR
\* and ParsePorts keep the positions, blocks and counts of IInv.
THEOREM Invariance == Spec => []IInv
BY InitHolds, NextStep, PTL DEF Spec

\* Resolution keeps every variable in its type: addresses stay within their
\* width though the loops' arithmetic wraps, and only real ports are kept.
THEOREM TypeCorrect == Spec => []TypeOK
<1>1. IInv => TypeOK
  BY DEF IInv, Typing, TypeOK
<1>. QED BY <1>1, Invariance, PTL

\* What ResolveTargets hands to the scan is what the items name, each host
\* once; of an IPv4-mapped block it is part of it.
THEOREM ResolvedIsExact == Spec => []ResolvedExact
<1>1. IInv => ResolvedExact
  <2> SUFFICES ASSUME IInv, Accepted, items # << >>
               PROVE  /\ Entries(resolved) \subseteq Named(1, Len(items))
                      /\ Plain => Entries(resolved) = Named(1, Len(items))
                      /\ \A n, m \in DOMAIN resolved : resolved[n] = resolved[m] => n = m
    BY DEF ResolvedExact
  <2>1. Entries(resolved) = Before(Len(items) + 1)
    BY DEF IInv, ResolvedInv, Accepting, Accepted
  <2>2. Len(items) \in Nat /\ Len(items) <= Len(items)
    BY LenProperties DEF IInv, Typing
  <2>3. /\ Before(Len(items) + 1) \subseteq Named(1, Len(items))
        /\ Plain => Before(Len(items) + 1) = Named(1, Len(items))
    BY <2>2, BeforeNamed DEF IInv, Plain
  <2>. QED BY <2>1, <2>3 DEF IInv, ResolvedInv
<1>. QED BY <1>1, Invariance, PTL

\* The host cap: it is never exceeded, and no request within it is refused,
\* by any of the three places that compare against it.
THEOREM CapIsExact == Spec => []CapExact
<1>1. IInv => CapExact
  BY DEF IInv, CapInv, CapExact, Accepted
<1>. QED BY <1>1, Invariance, PTL

\* Without --i-understand-the-risk every host that will be dialled lies in the
\* ranges validateIPSecurity knows, and no other item is refused as public.
THEOREM PublicGuarded == Spec => []PublicGuard
<1>1. IInv => PublicGuard
  BY DEF IInv, CheckedInv, Allowed, PublicGuard, Accepted, Entries
<1>. QED BY <1>1, Invariance, PTL

\* ParsePorts returns the ports its chunks name, all of them and no others.
THEOREM PortsAreExact == Spec => []PortsExact
<1>1. IInv => PortsExact
  <2> SUFFICES ASSUME IInv, pc = "ready"
               PROVE  portMap = UNION {PortsOf(c) : c \in Entries(chunks)}
    BY DEF PortsExact, PortsOf
  <2>1. Len(chunks) \in Nat /\ DOMAIN chunks = 1 .. Len(chunks)
    BY LenProperties DEF IInv, Typing
  <2>2. portMap = UNION {PortsOf(chunks[n]) : n \in 1 .. Len(chunks)}
    <3>1. k - 1 = Len(chunks)
      BY <2>1 DEF IInv, PortInv
    <3>. QED BY <3>1 DEF IInv, PortInv
  <2>. QED BY <2>1, <2>2 DEF Entries
<1>. QED BY <1>1, Invariance, PTL
=============================================================================
