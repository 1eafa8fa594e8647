------------------------------- MODULE Targets -------------------------------
(***************************************************************************)
(* How a scan turns --target and --ports into what it dials:               *)
(* ResolveTargets, expandTargetItem, expandCIDR, validateIPSecurity and    *)
(* ParsePorts of src/internal/scanner/scanner.go, loop by loop.            *)
(*                                                                         *)
(* A host is <<family, n>> with n below 2^W; an IPv4 n is a uint32 in the  *)
(* code, and arithmetic on it wraps.  An item of --target is a record with *)
(* a kind:                                                                 *)
(*   "blank"  nothing between two commas      "bad"     does not parse     *)
(*   "ip"     one address                     "cidr"    addr / ones        *)
(*   "mapped" an IPv4-mapped IPv6 block, ::ffff:a.b.c.d / (96 + ones)      *)
(***************************************************************************)
EXTENDS Integers, Sequences, FiniteSets

CONSTANTS W,           \* width of an address: 32 in the code
          MaxCap,      \* DefaultMaxHostCap, 1024
          CapBits,     \* 10, the IPv6 branch's own idea of the cap
          Memory,      \* hosts the process can hold before it is killed
          Localhost,   \* 127.0.0.1
          Loopback, Rfc1918, Rfc4193, LinkLocal,
                       \* the ranges IsLoopback, IsPrivate (two of them) and
                       \* IsLinkLocalUnicast/-Multicast of net.IP stand for
          MaxPort,     \* 65535
          TargetLists, \* the --target values explored: sequences of items
          ChunkLists   \* the --ports values explored: sequences of chunks

\* 2 ^ bits.
Pow[bits \in 0 .. W] == IF bits = 0 THEN 1 ELSE 2 * Pow[bits - 1]

Size == Pow[W]
Host == {4, 6} \X (0 .. Size - 1)
TargetItem == [kind : {"blank", "bad", "ip", "cidr", "mapped"}, fam : {4, 6},
               addr : 0 .. Size - 1, ones : 0 .. W]

ASSUME WidthAssumption == W \in Nat /\ MaxPort \in Nat
ASSUME CapAssumption == /\ CapBits \in 0 .. W - 1 /\ MaxCap = Pow[CapBits]
                        /\ Memory \in Nat /\ Memory > Size
ASSUME HostAssumption ==
  /\ Localhost \in Loopback
  /\ Loopback \cup Rfc1918 \cup Rfc4193 \cup LinkLocal \subseteq Host
ASSUME ListAssumption == /\ TargetLists \subseteq Seq(TargetItem)
                         /\ ChunkLists \subseteq Seq(Seq(Int))

VARIABLES
  items, allowPublic, \* the command line: --target, --i-understand-the-risk
  pc,
  k,                  \* index of the item (later, of the port chunk) in hand
  i, end,             \* loop counter and last address of a block
  ips,                \* hosts of the item in hand
  pos,                \* index into ips of the validation and merge loops
  seen, resolved,     \* the set and the slice of ResolveTargets
  chunks, portMap,    \* the --ports chunks, and the ports found in them
  err                 \* the error that ended the run, or "none"

target == <<items, allowPublic>>
expansion == <<i, end, ips, pos>>
portState == <<chunks, portMap>>
vars == <<target, pc, k, expansion, seen, resolved, portState, err>>

Uint(n) == n % Size

\* First and last address of the block around n.
Low(n, ones)  == n - (n % Pow[W - ones])
High(n, ones) == Low(n, ones) + Pow[W - ones] - 1

Init ==
  /\ items \in TargetLists /\ allowPublic \in BOOLEAN
  /\ pc = "start" /\ k = 1
  /\ i = 0 /\ end = 0 /\ ips = << >> /\ pos = 1
  /\ seen = {} /\ resolved = << >>
  /\ chunks = << >> /\ portMap = {}
  /\ err = "none"

Fail(why) == /\ pc' = "error" /\ err' = why
             /\ UNCHANGED <<target, k, expansion, seen, resolved, portState>>

-----------------------------------------------------------------------------
(* ResolveTargets *)

\* --local, or a blank --target (no items): the loopback address alone.
Start ==
  /\ pc = "start"
  /\ pc' = IF items = << >> THEN "ports" ELSE "item"
  /\ resolved' = IF items = << >> THEN <<Localhost>> ELSE << >>
  /\ UNCHANGED <<target, k, expansion, seen, portState, err>>

Item == items[k]
Taking(kind) == pc = "item" /\ k <= Len(items) /\ Item.kind = kind

SkipBlank ==
  /\ Taking("blank")
  /\ k' = k + 1
  /\ UNCHANGED <<target, pc, expansion, seen, resolved, portState, err>>

RejectBad == Taking("bad") /\ Fail("invalid")

\* net.ParseIP, whose one result goes through the same check as a block's.
TakeAddress ==
  /\ Taking("ip")
  /\ ips' = << <<Item.fam, Item.addr>> >>
  /\ pos' = 1
  /\ pc' = "validate"
  /\ UNCHANGED <<target, k, i, end, seen, resolved, portState, err>>

Block == [first |-> Low(Item.addr, Item.ones), last |-> High(Item.addr, Item.ones)]

\* expandCIDR, IPv4: the count is computed in uint32 before it is widened.
HostCount(first, last) == Uint(last - first + 1)

Begin4(first, last) ==
  IF HostCount(first, last) > MaxCap THEN Fail("range")
  ELSE /\ i' = first /\ end' = last
       /\ ips' = << >> /\ pos' = 1
       /\ pc' = "loop4"
       /\ UNCHANGED <<target, k, seen, resolved, portState, err>>

BeginBlock4 ==
  /\ Taking("cidr")
  /\ Item.fam = 4
  /\ Begin4(Block.first, Block.last)

\* An IPv4-mapped block: To4 succeeds, and the mask read is the first four
\* bytes of a 16-byte mask, all ones, so the block is its base address.
BeginMapped ==
  /\ Taking("mapped")
  /\ Begin4(Block.first, Block.first)

\* for i := start; i <= end; i++ over uint32.
Loop4 ==
  /\ pc = "loop4"
  /\ IF i > end
     THEN pc' = "validate" /\ UNCHANGED <<i, ips>>
     ELSE IF Len(ips) = Memory
     THEN pc' = "killed" /\ UNCHANGED <<i, ips>>
     ELSE /\ ips' = Append(ips, <<4, i>>)
          /\ i' = Uint(i + 1)
          /\ UNCHANGED pc
  /\ UNCHANGED <<target, k, end, pos, seen, resolved, portState, err>>

\* expandCIDR, IPv6: the cap is tested on the prefix length.
BeginBlock6 ==
  /\ Taking("cidr")
  /\ Item.fam = 6
  /\ IF W - Item.ones > CapBits THEN Fail("range")
     ELSE /\ i' = Block.first /\ end' = Block.last
          /\ ips' = << >> /\ pos' = 1
          /\ pc' = "loop6"
          /\ UNCHANGED <<target, k, seen, resolved, portState, err>>

\* while ipNet.Contains(ip), incrementIP, which wraps; and the cap again.
Loop6 ==
  /\ pc = "loop6"
  /\ IF i \notin Block.first .. Block.last
     THEN /\ pc' = "validate"
          /\ UNCHANGED <<target, k, expansion, seen, resolved, portState, err>>
     ELSE IF Len(ips) = MaxCap THEN Fail("range")
     ELSE /\ ips' = Append(ips, <<6, i>>)
          /\ i' = Uint(i + 1)
          /\ UNCHANGED <<target, pc, k, end, pos, seen, resolved, portState, err>>

\* isPrivateOrLoopbackIP.
Permitted == Loopback \cup Rfc1918 \cup Rfc4193 \cup LinkLocal

\* Bug: only the first address of a block is checked.
ValidateFirst ==
  /\ pc = "validate"
  /\ IF ~ allowPublic /\ ips[1] \notin Permitted THEN Fail("public")
     ELSE /\ pos' = 1 /\ pc' = "merge"
          /\ UNCHANGED <<target, k, i, end, ips, seen, resolved, portState, err>>

\* validateIPSecurity on every host of the item, before any is kept.
Validate ==
  /\ pc = "validate"
  /\ IF pos > Len(ips)
     THEN /\ pos' = 1 /\ pc' = "merge"
          /\ UNCHANGED <<target, k, i, end, ips, seen, resolved, portState, err>>
     ELSE IF ~ allowPublic /\ ips[pos] \notin Permitted THEN Fail("public")
     ELSE /\ pos' = pos + 1
          /\ UNCHANGED <<target, pc, k, i, end, ips, seen, resolved, portState, err>>

\* Bug: hosts named twice are kept twice.
MergeAgain ==
  /\ pc = "merge" /\ pos <= Len(ips)
  /\ seen' = seen \cup {ips[pos]}
  /\ resolved' = Append(resolved, ips[pos])
  /\ pos' = pos + 1
  /\ UNCHANGED <<target, pc, k, i, end, ips, portState, err>>

Merge ==
  /\ pc = "merge" /\ pos <= Len(ips)
  /\ seen' = seen \cup {ips[pos]}
  /\ resolved' = IF ips[pos] \in seen THEN resolved
                 ELSE Append(resolved, ips[pos])
  /\ pos' = pos + 1
  /\ UNCHANGED <<target, pc, k, i, end, ips, portState, err>>

\* Bug: the limit is compared with >= instead of >.
OverCapStrict(n) == n >= MaxCap

OverCap(n) == n > MaxCap

\* Bug: the loop over the items does not move on.
NextItemStuck ==
  /\ pc = "merge" /\ pos > Len(ips)
  /\ IF OverCap(Len(resolved)) THEN Fail("range")
     ELSE /\ pc' = "item"
          /\ UNCHANGED <<target, k, expansion, seen, resolved, portState, err>>

\* The cumulative cap, after each item.
NextItem ==
  /\ pc = "merge" /\ pos > Len(ips)
  /\ IF OverCap(Len(resolved)) THEN Fail("range")
     ELSE /\ k' = k + 1 /\ pc' = "item"
          /\ UNCHANGED <<target, expansion, seen, resolved, portState, err>>

Resolved ==
  /\ pc = "item" /\ k > Len(items)
  /\ IF resolved = << >> THEN Fail("invalid")
     ELSE /\ pc' = "ports"
          /\ UNCHANGED <<target, k, expansion, seen, resolved, portState, err>>
-----------------------------------------------------------------------------
(* ParsePorts.  A chunk is the sequence of its dash-separated numbers; NaN  *)
(* stands for a part strconv.Atoi refuses, << >> for a blank chunk.         *)

NaN == -1

ReadPorts ==
  /\ pc = "ports"
  /\ chunks' \in ChunkLists
  /\ k' = 1
  /\ IF chunks' = << >> THEN pc' = "error" /\ err' = "ports"
     ELSE pc' = "chunk" /\ UNCHANGED err
  /\ UNCHANGED <<target, expansion, seen, resolved, portMap>>

\* Bug: only the start of a range is checked.
GoodRangeOpen(c) == /\ Len(c) = 2 /\ NaN \notin {c[1], c[2]}
                    /\ c[1] >= 1 /\ c[1] <= c[2]

GoodRange(c) == /\ Len(c) = 2 /\ NaN \notin {c[1], c[2]}
                /\ c[1] >= 1 /\ c[2] <= MaxPort /\ c[1] <= c[2]
GoodPort(c)  == Len(c) = 1 /\ c[1] # NaN /\ c[1] >= 1 /\ c[1] <= MaxPort

\* Bug: for p := start; p < end; p++.
RangePortsShort(c) == c[1] .. c[2] - 1

RangePorts(c) == c[1] .. c[2]

ParseChunk ==
  /\ pc = "chunk" /\ k <= Len(chunks)
  /\ LET c == chunks[k]
     IN IF c = << >> \/ GoodPort(c) \/ GoodRange(c)
        THEN /\ portMap' = portMap \cup
                  (IF c = << >> THEN {}
                   ELSE IF Len(c) = 1 THEN {c[1]} ELSE RangePorts(c))
             /\ k' = k + 1
             /\ UNCHANGED <<target, pc, expansion, seen, resolved, chunks, err>>
        ELSE Fail("ports")

\* The sorted slice of portMap's keys is handed to ScanPorts with resolved.
PortsParsed ==
  /\ pc = "chunk" /\ k > Len(chunks)
  /\ IF portMap = {} THEN Fail("ports")
     ELSE /\ pc' = "ready"
          /\ UNCHANGED <<target, k, expansion, seen, resolved, portState, err>>
-----------------------------------------------------------------------------
Resolve == \/ Start \/ SkipBlank \/ RejectBad \/ TakeAddress \/ BeginBlock4
           \/ BeginMapped \/ Loop4 \/ BeginBlock6 \/ Loop6 \/ Validate
           \/ Merge \/ NextItem \/ Resolved

Step == Resolve \/ ReadPorts \/ ParseChunk \/ PortsParsed

Stopped == pc \in {"ready", "error", "killed"} /\ UNCHANGED vars

Next == Step \/ Stopped

Spec == Init /\ [][Next]_vars
FairSpec == Spec /\ WF_vars(Step)
-----------------------------------------------------------------------------
(* Properties. *)

\* Type correctness of target and port resolution (scanner.go:47-242).
TypeOK ==
  /\ pc \in {"start", "item", "loop4", "loop6", "validate", "merge", "ports",
             "chunk", "ready", "error", "killed"}
  /\ k \in Nat \ {0} /\ pos \in Nat \ {0}
  /\ i \in 0 .. Size - 1 /\ end \in 0 .. Size - 1
  /\ ips \in Seq(Host) /\ resolved \in Seq(Host) /\ seen \in SUBSET Host
  /\ portMap \in SUBSET (1 .. MaxPort)
  /\ err \in {"none", "invalid", "range", "public", "ports"}

Entries(s) == {s[n] : n \in DOMAIN s}

\* The hosts an item of --target names.
Denotes(it) ==
  CASE it.kind = "ip" -> {<<it.fam, it.addr>>}
    [] it.kind = "cidr" ->
         {it.fam} \X (Low(it.addr, it.ones) .. High(it.addr, it.ones))
    [] it.kind = "mapped" ->
         {4} \X (Low(it.addr, it.ones) .. High(it.addr, it.ones))
    [] OTHER -> {}

Named(first, last) == UNION {Denotes(items[n]) : n \in first .. last}
Plain == \A n \in DOMAIN items : items[n].kind # "mapped"
Accepted == pc \in {"ports", "chunk", "ready"}

\* What is scanned is exactly what was asked for, each host once, whatever
\* the overlaps between items (scanner.go:56-72, 151-155).
ResolvedExact ==
  Accepted /\ items # << >> =>
    /\ Entries(resolved) \subseteq Named(1, Len(items))
    /\ Plain => Entries(resolved) = Named(1, Len(items))
    /\ \A n, m \in DOMAIN resolved : resolved[n] = resolved[m] => n = m

\* No more than the cap is ever scanned, and a request within the cap is never
\* turned away for its size (scanner.go:74, 128, 146).
CapExact ==
  /\ Accepted => Len(resolved) <= MaxCap
  /\ err = "range" => Cardinality(Named(1, k)) > MaxCap

\* Without the override no host outside the ranges that the comment of
\* isPrivateOrLoopbackIP lists is scanned, wherever in a block or among the
\* items it stands; and a command is refused as public only for an item that
\* names such a host (scanner.go:95-116, 171-189).  The README's narrower list
\* of ranges is OnlyPrivateOrLoopback.
PublicGuard ==
  /\ Accepted /\ ~ allowPublic => Entries(resolved) \subseteq Permitted
  /\ err = "public" => /\ ~ allowPublic
                       /\ ~ Denotes(items[k]) \subseteq Permitted

\* The ports scanned are those the chunks name, none of them outside the port
\* range, and one bad chunk refuses them all (scanner.go:192-242).
PortsExact ==
  pc = "ready" =>
    portMap = UNION {IF Len(c) = 0 THEN {} ELSE c[1] .. c[Len(c)] : c \in Entries(chunks)}

\* The IPv4 blocks whose last address is the largest uint32.
ReachesTop(it) ==
  \/ it.kind = "cidr" /\ it.fam = 4 /\ High(it.addr, it.ones) = Size - 1
  \/ it.kind = "mapped" /\ Low(it.addr, it.ones) = Size - 1

\* Resolution ends, unless an IPv4 block reaches the top of the address space.
EndsBelowTop ==
  (\A n \in DOMAIN items : ~ ReachesTop(items[n])) => <>(pc \in {"ready", "error"})

\* scanner.go:46: "ResolveTargets expands CIDRs/IPs into a bounded slice".
BoundedExpansion == Len(ips) <= MaxCap

\* scanner.go:122: "expandCIDR calculates all host IPs within an IPNet block":
\* those of the items left behind.
AllHostsOfBlocks ==
  pc \in {"item", "loop4", "loop6"} => Named(1, k - 1) \subseteq Entries(resolved)

\* README.md:24: "Restricts scanning to loopback (127.0.0.0/8) and private
\* RFC1918 networks", unless the override flag is given.
OnlyPrivateOrLoopback ==
  ~ allowPublic => Entries(resolved) \subseteq Loopback \cup Rfc1918

\* The three promises are broken together, by one command: not even one of
\* them outlives every run (scanner.go:141, 145, 188).
AnyExpansionPromise == BoundedExpansion \/ AllHostsOfBlocks \/ OnlyPrivateOrLoopback
=============================================================================
