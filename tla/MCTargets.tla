------------------------------ MODULE MCTargets ------------------------------
(* TLC instance of Targets: 4-bit addresses, a cap of 4 hosts.  IPv4 0-5     *)
(* are loopback, 6-9 RFC1918, 15 link-local and 10-14 public; IPv6 0-3 are   *)
(* loopback, 4-7 RFC4193 and the upper half public.                          *)
EXTENDS Targets

MCLoopback  == ({4} \X (0 .. 5)) \cup ({6} \X (0 .. 3))
MCRfc1918   == {4} \X (6 .. 9)
MCRfc4193   == {6} \X (4 .. 7)
MCLinkLocal == {<<4, 15>>}
MCLocalhost == <<4, 1>>

It(kind, fam, addr, ones) ==
  [kind |-> kind, fam |-> fam, addr |-> addr, ones |-> ones]

\* Singles, blocks at, below and above the cap, blocks that straddle or reach
\* the end of the address space, the whole space, IPv6 and mapped blocks.
MCItems ==
  {It("blank", 4, 0, 0), It("bad", 4, 0, 0)}
  \cup {It("ip", 4, a, 0) : a \in {1, 5, 12, 15}}
  \cup {It("ip", 6, a, 0) : a \in {3, 9}}
  \cup {It("cidr", 4, a, n) : a \in {0, 6, 9, 13}, n \in {0, 1, 2, 3, 4}}
  \cup {It("cidr", 6, a, n) : a \in {2, 7, 15}, n \in {1, 2, 3}}
  \cup {It("mapped", 4, a, 3) : a \in {3, 5}}
  \cup {It("mapped", 4, 15, 4)}

MCTargetLists == {<< >>} \cup {<<a>> : a \in MCItems}
                 \cup {<<a, b>> : a \in MCItems, b \in MCItems}
                 \cup {<<It("mapped", 4, 3, 3), It("ip", 4, 15, 0), It("cidr", 4, 0, 0)>>}

MCChunks == {<< >>, <<1>>, <<0>>, <<4>>, <<5>>, <<NaN>>, <<2, 3>>, <<3, 2>>,
             <<0, 2>>, <<3, 5>>, <<1, 4>>, <<1, NaN>>, <<1, 2, 3>>}
MCChunkLists == {<< >>, <<<<2>>>>, << << >>, <<1>> >>, << << >>, << >> >>}
                \cup {<<c, d>> : c \in {<<1>>, <<2, 3>>}, d \in MCChunks}
=============================================================================
