---------------------------- MODULE StoreProofs ----------------------------
(***************************************************************************)
(* Machine-checked proofs about Store, for any number of scans and reports *)
(* of one database file, any findings and any crash: the properties TLC    *)
(* checks on MCStore, and that Store implements History.                   *)
(***************************************************************************)
EXTENDS Store, CountingFacts, SequenceTheorems, TLAPS

-----------------------------------------------------------------------------
(* The inductive invariant. *)

ServerRow == [scan : Nat, ep : Endpoint,
              name : {o.http[e].name : o \in Observation, e \in Endpoint},
              hash : {o.http[e].hash : o \in Observation, e \in Endpoint}]
ConfigRow == [scan : Nat, cfg : Config,
              hash : {o.stdio[c] : o \in Observation, c \in Config}]

Saving   == {"servers", "commit"}
SavingStdio == {"stdio", "stdioInsert", "stdioCommit"}
ScannerPC == {"probing", "schema", "save"} \cup Saving \cup SavingStdio \cup Final
ReporterPC == {"report", "query", "rows", "reportStdio", "stdioRows"} \cup Final

NoStatus == [e \in Endpoint |-> Absent]

Typing ==
  /\ pc \in [Process -> ScannerPC \cup ReporterPC]
  /\ \A s \in Scanner : pc[s] \in ScannerPC
  /\ \A r \in Reporter : pc[r] \in ReporterPC
  /\ obs \in [Process -> Observation \cup {Nothing}]
  /\ id \in [Process -> Nat]
  /\ todo \in [Process -> SUBSET (Endpoint \cup Config \cup Nat)]
  /\ tx \in [Process -> Seq(ServerRow \cup ConfigRow)]
  /\ status \in [Process -> [Endpoint -> Verdict]]
  /\ stdioStatus \in [Process -> [Config -> Verdict]]
  /\ schema \in 0 .. Tables
  /\ scans \in Seq(Scanner)
  /\ http \in Seq(ServerRow)
  /\ stdio \in Seq(ConfigRow)

\* The lock is held by a scanner inside a transaction, PENDING while it
\* commits; a read lock is open where a result set or transaction is.
LockInv ==
  /\ lock \in Scanner \cup {NoOne}
  /\ lock # NoOne => pc[lock] \in Saving \cup SavingStdio
  /\ pending <=> lock # NoOne /\ pc[lock] \in {"commit", "stdioCommit"}
  /\ readers \subseteq Process
  /\ \A x \in readers : pc[x] \in SavingStdio \cup {"rows", "stdioRows"}

\* What is in the file: scans whole and in order, each by a scanner that has
\* got past its commit and keeps the verdicts its scan justified.
FileInv ==
  /\ SavedWhole
  /\ HistoryInOrder
  /\ \A n \in DOMAIN scans :
       LET s == scans[n]
       IN /\ pc[s] \in SavingStdio \cup Final
          /\ obs[s] \in Observation
          /\ \A e \in Endpoint :
               status[s][e] = IF e \in Found(obs[s])
                              THEN HttpVerdict(http, obs[s].http[e], e, n)
                              ELSE Absent

\* A scanner in its first transaction: the part of its findings that is no
\* longer to do is in its rows, each with the verdict the file justifies.
SavingInv(s) ==
  LET done == Found(obs[s]) \ todo[s]
  IN /\ lock = s
     /\ obs[s] \in Observation
     /\ id[s] = Len(scans) + 1
     /\ todo[s] \subseteq Found(obs[s])
     /\ tx[s] \in Seq(ServerRow)
     /\ \A m \in DOMAIN tx[s] : tx[s][m].scan = id[s]
     /\ ServerRows(tx[s], DOMAIN tx[s], obs[s], done)
     /\ \A e \in Endpoint :
          status[s][e] = IF e \in done
                         THEN HttpVerdict(http, obs[s].http[e], e, id[s])
                         ELSE Absent

\* And in its second: its scan is saved and has no stdio rows yet.
SavingStdioInv(s) ==
  LET done == Configs(obs[s]) \ todo[s]
  IN /\ s \in Range(scans)
     /\ todo[s] \subseteq Configs(obs[s])
     /\ Configs(obs[s]) # {}
     /\ done # {} => lock = s
     /\ tx[s] \in Seq(ConfigRow)
     /\ \A m \in DOMAIN tx[s] : tx[s][m].scan = id[s]
     /\ ConfigRows(tx[s], DOMAIN tx[s], obs[s], done)
     /\ RowsOf(stdio, id[s]) = {}
     /\ pc[s] = "stdioCommit" => todo[s] = {}

ScannerInv(s) ==
  /\ todo[s] \subseteq Endpoint \cup Config
  /\ pc[s] \in {"probing", "schema", "save"} => s \notin Range(scans) /\ status[s] = NoStatus
  /\ pc[s] \in {"schema", "save"} => obs[s] \in Observation
  /\ pc[s] \in Saving => SavingInv(s) /\ s \notin Range(scans)
  /\ pc[s] = "commit" => todo[s] = {}
  /\ pc[s] \in SavingStdio => SavingStdioInv(s)
  /\ pc[s] = "done" => SavedScan(s)

\* A report shows the rows it has read, and no alarm its scan did not raise.
ReporterInv(r) ==
  LET s == scans[id[r]]
      Shown == {e \in Endpoint : status[r][e] # Absent}
      StdioShown == {c \in Config : stdioStatus[r][c] # Absent}
      read(rows) == RowsOf(rows, id[r]) \ todo[r]
  IN /\ todo[r] # {} => pc[r] \in {"rows", "stdioRows"}
     /\ pc[r] = "rows" => todo[r] \subseteq RowsOf(http, id[r])
     /\ pc[r] = "stdioRows" => todo[r] \subseteq RowsOf(stdio, id[r])
     /\ pc[r] \in {"rows", "stdioRows"} => r \in readers
     /\ pc[r] \notin {"report", "failed"} =>
          /\ id[r] \in DOMAIN scans
          /\ \A e \in Endpoint : status[r][e] \in {Absent, "new", status[s][e]}
     /\ pc[r] \in {"report", "query"} => Shown = {}
     /\ pc[r] \in {"report", "query", "rows", "reportStdio"} => StdioShown = {}
     /\ pc[r] = "rows" => Shown = {http[m].ep : m \in read(http)}
     /\ pc[r] \in {"reportStdio", "stdioRows", "done"} => Shown = Found(obs[s])
     /\ pc[r] = "stdioRows" => StdioShown = {stdio[m].cfg : m \in read(stdio)}
     /\ pc[r] = "done" => StdioShown \in {{}, Configs(obs[s])}

IInv == /\ Typing /\ SchemaWhole /\ LockInv /\ FileInv
        /\ \A s \in Scanner : ScannerInv(s)
        /\ \A r \in Reporter : ReporterInv(r)
-----------------------------------------------------------------------------
(* Sequences of rows. *)

LEMMA Joined ==
  ASSUME NEW S, NEW a \in Seq(S), NEW b \in Seq(S)
  PROVE  /\ a \o b \in Seq(S)
         /\ \A n \in DOMAIN a : n \in DOMAIN (a \o b) /\ (a \o b)[n] = a[n]
         /\ \A n \in DOMAIN b : /\ Len(a) + n \in DOMAIN (a \o b)
                                /\ (a \o b)[Len(a) + n] = b[n]
         /\ \A n \in DOMAIN (a \o b) \ DOMAIN a :
              /\ n - Len(a) \in DOMAIN b
              /\ (a \o b)[n] = b[n - Len(a)]
              /\ \A k \in DOMAIN a : k < n
         /\ Len(a) \in Nat /\ DOMAIN a = 1 .. Len(a)
<1>1. /\ Len(a) \in Nat /\ DOMAIN a = 1 .. Len(a)
      /\ Len(b) \in Nat /\ DOMAIN b = 1 .. Len(b)
  BY LenProperties
<1>2. /\ a \o b \in Seq(S) /\ Len(a \o b) = Len(a) + Len(b)
      /\ \A i \in 1 .. Len(a) + Len(b) :
           (a \o b)[i] = IF i <= Len(a) THEN a[i] ELSE b[i - Len(a)]
  BY ConcatProperties
<1>3. DOMAIN (a \o b) = 1 .. Len(a) + Len(b)
  BY <1>2, LenProperties
<1> HIDE DEF Joined
<1>. QED BY <1>1, <1>2, <1>3

LEMMA RowsKept ==
  ASSUME NEW S, NEW rows \in Seq(S), NEW more \in Seq(S), NEW k \in Nat,
         \A m \in DOMAIN more : more[m].scan = k,
         NEW n \in Nat, n # k
  PROVE  RowsOf(rows \o more, n) = RowsOf(rows, n)
BY Joined DEF RowsOf

LEMMA RowsNew ==
  ASSUME NEW S, NEW rows \in Seq(S), NEW more \in Seq(S), NEW k,
         \A m \in DOMAIN more : more[m].scan = k, RowsOf(rows, k) = {}
  PROVE  /\ \A n \in RowsOf(rows \o more, k) :
              n - Len(rows) \in DOMAIN more /\ (rows \o more)[n] = more[n - Len(rows)]
         /\ \A m \in DOMAIN more :
              /\ Len(rows) + m \in RowsOf(rows \o more, k)
              /\ (rows \o more)[Len(rows) + m] = more[m]
BY Joined DEF RowsOf

LEMMA ServersJoined ==
  ASSUME NEW S, NEW rows \in Seq(S), NEW more \in Seq(S), NEW k,
         \A m \in DOMAIN more : more[m].scan = k, RowsOf(rows, k) = {},
         NEW o, NEW eps, ServerRows(more, DOMAIN more, o, eps)
  PROVE  ServerRows(rows \o more, RowsOf(rows \o more, k), o, eps)
<1> DEFINE all == rows \o more
           ns == RowsOf(all, k)
<1>1. Len(rows) \in Nat /\ DOMAIN all \subseteq Nat /\ DOMAIN more \subseteq Nat
  BY LenProperties, ConcatProperties
<1>2. \A n \in ns : n \in Nat /\ n - Len(rows) \in DOMAIN more /\ all[n] = more[n - Len(rows)]
  BY <1>1, RowsNew DEF RowsOf
<1>3. \A m \in DOMAIN more : Len(rows) + m \in ns /\ all[Len(rows) + m] = more[m]
  BY Joined DEF RowsOf
<1> HIDE DEF all, ns
<1>4. \A n \in ns : LET e == all[n].ep
                    IN /\ e \in eps
                       /\ all[n].name = o.http[e].name /\ all[n].hash = o.http[e].hash
  BY <1>2 DEF ServerRows
<1>5. \A e \in eps : \E n \in ns : all[n].ep = e
  BY <1>3 DEF ServerRows
<1>6. \A n, m \in ns : all[n].ep = all[m].ep => n = m
  <2> SUFFICES ASSUME NEW n \in ns, NEW m \in ns, all[n].ep = all[m].ep PROVE n = m
    OBVIOUS
  <2>1. n - Len(rows) = m - Len(rows)
    BY <1>2 DEF ServerRows
  <2>. QED BY <2>1, <1>1, <1>2
<1>. QED BY <1>4, <1>5, <1>6 DEF ServerRows, ns, all

LEMMA ConfigsJoined ==
  ASSUME NEW S, NEW rows \in Seq(S), NEW more \in Seq(S), NEW k,
         \A m \in DOMAIN more : more[m].scan = k, RowsOf(rows, k) = {},
         NEW o, NEW configs, ConfigRows(more, DOMAIN more, o, configs)
  PROVE  ConfigRows(rows \o more, RowsOf(rows \o more, k), o, configs)
<1> DEFINE all == rows \o more
           ns == RowsOf(all, k)
<1>1. Len(rows) \in Nat /\ DOMAIN all \subseteq Nat /\ DOMAIN more \subseteq Nat
  BY LenProperties, ConcatProperties
<1>2. \A n \in ns : n \in Nat /\ n - Len(rows) \in DOMAIN more /\ all[n] = more[n - Len(rows)]
  BY <1>1, RowsNew DEF RowsOf
<1>3. \A m \in DOMAIN more : Len(rows) + m \in ns /\ all[Len(rows) + m] = more[m]
  BY Joined DEF RowsOf
<1> HIDE DEF all, ns
<1>4. \A n \in ns : all[n].cfg \in configs /\ all[n].hash = o.stdio[all[n].cfg]
  BY <1>2 DEF ConfigRows
<1>5. \A c \in configs : \E n \in ns : all[n].cfg = c
  BY <1>3 DEF ConfigRows
<1>6. \A n, m \in ns : all[n].cfg = all[m].cfg => n = m
  <2> SUFFICES ASSUME NEW n \in ns, NEW m \in ns, all[n].cfg = all[m].cfg PROVE n = m
    OBVIOUS
  <2>1. n - Len(rows) = m - Len(rows)
    BY <1>2 DEF ConfigRows
  <2>. QED BY <2>1, <1>1, <1>2
<1>. QED BY <1>4, <1>5, <1>6 DEF ConfigRows, ns, all

LEMMA LatestExists ==
  ASSUME NEW S, NEW rows \in Seq(S), NEW ns \in SUBSET DOMAIN rows, ns # {}
  PROVE  Latest(ns) \in ns /\ \A m \in ns : m <= Latest(ns)
<1>1. \E n \in ns : \A m \in ns : m <= n
  BY LenProperties, Greatest
<1>. QED BY <1>1 DEF Latest

LEMMA SameConfigRows ==
  ASSUME NEW rows, NEW more, NEW ns, \A k \in ns : more[k] = rows[k],
         NEW o, NEW configs, ConfigRows(rows, ns, o, configs)
  PROVE  ConfigRows(more, ns, o, configs)
BY DEF ConfigRows

\* Rows of this scan and of later ones do not change a verdict.
LEMMA VerdictKept ==
  ASSUME NEW S, NEW rows \in Seq(S), NEW more \in Seq(S), NEW k \in Nat,
         \A m \in DOMAIN more : more[m].scan = k,
         NEW n \in Nat, n <= k, NEW row, NEW e
  PROVE  HttpVerdict(rows \o more, row, e, n) = HttpVerdict(rows, row, e, n)
<1> DEFINE all == rows \o more
           Past(rs) == {m \in Earlier(rs, n) : rs[m].ep = e /\ rs[m].hash # Empty}
<1>1. Earlier(all, n) = Earlier(rows, n) /\ \A m \in Earlier(rows, n) : all[m] = rows[m]
  BY Joined DEF Earlier
<1>2. Past(all) = Past(rows) /\ Past(rows) \in SUBSET DOMAIN rows
  BY <1>1 DEF Earlier
<1>3. Past(rows) # {} => Latest(Past(rows)) \in Past(rows)
  BY <1>2, LatestExists
<1>4. Past(rows) # {} => all[Latest(Past(rows))] = rows[Latest(Past(rows))]
  BY <1>1, <1>3
<1>5. CASE Past(rows) = {}
  BY <1>2, <1>5 DEF HttpVerdict
<1>6. CASE Past(rows) # {}
  BY <1>2, <1>4, <1>6 DEF HttpVerdict
<1>. QED BY <1>5, <1>6
-----------------------------------------------------------------------------
(* The query against the history: the latest row before the current scan   *)
(* is that of the latest scan that saw tool definitions.                   *)

LEMMA SavedRows ==
  ASSUME Typing, SavedWhole, HistoryInOrder
  PROVE  /\ Len(scans) \in Nat /\ DOMAIN scans = 1 .. Len(scans)
         /\ \A m \in DOMAIN http :
              LET o == obs[scans[http[m].scan]]
              IN /\ m \in Nat
                 /\ http[m].scan \in DOMAIN scans
                 /\ http[m].ep \in Found(o)
                 /\ http[m].name = o.http[http[m].ep].name
                 /\ http[m].hash = o.http[http[m].ep].hash
         /\ \A n \in DOMAIN scans : \A e \in Found(obs[scans[n]]) :
              \E m \in DOMAIN http : http[m].scan = n /\ http[m].ep = e
<1>1. /\ Len(scans) \in Nat /\ DOMAIN scans = 1 .. Len(scans)
      /\ DOMAIN http \subseteq Nat
  BY LenProperties DEF Typing
<1>2. ASSUME NEW m \in DOMAIN http
      PROVE  LET o == obs[scans[http[m].scan]]
             IN /\ http[m].scan \in DOMAIN scans
                /\ http[m].ep \in Found(o)
                /\ http[m].name = o.http[http[m].ep].name
                /\ http[m].hash = o.http[http[m].ep].hash
  <2>1. http[m].scan \in DOMAIN scans
    BY DEF HistoryInOrder
  <2>2. m \in RowsOf(http, http[m].scan)
    BY DEF RowsOf
  <2>. QED BY <2>1, <2>2 DEF SavedWhole, ServerRows
<1>3. ASSUME NEW n \in DOMAIN scans, NEW e \in Found(obs[scans[n]])
      PROVE  \E m \in DOMAIN http : http[m].scan = n /\ http[m].ep = e
  <2>1. \A d \in Found(obs[scans[n]]) : \E m \in RowsOf(http, n) : http[m].ep = d
    BY DEF SavedWhole, ServerRows
  <2>. QED BY <2>1 DEF RowsOf
<1>. QED BY <1>1, <1>2, <1>3

LEMMA LogVerdict ==
  ASSUME Typing, SavedWhole, HistoryInOrder, NEW e \in Endpoint, NEW row
  PROVE  HttpVerdict(http, row, e, Len(scans) + 1) = Saved!Verdict(SavedLog, e, row)
<1> DEFINE seen(n) == obs[scans[n]].http[e]
           P == {m \in Earlier(http, Len(scans) + 1) :
                   http[m].ep = e /\ http[m].hash # Empty}
           Q == Saved!Observed(SavedLog, e)
           p == Latest(P)
           q == CHOOSE n \in Q : \A m \in Q : m <= n
<1>1. Q = {n \in DOMAIN scans : seen(n) # Absent /\ seen(n).hash # Empty}
  BY DEF Saved!Observed, SavedLog
<1>2. P = {m \in DOMAIN http : http[m].ep = e /\ http[m].hash # Empty}
  BY SavedRows DEF Earlier
<1>3. \A m \in P : /\ http[m].scan \in Q
                   /\ http[m].name = seen(http[m].scan).name
                   /\ http[m].hash = seen(http[m].scan).hash
  BY <1>1, <1>2, SavedRows DEF Found
<1>4. ASSUME NEW n \in Q PROVE \E m \in P : http[m].scan = n
  <2>1. n \in DOMAIN scans /\ e \in Found(obs[scans[n]])
    BY <1>1 DEF Found
  <2>2. PICK m \in DOMAIN http : http[m].scan = n /\ http[m].ep = e
    BY <2>1, SavedRows
  <2>3. http[m].hash = seen(n).hash
    BY <2>2, SavedRows
  <2>. QED BY <2>2, <2>3, <1>1, <1>2
<1>5. P = {} <=> Q = {}
  BY <1>3, <1>4
<1>6. ASSUME P # {}
      PROVE  /\ http[p].name = seen(q).name /\ http[p].hash = seen(q).hash
             /\ q \in DOMAIN scans
  <2>1. p \in P /\ \A m \in P : m <= p
    BY <1>6, <1>2, LatestExists DEF Typing
  <2>2. q \in Q /\ \A n \in Q : n <= q
    <3>1. Q \in SUBSET (1 .. Len(scans)) /\ Len(scans) \in Nat
      BY <1>1, SavedRows
    <3>2. \E n \in Q : \A m \in Q : m <= n
      BY <3>1, <1>5, <1>6, Greatest
    <3>. QED BY <3>2
  <2> HIDE DEF P, Q, p, q
  <2>3. PICK m \in P : http[m].scan = q
    BY <2>2, <1>4
  <2>4. http[m].scan <= http[p].scan
    <3>1. m <= p /\ m \in DOMAIN http /\ p \in DOMAIN http
      BY <2>1, <2>3, <1>2
    <3>2. m \in Nat /\ p \in Nat /\ http[m].scan \in Nat
      BY <3>1, SavedRows
    <3>. QED BY <3>1, <3>2 DEF HistoryInOrder
  <2>5. http[p].scan <= q
    BY <2>1, <2>2, <1>3
  <2>6. q \in Nat /\ http[p].scan \in Nat
    BY <2>1, <2>2, <1>1, <1>3, SavedRows
  <2>7. http[p].scan = q
    BY <2>3, <2>4, <2>5, <2>6
  <2>. QED BY <2>7, <2>1, <2>2, <1>1, <1>3
<1>7. q \in DOMAIN scans => SavedLog[q].seen[e] = seen(q)
  BY DEF SavedLog
<1> HIDE DEF seen
<1>8. CASE P = {}
  BY <1>8, <1>5 DEF HttpVerdict, Saved!Verdict
<1>9. CASE P # {}
  BY <1>9, <1>5, <1>6, <1>7 DEF HttpVerdict, Saved!Verdict
<1>. QED BY <1>8, <1>9
-----------------------------------------------------------------------------
(* What a step of another process leaves alone. *)

Same(x) == /\ pc'[x] = pc[x] /\ obs'[x] = obs[x] /\ id'[x] = id[x]
           /\ todo'[x] = todo[x] /\ tx'[x] = tx[x]
           /\ status'[x] = status[x] /\ stdioStatus'[x] = stdioStatus[x]

\* A step of x changes the memory of no other process.
StepOf(x) == \A y \in Process \ {x} : Same(y)

SameRows == scans' = scans /\ http' = http /\ stdio' = stdio

\* What the savers of scans have found and printed stays as it is.
Kept == \A n \in DOMAIN scans :
          /\ n \in DOMAIN scans' /\ scans'[n] = scans[n]
          /\ obs'[scans[n]] = obs[scans[n]] /\ status'[scans[n]] = status[scans[n]]

LEMMA ProcessFacts ==
  /\ \A s \in Scanner : s \in Process /\ s # NoOne
  /\ \A r \in Reporter : r \in Process /\ r \notin Scanner /\ r # NoOne
  BY ProcessAssumption DEF Process

LEMMA ScannerFrame ==
  ASSUME NEW s \in Scanner, ScannerInv(s), Same(s), SameRows,
         lock = s => lock' = s
  PROVE  ScannerInv(s)'
<1>1. SavingInv(s) => SavingInv(s)'
  BY DEF SavingInv, Same, SameRows
<1>2. SavingStdioInv(s) => SavingStdioInv(s)'
  BY DEF SavingStdioInv, Same, SameRows
<1>. QED BY <1>1, <1>2 DEF ScannerInv, Same, SameRows, SavedScan

LEMMA ReporterFrame ==
  ASSUME NEW r \in Reporter, ReporterInv(r), Same(r), Kept,
         r \in readers => r \in readers' /\ http' = http /\ stdio' = stdio
  PROVE  ReporterInv(r)'
<1>1. pc[r] \notin {"report", "failed"} =>
        /\ id[r] \in DOMAIN scans /\ scans'[id[r]] = scans[id[r]]
        /\ obs'[scans[id[r]]] = obs[scans[id[r]]]
        /\ status'[scans[id[r]]] = status[scans[id[r]]]
        /\ id'[r] \in DOMAIN scans'
  BY DEF ReporterInv, Kept, Same
<1>. QED BY <1>1 DEF ReporterInv, Same

LEMMA FileFrame ==
  ASSUME FileInv, SameRows, Kept,
         \A n \in DOMAIN scans : /\ id'[scans[n]] = id[scans[n]]
                                 /\ pc'[scans[n]] \in SavingStdio \cup Final
  PROVE  FileInv'
<1>1. SavedWhole'
  BY DEF SavedWhole, FileInv, SameRows, Kept
<1>2. HistoryInOrder'
  BY DEF HistoryInOrder, FileInv, SameRows
<1>3. (\A n \in DOMAIN scans :
         LET s == scans[n]
         IN /\ pc[s] \in SavingStdio \cup Final
            /\ obs[s] \in Observation
            /\ \A e \in Endpoint :
                 status[s][e] = IF e \in Found(obs[s])
                                THEN HttpVerdict(http, obs[s].http[e], e, n)
                                ELSE Absent)'
  BY DEF FileInv, SameRows, Kept
<1>. QED BY <1>1, <1>2, <1>3 DEF FileInv

\* A step of scanner s that leaves the rows of the file alone.
LEMMA ScannerStep ==
  ASSUME IInv, NEW s \in Scanner, StepOf(s), SameRows,
         Typing', SchemaWhole', LockInv', ScannerInv(s)',
         \A y \in Process \ {s} : /\ lock = y => lock' = y
                                  /\ y \in readers => y \in readers',
         s \in Range(scans) => /\ id'[s] = id[s] /\ obs'[s] = obs[s]
                               /\ status'[s] = status[s]
                               /\ pc'[s] \in SavingStdio \cup Final
  PROVE  IInv'
<1>1. \A n \in DOMAIN scans : scans[n] \in Process /\ scans[n] \in Range(scans)
  BY ProcessFacts DEF IInv, Typing, Range
<1>2. \A n \in DOMAIN scans : scans[n] # s => Same(scans[n])
  BY <1>1 DEF StepOf
<1>3. Kept
  BY <1>1, <1>2 DEF Kept, Same, SameRows
<1>4. \A n \in DOMAIN scans : /\ id'[scans[n]] = id[scans[n]]
                              /\ pc'[scans[n]] \in SavingStdio \cup Final
  BY <1>1, <1>2 DEF Same, IInv, FileInv
<1>5. FileInv'
  BY <1>3, <1>4, FileFrame DEF IInv
<1>6. ASSUME NEW y \in Scanner PROVE ScannerInv(y)'
  <2>1. CASE y = s
    BY <2>1
  <2>2. CASE y # s
    <3>1. y \in Process \ {s} /\ Same(y)
      BY <2>2, ProcessFacts DEF StepOf
    <3>. QED BY <3>1, ScannerFrame DEF IInv
  <2>. QED BY <2>1, <2>2
<1>7. ASSUME NEW r \in Reporter PROVE ReporterInv(r)'
  <2>1. r \in Process \ {s} /\ Same(r)
    BY ProcessFacts DEF StepOf
  <2>. QED BY <2>1, <1>3, ReporterFrame DEF IInv, SameRows
<1>. QED BY <1>5, <1>6, <1>7 DEF IInv

\* A step of report r, which writes nothing.
LEMMA ReporterStep ==
  ASSUME IInv, NEW r \in Reporter, StepOf(r), UNCHANGED file, UNCHANGED lock,
         Typing', LockInv', ReporterInv(r)',
         \A y \in Process \ {r} : y \in readers => y \in readers'
  PROVE  IInv'
<1>1. SameRows /\ schema' = schema
  BY DEF SameRows, file
<1>2. \A s \in Scanner : s \in Process \ {r} /\ Same(s)
  BY ProcessFacts DEF StepOf
<1>3. \A n \in DOMAIN scans : scans[n] \in Scanner
  BY DEF IInv, Typing
<1>4. Kept
  BY <1>1, <1>2, <1>3 DEF Kept, Same, SameRows
<1>5. \A n \in DOMAIN scans : /\ id'[scans[n]] = id[scans[n]]
                              /\ pc'[scans[n]] \in SavingStdio \cup Final
  BY <1>2, <1>3 DEF Same, IInv, FileInv
<1>6. FileInv'
  BY <1>1, <1>4, <1>5, FileFrame DEF IInv
<1>7. SchemaWhole'
  BY <1>1, <1>2 DEF SchemaWhole, IInv, Same, SameRows
<1>8. \A s \in Scanner : ScannerInv(s)'
  BY <1>1, <1>2, ScannerFrame DEF IInv
<1>9. ASSUME NEW q \in Reporter PROVE ReporterInv(q)'
  <2>1. CASE q = r
    BY <2>1
  <2>2. CASE q # r
    <3>1. q \in Process \ {r} /\ Same(q)
      BY <2>2, ProcessFacts DEF StepOf
    <3>. QED BY <3>1, <1>1, <1>4, ReporterFrame DEF IInv, SameRows
  <2>. QED BY <2>1, <2>2
<1>. QED BY <1>6, <1>7, <1>8, <1>9 DEF IInv
-----------------------------------------------------------------------------
(* The inductive invariant holds at the start, and every step keeps it.     *)

LEMMA InitHolds == Init => IInv
<1> SUFFICES ASSUME Init PROVE IInv
  OBVIOUS
<1>1. Typing
  <2>1. \A x \in Process : /\ pc[x] \in {"probing", "report"}
                           /\ x \in Scanner => pc[x] = "probing"
                           /\ x \in Reporter => pc[x] = "report"
    BY ProcessFacts DEF Init
  <2>2. << >> \in Seq(ServerRow \cup ConfigRow)
    BY EmptySeq
  <2>. QED BY <2>1, <2>2, ProcessFacts
       DEF Init, Typing, ScannerPC, ReporterPC, Nothing, Verdict, Tables
<1>2. DOMAIN scans = {} /\ DOMAIN http = {} /\ DOMAIN stdio = {} /\ Range(scans) = {}
  BY DEF Init, Range
<1>3. FileInv
  BY <1>2 DEF FileInv, SavedWhole, HistoryInOrder
<1>4. SchemaWhole
  BY ProcessFacts DEF SchemaWhole, Init
<1>5. LockInv
  BY DEF LockInv, Init
<1>6. \A s \in Scanner : ScannerInv(s)
  BY <1>2, ProcessFacts DEF ScannerInv, Init, NoStatus, Saving, SavingStdio
<1>7. \A r \in Reporter : ReporterInv(r)
  BY ProcessFacts DEF ReporterInv, Init, Nothing
<1>. QED BY <1>1, <1>3, <1>4, <1>5, <1>6, <1>7 DEF IInv

\* A scanner that is not in its file's list of scans by the time it is
\* given up leaves no trace in memory.
LEMMA LostTyping ==
  ASSUME Typing, NEW s \in Scanner, Lost(s)
  PROVE  /\ obs' \in [Process -> Observation \cup {Nothing}]
         /\ id' \in [Process -> Nat]
         /\ todo' \in [Process -> SUBSET (Endpoint \cup Config \cup Nat)]
         /\ tx' \in [Process -> Seq(ServerRow \cup ConfigRow)]
         /\ status' \in [Process -> [Endpoint -> Verdict]]
         /\ stdioStatus' \in [Process -> [Config -> Verdict]]
         /\ todo'[s] = {}
<1>1. << >> \in Seq(ServerRow \cup ConfigRow) /\ s \in Process
  BY EmptySeq, ProcessFacts
<1>. QED BY <1>1 DEF Typing, Lost, Nothing, Verdict

LEMMA PcTyping ==
  ASSUME Typing, NEW x \in Process, NEW state \in ScannerPC \cup ReporterPC,
         pc' = [pc EXCEPT ![x] = state],
         x \in Scanner => state \in ScannerPC,
         x \in Reporter => state \in ReporterPC
  PROVE  /\ pc' \in [Process -> ScannerPC \cup ReporterPC]
         /\ \A s \in Scanner : pc'[s] \in ScannerPC
         /\ \A r \in Reporter : pc'[r] \in ReporterPC
BY ProcessFacts DEF Typing

LEMMA ProbeStep == ASSUME IInv, NEW s \in Scanner, Probe(s) PROVE IInv'
<1>1. s \in Process /\ pc[s] = "probing" /\ pc'[s] = "schema"
      /\ obs'[s] \in Observation /\ StepOf(s) /\ SameRows
      /\ UNCHANGED <<id, todo, tx, status, stdioStatus, file, locks>>
  BY ProcessFacts DEF IInv, Typing, Probe, Goto, StepOf, Same, SameRows, file
<1>2. Typing'
  <2>1. /\ pc' \in [Process -> ScannerPC \cup ReporterPC]
        /\ \A x \in Scanner : pc'[x] \in ScannerPC
        /\ \A r \in Reporter : pc'[r] \in ReporterPC
        /\ obs' \in [Process -> Observation \cup {Nothing}]
    BY ProcessFacts DEF IInv, Typing, Probe, Goto, ScannerPC
  <2>. QED BY <1>1, <2>1 DEF IInv, Typing, file
<1>3. SchemaWhole'
  BY <1>1, ProcessFacts DEF SchemaWhole, IInv, StepOf, Same, file
<1>4. LockInv'
  BY <1>1, ProcessFacts DEF IInv, LockInv, StepOf, Same, locks, Saving, SavingStdio
<1>5. ScannerInv(s)' /\ s \notin Range(scans)
  BY <1>1 DEF IInv, ScannerInv, file, Saving, SavingStdio
<1>. QED BY <1>1, <1>2, <1>3, <1>4, <1>5, ScannerStep DEF locks

LEMMA InitSchemaStep == ASSUME IInv, NEW s \in Scanner, InitSchema(s) PROVE IInv'
<1>1. s \in Process /\ pc[s] = "schema" /\ pc'[s] \in {"schema", "save", "failed"}
      /\ UNCHANGED <<scans, http, stdio, locks>> /\ SameRows
      /\ pc' = [pc EXCEPT ![s] = pc'[s]]
  BY ProcessFacts DEF IInv, Typing, InitSchema, Goto, SameRows
<1>2. /\ schema' \in 0 .. Tables
      /\ schema = Tables => schema' = Tables
      /\ pc'[s] = "save" => schema' = Tables
  BY <1>1 DEF IInv, Typing, InitSchema, Goto, Tables
<1>3. CASE Lost(s) /\ pc'[s] = "failed"
  <2>1. StepOf(s)
    BY <1>1, <1>3 DEF IInv, Typing, Lost, StepOf, Same
  <2>2. Typing'
    <3>1. /\ pc' \in [Process -> ScannerPC \cup ReporterPC]
          /\ \A x \in Scanner : pc'[x] \in ScannerPC
          /\ \A r \in Reporter : pc'[r] \in ReporterPC
      BY <1>1, <1>3, ProcessFacts DEF IInv, Typing, ScannerPC, Final
    <3>. QED BY <1>1, <1>2, <1>3, <3>1, LostTyping DEF IInv, Typing
  <2>3. SchemaWhole'
    BY <1>1, <1>2, <1>3, <2>1, ProcessFacts DEF SchemaWhole, IInv, StepOf, Same
  <2>4. LockInv'
    BY <1>1, <1>3, <2>1, ProcessFacts DEF IInv, LockInv, StepOf, Same, locks, Saving, SavingStdio
  <2>5. ScannerInv(s)' /\ s \notin Range(scans)
    BY <1>1, <1>3, LostTyping DEF IInv, ScannerInv, Saving, SavingStdio
  <2>. QED BY <1>1, <2>1, <2>2, <2>3, <2>4, <2>5, ScannerStep DEF locks
<1>4. CASE /\ UNCHANGED <<obs, id, todo, tx, status, stdioStatus>>
           /\ pc'[s] \in {"schema", "save"}
  <2>1. StepOf(s)
    BY <1>1, <1>4 DEF IInv, Typing, StepOf, Same
  <2>2. Typing'
    <3>1. /\ pc' \in [Process -> ScannerPC \cup ReporterPC]
          /\ \A x \in Scanner : pc'[x] \in ScannerPC
          /\ \A r \in Reporter : pc'[r] \in ReporterPC
      BY <1>1, <1>4, ProcessFacts DEF IInv, Typing, ScannerPC
    <3>. QED BY <1>1, <1>2, <1>4, <3>1 DEF IInv, Typing
  <2>3. SchemaWhole'
    BY <1>1, <1>2, <1>4, <2>1, ProcessFacts DEF SchemaWhole, IInv, StepOf, Same
  <2>4. LockInv'
    BY <1>1, <1>4, <2>1, ProcessFacts DEF IInv, LockInv, StepOf, Same, locks, Saving, SavingStdio
  <2>5. ScannerInv(s)' /\ s \notin Range(scans)
    BY <1>1, <1>4 DEF IInv, ScannerInv, Saving, SavingStdio
  <2>. QED BY <1>1, <2>1, <2>2, <2>3, <2>4, <2>5, ScannerStep DEF locks
<1>. QED BY <1>1, <1>3, <1>4 DEF InitSchema, Goto, IInv, Typing

LEMMA InsertScanStep == ASSUME IInv, NEW s \in Scanner, InsertScan(s) PROVE IInv'
<1>1. s \in Process /\ pc[s] = "save" /\ UNCHANGED <<file, pending, readers>> /\ SameRows
      /\ s # NoOne
  BY ProcessFacts DEF InsertScan, SameRows, file
<1>2. CASE Goto(s, "failed") /\ Lost(s) /\ UNCHANGED lock
  <2>1. StepOf(s) /\ pc'[s] = "failed"
    BY <1>1, <1>2 DEF IInv, Typing, Lost, StepOf, Same, Goto
  <2>2. Typing'
    <3>1. /\ pc' \in [Process -> ScannerPC \cup ReporterPC]
          /\ \A x \in Scanner : pc'[x] \in ScannerPC
          /\ \A r \in Reporter : pc'[r] \in ReporterPC
      BY <1>1, <1>2, ProcessFacts DEF IInv, Typing, ScannerPC, Final, Goto
    <3>. QED BY <1>1, <1>2, <3>1, LostTyping DEF IInv, Typing, file
  <2>3. SchemaWhole'
    BY <1>1, <1>2, <2>1, ProcessFacts DEF SchemaWhole, IInv, StepOf, Same, file
  <2>4. LockInv'
    BY <1>1, <1>2, <2>1, ProcessFacts DEF IInv, LockInv, StepOf, Same, Saving, SavingStdio
  <2>5. ScannerInv(s)' /\ s \notin Range(scans)
    BY <1>1, <1>2, <2>1, LostTyping DEF IInv, ScannerInv, Saving, SavingStdio, SameRows
  <2>. QED BY <1>1, <1>2, <2>1, <2>2, <2>3, <2>4, <2>5, ScannerStep
<1>3. CASE /\ ~ WriteBusy(s) /\ lock' = s
           /\ id' = [id EXCEPT ![s] = Len(scans) + 1]
           /\ todo' = [todo EXCEPT ![s] = Found(obs[s])]
           /\ tx' = [tx EXCEPT ![s] = << >>]
           /\ Goto(s, "servers")
           /\ UNCHANGED <<obs, status, stdioStatus>>
  <2>1. StepOf(s) /\ pc'[s] = "servers" /\ id'[s] = Len(scans) + 1
        /\ todo'[s] = Found(obs[s]) /\ tx'[s] = << >> /\ obs'[s] = obs[s]
        /\ status'[s] = status[s]
    BY <1>1, <1>3 DEF IInv, Typing, StepOf, Same, Goto
  <2>2. lock = NoOne
    BY <1>1, <1>3 DEF IInv, LockInv, WriteBusy, Saving, SavingStdio
  <2>3. << >> \in Seq(ServerRow \cup ConfigRow) /\ << >> \in Seq(ServerRow)
        /\ DOMAIN << >> = {} /\ Len(scans) + 1 \in Nat
        /\ Found(obs[s]) \subseteq Endpoint
    BY EmptySeq, LenProperties DEF IInv, Typing, Found
  <2>4. Typing'
    <3>1. /\ pc' \in [Process -> ScannerPC \cup ReporterPC]
          /\ \A x \in Scanner : pc'[x] \in ScannerPC
          /\ \A r \in Reporter : pc'[r] \in ReporterPC
      BY <1>1, <1>3, ProcessFacts DEF IInv, Typing, ScannerPC, Saving, Goto
    <3>2. /\ id' \in [Process -> Nat]
          /\ todo' \in [Process -> SUBSET (Endpoint \cup Config \cup Nat)]
          /\ tx' \in [Process -> Seq(ServerRow \cup ConfigRow)]
      BY <1>3, <2>3 DEF IInv, Typing
    <3>. QED BY <1>1, <1>3, <3>1, <3>2 DEF IInv, Typing, file
  <2>5. SchemaWhole'
    BY <1>1, <1>3, <2>1, ProcessFacts DEF SchemaWhole, IInv, StepOf, Same, file
  <2>6. LockInv'
    BY <1>1, <1>3, <2>1, <2>2, ProcessFacts DEF IInv, LockInv, StepOf, Same, Saving, SavingStdio
  <2>7. obs[s] \in Observation /\ s \notin Range(scans) /\ status[s] = NoStatus
    BY <1>1 DEF IInv, ScannerInv
  <2>8. SavingInv(s)'
    BY <1>1, <1>3, <2>1, <2>3, <2>7 DEF SavingInv, SameRows, ServerRows, NoStatus
  <2>9. ScannerInv(s)'
    BY <1>1, <2>1, <2>3, <2>7, <2>8 DEF ScannerInv, Saving, SavingStdio, SameRows
  <2>10. \A y \in Process \ {s} : lock # y
    BY <2>2, ProcessFacts DEF Process
  <2>. QED BY <1>1, <2>1, <2>4, <2>5, <2>6, <2>7, <2>9, <2>10, ScannerStep
<1>. QED BY <1>2, <1>3 DEF InsertScan

LEMMA InsertServerStep == ASSUME IInv, NEW s \in Scanner, InsertServer(s) PROVE IInv'
<1> DEFINE e == CHOOSE x \in todo[s] : TRUE
           row == [scan |-> id[s], ep |-> e, name |-> obs[s].http[e].name,
                   hash |-> obs[s].http[e].hash]
           verdict == HttpVerdict(http, obs[s].http[e], e, id[s])
<1>1. /\ s \in Process /\ pc[s] = "servers" /\ SameRows
      /\ UNCHANGED <<pc, obs, id, stdioStatus, file, locks>>
      /\ SavingInv(s) /\ s \notin Range(scans)
  BY ProcessFacts DEF InsertServer, SameRows, file, IInv, ScannerInv, Saving
<1>2. e \in todo[s] /\ e \in Found(obs[s]) /\ e \in Endpoint
  BY <1>1 DEF InsertServer, SavingInv, Found
<1>3. row \in ServerRow /\ row \in ServerRow \cup ConfigRow
  <2>1. obs[s] \in Observation /\ id[s] \in Nat
    BY <1>1 DEF SavingInv, IInv, Typing
  <2> HIDE DEF e
  <2>2. /\ obs[s].http[e].name \in {o.http[d].name : o \in Observation, d \in Endpoint}
        /\ obs[s].http[e].hash \in {o.http[d].hash : o \in Observation, d \in Endpoint}
    BY <1>2, <2>1
  <2>. QED BY <1>2, <2>1, <2>2 DEF ServerRow
<1>4. verdict \in Verdict
  BY DEF HttpVerdict, Verdict
<1>5. /\ status' = [status EXCEPT ![s][e] = verdict]
      /\ tx' = [tx EXCEPT ![s] = Append(tx[s], row)]
      /\ todo' = [todo EXCEPT ![s] = todo[s] \ {e}]
  BY <1>1 DEF InsertServer, IInv, Typing
<1> HIDE DEF e, row, verdict
<1>6. /\ tx'[s] = Append(tx[s], row) /\ todo'[s] = todo[s] \ {e}
      /\ status'[s] = [status[s] EXCEPT ![e] = verdict]
  BY <1>1, <1>5 DEF IInv, Typing
<1>7. StepOf(s)
  BY <1>1, <1>5 DEF IInv, Typing, StepOf, Same
<1>8. Append(tx[s], row) \in Seq(ServerRow \cup ConfigRow)
  BY <1>1, <1>3 DEF IInv, Typing
<1>9. Typing'
  <2>1. /\ todo' \in [Process -> SUBSET (Endpoint \cup Config \cup Nat)]
        /\ tx' \in [Process -> Seq(ServerRow \cup ConfigRow)]
    BY <1>1, <1>5, <1>8 DEF IInv, Typing
  <2>2. status' \in [Process -> [Endpoint -> Verdict]]
    BY <1>1, <1>2, <1>4, <1>5 DEF IInv, Typing
  <2>. QED BY <1>1, <2>1, <2>2 DEF IInv, Typing, file
<1>10. SchemaWhole' /\ LockInv'
  BY <1>1 DEF IInv, SchemaWhole, LockInv, file, locks
<1>11. SavingInv(s)'
  <2> DEFINE done == Found(obs[s]) \ todo[s]
             n == Len(tx[s]) + 1
             rows == Append(tx[s], row)
  <2>1. /\ rows \in Seq(ServerRow)
        /\ DOMAIN rows = DOMAIN tx[s] \cup {n}
        /\ n \notin DOMAIN tx[s] /\ rows[n] = row
        /\ \A m \in DOMAIN tx[s] : rows[m] = tx[s][m]
    BY <1>1, <1>3, Extended DEF SavingInv
  <2>2. row.scan = id[s] /\ row.ep = e /\ row.name = obs[s].http[e].name
        /\ row.hash = obs[s].http[e].hash
    BY DEF row
  <2>3. Found(obs[s]) \ todo'[s] = done \cup {e} /\ e \notin done
    BY <1>2, <1>6
  <2> HIDE DEF n, rows
  <2>4. ServerRows(tx[s], DOMAIN tx[s], obs[s], done)
    BY <1>1 DEF SavingInv
  <2> HIDE DEF done
  <2>5. ServerRows(rows, DOMAIN rows, obs[s], done \cup {e})
    BY <2>1, <2>2, <2>3, <2>4 DEF ServerRows
  <2>6. \A m \in DOMAIN rows : rows[m].scan = id[s]
    BY <1>1, <2>1, <2>2 DEF SavingInv
  <2>7. \A d \in Endpoint :
          status'[s][d] = IF d \in done \cup {e}
                          THEN HttpVerdict(http, obs[s].http[d], d, id[s])
                          ELSE Absent
    BY <1>1, <1>2, <1>6, <2>3 DEF SavingInv, done, verdict, IInv, Typing
  <2>8. todo'[s] \subseteq Found(obs[s])
    BY <1>1, <1>6 DEF SavingInv
  <2>. QED BY <1>1, <1>6, <2>1, <2>3, <2>5, <2>6, <2>7, <2>8
       DEF SavingInv, file, locks, rows
<1>12. ScannerInv(s)'
  BY <1>1, <1>6, <1>11 DEF ScannerInv, IInv, Saving, SavingStdio, file
<1>. QED BY <1>1, <1>7, <1>9, <1>10, <1>12, ScannerStep DEF locks

LEMMA BeginCommitStep == ASSUME IInv, NEW s \in Scanner, BeginCommit(s) PROVE IInv'
<1>1. /\ s \in Process /\ SameRows /\ pending' /\ todo[s] = {}
      /\ UNCHANGED <<obs, id, todo, tx, status, stdioStatus, file, lock, readers>>
      /\ \/ pc[s] = "servers" /\ pc' = [pc EXCEPT ![s] = "commit"]
         \/ pc[s] = "stdio" /\ pc' = [pc EXCEPT ![s] = "stdioCommit"]
  BY ProcessFacts DEF BeginCommit, SameRows, file, Goto
<1>2. StepOf(s) /\ pc'[s] \in {"commit", "stdioCommit"}
      /\ (pc'[s] = "commit" <=> pc[s] = "servers")
  BY <1>1 DEF IInv, Typing, StepOf, Same
<1>3. lock = s
  BY <1>1 DEF IInv, ScannerInv, SavingInv, SavingStdioInv, Saving, SavingStdio
<1>4. Typing'
  <2>1. /\ pc' \in [Process -> ScannerPC \cup ReporterPC]
        /\ \A x \in Scanner : pc'[x] \in ScannerPC
        /\ \A r \in Reporter : pc'[r] \in ReporterPC
    BY <1>1, ProcessFacts DEF IInv, Typing, ScannerPC, Saving, SavingStdio
  <2>. QED BY <1>1, <2>1 DEF IInv, Typing, file
<1>5. SchemaWhole'
  BY <1>1, <1>2, ProcessFacts DEF SchemaWhole, IInv, StepOf, Same, file
<1>6. LockInv'
  BY <1>1, <1>2, <1>3, ProcessFacts DEF IInv, LockInv, StepOf, Same, Saving, SavingStdio
<1>7. SavingInv(s) => SavingInv(s)'
  BY <1>1 DEF SavingInv, file
<1>8. SavingStdioInv(s) => SavingStdioInv(s)'
  BY <1>1 DEF SavingStdioInv, file
<1>9. ScannerInv(s)'
  BY <1>1, <1>2, <1>7, <1>8 DEF IInv, ScannerInv, Saving, SavingStdio, file
<1>10. s \in Range(scans) => pc'[s] \in SavingStdio
  BY <1>1, <1>2 DEF IInv, ScannerInv, Saving, SavingStdio
<1>. QED BY <1>1, <1>2, <1>4, <1>5, <1>6, <1>9, <1>10, ScannerStep

\* Releasing what s holds touches nobody else's locks.
LEMMA ReleasedOthers ==
  ASSUME NEW s, Released(s)
  PROVE  /\ \A y : y # s => /\ (lock = y => lock' = y) /\ (y \in readers => y \in readers')
         /\ lock' # s \/ s = NoOne
         /\ s \notin readers'
         /\ lock' \in {lock, NoOne}
         /\ readers' \subseteq readers
         /\ (pending' <=> pending /\ lock # s)
  BY DEF Released

LEMMA ReleasedLockInv ==
  ASSUME IInv, NEW s \in Scanner, StepOf(s), Released(s),
         pc'[s] \in Final \cup {"stdio"}
  PROVE  LockInv'
<1>1. s \in Process /\ s # NoOne
  BY ProcessFacts
<1>2. lock' \in Scanner \cup {NoOne} /\ lock' # s /\ s \notin readers'
      /\ readers' \subseteq readers
  BY <1>1, ReleasedOthers DEF IInv, LockInv
<1>3. lock' # NoOne => lock' = lock /\ lock # s /\ lock \in Scanner /\ pc'[lock] = pc[lock]
  BY <1>1, <1>2, ReleasedOthers, ProcessFacts DEF StepOf, Same
<1>4. \A x \in readers' : x \in Process /\ x # s /\ pc'[x] = pc[x]
  BY <1>2 DEF StepOf, Same, IInv, LockInv
<1>5. pending' <=> lock' # NoOne /\ pending
  BY DEF Released, IInv, LockInv
<1>6. pending' <=> lock' # NoOne /\ pc'[lock'] \in {"commit", "stdioCommit"}
  BY <1>3, <1>5 DEF IInv, LockInv
<1>. QED BY <1>2, <1>3, <1>4, <1>6 DEF IInv, LockInv

LEMMA CommitFails ==
  ASSUME IInv, NEW s \in Scanner, Commit(s), Lost(s), Goto(s, "failed"),
         UNCHANGED <<scans, http>>
  PROVE  IInv'
<1>1. /\ s \in Process /\ pc[s] = "commit" /\ pc'[s] = "failed" /\ SameRows
      /\ UNCHANGED <<schema, stdio>> /\ Released(s) /\ s \notin Range(scans)
  BY ProcessFacts DEF Commit, SameRows, Goto, IInv, Typing, ScannerInv, Saving
<1>2. StepOf(s)
  BY <1>1 DEF IInv, Typing, Lost, StepOf, Same, Goto
<1>3. Typing'
  <2>1. /\ pc' \in [Process -> ScannerPC \cup ReporterPC]
        /\ \A x \in Scanner : pc'[x] \in ScannerPC
        /\ \A r \in Reporter : pc'[r] \in ReporterPC
    BY <1>1, ProcessFacts DEF IInv, Typing, ScannerPC, Final, Goto
  <2>. QED BY <1>1, <2>1, LostTyping DEF IInv, Typing
<1>4. SchemaWhole'
  BY <1>1, <1>2, ProcessFacts DEF SchemaWhole, IInv, StepOf, Same
<1>5. LockInv'
  BY <1>1, <1>2, ReleasedLockInv DEF Final
<1>6. ScannerInv(s)'
  BY <1>1, LostTyping DEF IInv, ScannerInv, Saving, SavingStdio
<1>. QED BY <1>1, <1>2, <1>3, <1>4, <1>5, <1>6, ReleasedOthers, ScannerStep

\* A scan in the file: what the commit appends is the whole scan.
Committed(s) ==
  /\ s \in Scanner
  /\ pc[s] = "commit" /\ Released(s)
  /\ readers \ {s} = {}
  /\ scans' = Append(scans, s)
  /\ http' = http \o tx[s]
  /\ todo' = [todo EXCEPT ![s] = Configs(obs[s])]
  /\ tx' = [tx EXCEPT ![s] = << >>]
  /\ Goto(s, AfterSave(s))
  /\ UNCHANGED <<obs, id, status, stdioStatus, schema, stdio>>

LEMMA CommitFacts ==
  ASSUME IInv, NEW s, Committed(s)
  PROVE  LET n == Len(scans) + 1
         IN /\ s \in Process /\ lock = s /\ s \notin readers /\ readers = {}
            /\ SavingInv(s) /\ s \notin Range(scans) /\ todo[s] = {}
            /\ id[s] = n /\ n \in Nat /\ DOMAIN scans = 1 .. Len(scans)
            /\ DOMAIN scans' = DOMAIN scans \cup {n} /\ n \notin DOMAIN scans
            /\ scans'[n] = s /\ \A m \in DOMAIN scans : scans'[m] = scans[m]
            /\ scans' \in Seq(Scanner)
            /\ \A m \in DOMAIN http : http[m].scan \in DOMAIN scans
            /\ \A m \in DOMAIN tx[s] : tx[s][m].scan = n
            /\ RowsOf(http, n) = {} /\ RowsOf(stdio, n) = {}
<1>1. /\ s \in Process /\ SavingInv(s) /\ s \notin Range(scans) /\ todo[s] = {}
      /\ lock = s
  BY ProcessFacts DEF Committed, IInv, ScannerInv, SavingInv, Saving
<1>2. s \notin readers /\ readers = {}
  BY DEF Committed, IInv, LockInv, SavingStdio
<1>3. /\ Len(scans) \in Nat /\ DOMAIN scans = 1 .. Len(scans)
      /\ DOMAIN scans' = DOMAIN scans \cup {Len(scans) + 1}
      /\ Len(scans) + 1 \notin DOMAIN scans
      /\ scans'[Len(scans) + 1] = s /\ \A m \in DOMAIN scans : scans'[m] = scans[m]
      /\ scans' \in Seq(Scanner)
  BY LenProperties, Extended DEF Committed, IInv, Typing
<1>4. /\ \A m \in DOMAIN http : http[m].scan \in DOMAIN scans
      /\ \A m \in DOMAIN stdio : stdio[m].scan \in DOMAIN scans
  BY DEF IInv, FileInv, HistoryInOrder
<1>5. RowsOf(http, Len(scans) + 1) = {} /\ RowsOf(stdio, Len(scans) + 1) = {}
  BY <1>3, <1>4 DEF RowsOf
<1>. QED BY <1>1, <1>2, <1>3, <1>4, <1>5 DEF SavingInv

LEMMA CommitKeepsFile == ASSUME IInv, NEW s, Committed(s) PROVE FileInv'
<1> DEFINE n == Len(scans) + 1
<1>1. /\ s \in Process /\ SavingInv(s) /\ s \notin Range(scans) /\ todo[s] = {}
      /\ id[s] = n /\ n \in Nat /\ DOMAIN scans = 1 .. Len(scans)
      /\ DOMAIN scans' = DOMAIN scans \cup {n} /\ n \notin DOMAIN scans
      /\ scans'[n] = s /\ \A m \in DOMAIN scans : scans'[m] = scans[m]
      /\ \A m \in DOMAIN http : http[m].scan \in DOMAIN scans
      /\ \A m \in DOMAIN tx[s] : tx[s][m].scan = n
      /\ RowsOf(http, n) = {} /\ RowsOf(stdio, n) = {}
  BY CommitFacts
<1> HIDE DEF n
<1>2. /\ http \in Seq(ServerRow) /\ tx[s] \in Seq(ServerRow)
      /\ ServerRows(tx[s], DOMAIN tx[s], obs[s], Found(obs[s]))
      /\ \A e \in Endpoint :
           status[s][e] = IF e \in Found(obs[s])
                          THEN HttpVerdict(http, obs[s].http[e], e, n)
                          ELSE Absent
      /\ obs[s] \in Observation
  BY <1>1 DEF SavingInv, IInv, Typing, n
<1>3. /\ http' = http \o tx[s]
      /\ UNCHANGED <<obs, id, status, stdioStatus, schema, stdio>>
      /\ pc' = [pc EXCEPT ![s] = pc'[s]] /\ pc'[s] \in {"done", "stdio"}
  BY <1>1 DEF Committed, Goto, AfterSave, IInv, Typing
<1>4. \A m \in DOMAIN scans : m \in Nat /\ m # n /\ m <= n /\ scans[m] # s
  BY <1>1 DEF Range, n
<1>5. SavedWhole'
  <2>1. ASSUME NEW m \in DOMAIN scans
        PROVE  /\ ServerRows(http', RowsOf(http', m), obs[scans[m]], Found(obs[scans[m]]))
               /\ RowsOf(stdio, m) # {} =>
                    ConfigRows(stdio, RowsOf(stdio, m), obs[scans[m]], Configs(obs[scans[m]]))
    <3>1. RowsOf(http', m) = RowsOf(http, m)
      <4>1. m # n /\ m \in Nat /\ n \in Nat
        BY <1>1, <1>4
      <4>2. /\ http \in Seq(ServerRow) /\ tx[s] \in Seq(ServerRow)
            /\ \A j \in DOMAIN tx[s] : tx[s][j].scan = n
        BY <1>1, <1>2
      <4>3. RowsOf(http \o tx[s], m) = RowsOf(http, m)
        BY <4>1, <4>2, RowsKept
      <4>. QED BY <4>3, <1>3
    <3>2. \A k \in RowsOf(http, m) : http'[k] = http[k]
      BY <1>2, <1>3, Joined DEF RowsOf
    <3>3. /\ ServerRows(http, RowsOf(http, m), obs[scans[m]], Found(obs[scans[m]]))
          /\ RowsOf(stdio, m) # {} =>
               ConfigRows(stdio, RowsOf(stdio, m), obs[scans[m]], Configs(obs[scans[m]]))
      BY DEF IInv, FileInv, SavedWhole
    <3>. QED BY <3>1, <3>2, <3>3 DEF ServerRows
  <2>2. ServerRows(http', RowsOf(http', n), obs[s], Found(obs[s]))
    BY <1>1, <1>2, <1>3, ServersJoined
  <2>. QED BY <1>1, <1>3, <2>1, <2>2 DEF SavedWhole
<1>6. HistoryInOrder'
  <2>1. ASSUME NEW m \in DOMAIN http'
        PROVE  \/ m \in DOMAIN http /\ http'[m] = http[m] /\ http[m].scan \in DOMAIN scans
               \/ m \notin DOMAIN http /\ http'[m].scan = n /\ \A k \in DOMAIN http : k < m
    BY <1>1, <1>2, <1>3, Joined
  <2>2. \A m \in DOMAIN http' : http'[m].scan \in DOMAIN scans'
    BY <1>1, <2>1
  <2>3. ASSUME NEW m \in DOMAIN http', NEW k \in DOMAIN http', m < k
        PROVE  http'[m].scan <= http'[k].scan
    <3>1. m \in Nat /\ k \in Nat
      BY <1>2, <1>3, Joined, LenProperties
    <3>2. CASE k \in DOMAIN http
      <4>1. m \in DOMAIN http
        BY <2>1, <2>3, <3>1, <3>2
      <4>. QED BY <4>1, <3>2, <2>1, <2>3 DEF IInv, FileInv, HistoryInOrder
    <3>3. CASE k \notin DOMAIN http
      <4>1. http'[k].scan = n
        BY <2>1, <3>3
      <4>2. http'[m].scan <= n
        BY <2>1, <1>1, <1>4
      <4>. QED BY <4>1, <4>2
    <3>. QED BY <3>2, <3>3
  <2>4. \A m \in DOMAIN scans' : id'[scans'[m]] = m
    BY <1>1, <1>3 DEF IInv, FileInv, HistoryInOrder
  <2>5. \A m \in DOMAIN stdio' : stdio'[m].scan \in DOMAIN scans'
    BY <1>1, <1>3 DEF IInv, FileInv, HistoryInOrder
  <2>. QED BY <2>2, <2>3, <2>4, <2>5 DEF HistoryInOrder
<1>7. ASSUME NEW m \in DOMAIN scans'
      PROVE  LET x == scans'[m]
             IN /\ pc'[x] \in SavingStdio \cup Final
                /\ obs'[x] \in Observation
                /\ \A e \in Endpoint :
                     status'[x][e] = IF e \in Found(obs'[x])
                                     THEN HttpVerdict(http', obs'[x].http[e], e, m)
                                     ELSE Absent
  <2>1. \A row : \A e \in Endpoint : HttpVerdict(http', row, e, m) = HttpVerdict(http, row, e, m)
    <3>1. m \in Nat /\ m <= n
      BY <1>1, <1>4
    <3>2. /\ http \in Seq(ServerRow) /\ tx[s] \in Seq(ServerRow) /\ n \in Nat
          /\ \A j \in DOMAIN tx[s] : tx[s][j].scan = n
      BY <1>1, <1>2
    <3>3. \A row : \A e \in Endpoint :
            HttpVerdict(http \o tx[s], row, e, m) = HttpVerdict(http, row, e, m)
      BY <3>1, <3>2, VerdictKept
    <3>. QED BY <3>3, <1>3
  <2>2. CASE m = n
    BY <1>1, <1>2, <1>3, <2>1, <2>2 DEF SavingStdio, Final
  <2>3. CASE m \in DOMAIN scans
    <3>1. scans'[m] = scans[m] /\ scans[m] # s /\ scans[m] \in Process
      BY <1>1, <1>4, <2>3, ProcessFacts DEF IInv, Typing
    <3>2. pc'[scans[m]] = pc[scans[m]]
      BY <1>3, <3>1 DEF IInv, Typing
    <3>. QED BY <1>3, <2>1, <2>3, <3>1, <3>2 DEF IInv, FileInv
  <2>. QED BY <1>1, <2>2, <2>3
<1>. QED BY <1>5, <1>6, <1>7 DEF FileInv

LEMMA CommitSucceeds == ASSUME IInv, NEW s, Committed(s) PROVE IInv'
<1>1. /\ s \in Process /\ s \in Scanner /\ lock = s /\ readers = {}
      /\ s \notin Range(scans) /\ id[s] = Len(scans) + 1
      /\ DOMAIN scans' = DOMAIN scans \cup {id[s]} /\ id[s] \notin DOMAIN scans
      /\ scans'[id[s]] = s /\ \A m \in DOMAIN scans : scans'[m] = scans[m]
      /\ scans' \in Seq(Scanner) /\ obs[s] \in Observation
      /\ tx[s] \in Seq(ServerRow)
      /\ RowsOf(stdio, id[s]) = {}
  BY CommitFacts DEF Committed, SavingInv
<1>2. /\ http' = http \o tx[s]
      /\ UNCHANGED <<obs, id, status, stdioStatus, schema, stdio>>
      /\ pc' = [pc EXCEPT ![s] = pc'[s]] /\ pc'[s] \in {"done", "stdio"}
      /\ pc'[s] = "stdio" => Configs(obs[s]) # {}
      /\ todo'[s] = Configs(obs[s]) /\ tx'[s] = << >>
  BY <1>1 DEF Committed, Goto, AfterSave, IInv, Typing
<1>3. StepOf(s)
  BY <1>1, <1>2 DEF StepOf, Same, Committed, IInv, Typing
<1>4. Typing'
  <2>1. /\ pc' \in [Process -> ScannerPC \cup ReporterPC]
        /\ \A x \in Scanner : pc'[x] \in ScannerPC
        /\ \A r \in Reporter : pc'[r] \in ReporterPC
    <3>1. pc'[s] \in ScannerPC
      BY <1>2 DEF ScannerPC, SavingStdio, Final
    <3>. QED BY <1>1, <1>2, <3>1, PcTyping, ProcessFacts DEF IInv
  <2>2. << >> \in Seq(ServerRow \cup ConfigRow) /\ Configs(obs[s]) \subseteq Config
    BY EmptySeq DEF Configs
  <2>3. /\ todo' \in [Process -> SUBSET (Endpoint \cup Config \cup Nat)]
        /\ tx' \in [Process -> Seq(ServerRow \cup ConfigRow)]
    BY <2>2 DEF Committed, IInv, Typing
  <2>4. http' \in Seq(ServerRow)
    BY <1>1, <1>2, Joined DEF IInv, Typing
  <2>. QED BY <1>1, <1>2, <2>1, <2>3, <2>4 DEF IInv, Typing
<1>5. SchemaWhole'
  <2>1. schema' = Tables
    BY <1>1, <1>2 DEF IInv, SchemaWhole, Committed
  <2>. QED BY <2>1 DEF SchemaWhole
<1>6. LockInv'
  BY <1>1, <1>2, <1>3, ReleasedLockInv DEF Committed, Final
<1>7. FileInv'
  BY CommitKeepsFile
<1>8. Range(scans') = Range(scans) \cup {s}
  BY <1>1 DEF Range
<1>9. ASSUME NEW y \in Scanner PROVE ScannerInv(y)'
  <2>1. CASE y = s
    <3>1. pc'[s] = "stdio" => SavingStdioInv(s)'
      <4>1. << >> \in Seq(ConfigRow) /\ DOMAIN << >> = {}
        BY EmptySeq
      <4>. QED BY <1>1, <1>2, <1>8, <4>1 DEF SavingStdioInv, ConfigRows
    <3>2. Configs(obs[s]) \subseteq Config
      BY DEF Configs
    <3>. QED BY <1>1, <1>2, <1>8, <2>1, <3>1, <3>2
         DEF ScannerInv, SavedScan, Saving, SavingStdio
  <2>2. CASE y # s
    <3>1. y \in Process /\ Same(y) /\ ScannerInv(y)
      BY <1>3, <2>2, ProcessFacts DEF StepOf, IInv
    <3>2. pc[y] \notin Saving
      BY <1>1, <2>2, <3>1 DEF ScannerInv, SavingInv
    <3>3. SavingStdioInv(y) => SavingStdioInv(y)'
      BY <1>1, <1>2, <1>8, <2>2, <3>1 DEF SavingStdioInv, Same
    <3>. QED BY <1>1, <1>2, <1>8, <2>2, <3>1, <3>2, <3>3
         DEF ScannerInv, SavedScan, Same
  <2>. QED BY <2>1, <2>2
<1>10. Kept
  BY <1>1, <1>2 DEF Kept
<1>11. ASSUME NEW r \in Reporter PROVE ReporterInv(r)'
  <2>1. r \in Process \ {s} /\ Same(r)
    BY <1>1, <1>3, ProcessFacts DEF StepOf
  <2>. QED BY <1>1, <1>10, <2>1, ReporterFrame DEF IInv
<1>. QED BY <1>4, <1>5, <1>6, <1>7, <1>9, <1>11 DEF IInv

LEMMA CommitCases ==
  ASSUME IInv, NEW s \in Scanner, Commit(s)
  PROVE  \/ Lost(s) /\ Goto(s, "failed") /\ UNCHANGED <<scans, http>>
         \/ Committed(s)
BY DEF Commit, Committed

LEMMA CommitStep == ASSUME IInv, NEW s \in Scanner, Commit(s) PROVE IInv'
BY CommitCases, CommitFails, CommitSucceeds

LEMMA StdioResolveStep == ASSUME IInv, NEW s \in Scanner, StdioResolve(s) PROVE IInv'
<1>1. /\ s \in Process /\ pc[s] = "stdio" /\ SameRows
      /\ pc' = [pc EXCEPT ![s] = "stdioInsert"]
      /\ UNCHANGED <<obs, id, todo, tx, status, file, lock, pending>>
      /\ readers' \in {readers, readers \cup {s}}
      /\ SavingStdioInv(s) /\ s \in Range(scans) /\ lock \in Scanner \cup {NoOne}
  BY ProcessFacts DEF StdioResolve, SameRows, file, Goto, IInv, ScannerInv,
                      SavingStdio, SavingStdioInv, LockInv
<1>2. PICK c \in todo[s] :
        stdioStatus' = [stdioStatus EXCEPT ![s][c] =
          IF ReadBusy(s) THEN "new" ELSE StdioVerdict(stdio, obs[s].stdio[c], c, id[s])]
  BY DEF StdioResolve
<1>3. stdioStatus' \in [Process -> [Config -> Verdict]]
  <2>1. c \in Config
    BY <1>1 DEF SavingStdioInv, Configs
  <2>2. StdioVerdict(stdio, obs[s].stdio[c], c, id[s]) \in Verdict
    BY DEF StdioVerdict, Verdict
  <2>. QED BY <1>1, <1>2, <2>1, <2>2 DEF IInv, Typing, Verdict
<1>4. StepOf(s)
  BY <1>1, <1>2 DEF StepOf, Same, IInv, Typing
<1>5. Typing' /\ pc'[s] = "stdioInsert"
  <2>1. "stdioInsert" \in ScannerPC
    BY DEF ScannerPC, SavingStdio
  <2>. QED BY <1>1, <1>3, <2>1, PcTyping, ProcessFacts DEF IInv, Typing, file
<1>6. SchemaWhole'
  BY <1>1, <1>4, <1>5, ProcessFacts DEF SchemaWhole, IInv, StepOf, Same, file
<1>7. LockInv'
  BY <1>1, <1>4, <1>5, ProcessFacts DEF IInv, LockInv, StepOf, Same, Saving, SavingStdio
<1>8. SavingStdioInv(s)'
  BY <1>1, <1>5 DEF SavingStdioInv, file
<1>9. ScannerInv(s)'
  BY <1>1, <1>5, <1>8 DEF IInv, ScannerInv, Saving, SavingStdio, file
<1>. QED BY <1>1, <1>4, <1>5, <1>6, <1>7, <1>9, ScannerStep DEF SavingStdio

LEMMA StdioInsertFails ==
  ASSUME IInv, NEW s \in Scanner, pc[s] = "stdioInsert",
         Goto(s, "done"), Released(s), tx' = [tx EXCEPT ![s] = << >>],
         UNCHANGED <<todo, obs, id, status, stdioStatus, file>>
  PROVE  IInv'
<1>1. /\ s \in Process /\ SameRows /\ pc' = [pc EXCEPT ![s] = "done"]
      /\ pc'[s] = "done" /\ s \in Range(scans)
  BY ProcessFacts DEF SameRows, file, Goto, IInv, Typing, ScannerInv, SavingStdio, SavingStdioInv
<1>2. StepOf(s)
  BY <1>1 DEF StepOf, Same, IInv, Typing
<1>3. Typing'
  <2>1. "done" \in ScannerPC /\ << >> \in Seq(ServerRow \cup ConfigRow)
    BY EmptySeq DEF ScannerPC, Final
  <2>. QED BY <1>1, <2>1, PcTyping, ProcessFacts DEF IInv, Typing, file
<1>4. SchemaWhole'
  BY <1>1, <1>2, ProcessFacts DEF SchemaWhole, IInv, StepOf, Same, file
<1>5. LockInv'
  BY <1>1, <1>2, ReleasedLockInv DEF Final
<1>6. ScannerInv(s)'
  BY <1>1 DEF IInv, ScannerInv, Saving, SavingStdio, SavedScan, file
<1>. QED BY <1>1, <1>2, <1>3, <1>4, <1>5, <1>6, ReleasedOthers, ScannerStep DEF Final

LEMMA StdioInsertDoes ==
  ASSUME IInv, NEW s \in Scanner, pc[s] = "stdioInsert", ~ WriteBusy(s),
         NEW c \in todo[s],
         tx' = [tx EXCEPT ![s] =
           Append(@, [scan |-> id[s], cfg |-> c, hash |-> obs[s].stdio[c]])],
         todo' = [todo EXCEPT ![s] = @ \ {c}],
         Goto(s, "stdio"), lock' = s,
         UNCHANGED <<pending, readers, obs, id, status, stdioStatus, file>>
  PROVE  IInv'
<1> DEFINE row == [scan |-> id[s], cfg |-> c, hash |-> obs[s].stdio[c]]
<1>1. /\ s \in Process /\ s # NoOne /\ SameRows
      /\ pc' = [pc EXCEPT ![s] = "stdio"] /\ pc'[s] = "stdio"
      /\ SavingStdioInv(s) /\ s \in Range(scans)
      /\ lock \in {NoOne, s}
  BY ProcessFacts DEF SameRows, file, Goto, IInv, Typing, ScannerInv, SavingStdio,
                      SavingStdioInv, WriteBusy
<1>2. c \in Configs(obs[s]) /\ c \in Config /\ obs[s] \in Observation /\ id[s] \in Nat
  BY <1>1 DEF SavingStdioInv, Configs, Range, IInv, FileInv, Typing
<1>3. row \in ConfigRow
  <2>1. obs[s].stdio[c] \in {o.stdio[d] : o \in Observation, d \in Config}
    BY <1>2
  <2>. QED BY <1>2, <2>1 DEF ConfigRow
<1>4. StepOf(s)
  BY <1>1 DEF StepOf, Same, IInv, Typing
<1>5. tx'[s] = Append(tx[s], row) /\ todo'[s] = todo[s] \ {c}
  BY <1>1 DEF IInv, Typing
<1>6. Typing'
  <2>1. "stdio" \in ScannerPC
    BY DEF ScannerPC, SavingStdio
  <2>2. Append(tx[s], row) \in Seq(ServerRow \cup ConfigRow)
    BY <1>1, <1>3 DEF IInv, Typing
  <2>3. /\ todo' \in [Process -> SUBSET (Endpoint \cup Config \cup Nat)]
        /\ tx' \in [Process -> Seq(ServerRow \cup ConfigRow)]
    BY <1>1, <2>2 DEF IInv, Typing
  <2>. QED BY <1>1, <2>1, <2>3, PcTyping, ProcessFacts DEF IInv, Typing, file
<1>7. SchemaWhole'
  BY <1>1, <1>4, ProcessFacts DEF SchemaWhole, IInv, StepOf, Same, file
<1>8. LockInv'
  BY <1>1, <1>4, ProcessFacts DEF IInv, LockInv, StepOf, Same, Saving, SavingStdio
<1>9. SavingStdioInv(s)'
  <2> DEFINE done == Configs(obs[s]) \ todo[s]
             n == Len(tx[s]) + 1
             rows == Append(tx[s], row)
  <2>1. /\ rows \in Seq(ConfigRow)
        /\ DOMAIN rows = DOMAIN tx[s] \cup {n}
        /\ n \notin DOMAIN tx[s] /\ rows[n] = row
        /\ \A m \in DOMAIN tx[s] : rows[m] = tx[s][m]
    BY <1>1, <1>3, Extended DEF SavingStdioInv
  <2>2. row.scan = id[s] /\ row.cfg = c /\ row.hash = obs[s].stdio[c]
    OBVIOUS
  <2>3. Configs(obs[s]) \ todo'[s] = done \cup {c} /\ c \notin done
    BY <1>2, <1>5
  <2>4. ConfigRows(tx[s], DOMAIN tx[s], obs[s], done)
    BY <1>1 DEF SavingStdioInv
  <2> HIDE DEF n, rows, row, done
  <2>5. ConfigRows(rows, DOMAIN rows, obs[s], done \cup {c})
    BY <2>1, <2>2, <2>3, <2>4 DEF ConfigRows
  <2>6. \A m \in DOMAIN rows : rows[m].scan = id[s]
    BY <1>1, <2>1, <2>2 DEF SavingStdioInv
  <2>7. todo'[s] \subseteq Configs(obs[s])
    BY <1>1, <1>5 DEF SavingStdioInv
  <2>. QED BY <1>1, <1>5, <2>1, <2>3, <2>5, <2>6, <2>7 DEF SavingStdioInv, file, rows
<1>10. ScannerInv(s)'
  BY <1>1, <1>5, <1>9 DEF IInv, ScannerInv, Saving, SavingStdio, file
<1>11. \A y \in Process \ {s} : lock # y
  BY <1>1, ProcessFacts DEF Process
<1>. QED BY <1>1, <1>4, <1>6, <1>7, <1>8, <1>10, <1>11, ScannerStep DEF SavingStdio

LEMMA StdioInsertStep == ASSUME IInv, NEW s \in Scanner, StdioInsert(s) PROVE IInv'
<1>1. CASE WriteBusy(s)
  BY <1>1, StdioInsertFails DEF StdioInsert
<1>2. CASE ~ WriteBusy(s)
  BY <1>2, StdioInsertDoes DEF StdioInsert
<1>. QED BY <1>1, <1>2

\* What either outcome of the second commit leaves for s.
LEMMA StdioCommitFacts ==
  ASSUME IInv, NEW s \in Scanner, StdioCommit(s)
  PROVE  /\ s \in Process /\ pc' = [pc EXCEPT ![s] = "done"] /\ pc'[s] = "done"
         /\ SavingStdioInv(s) /\ s \in Range(scans) /\ todo[s] = {} /\ todo'[s] = {}
         /\ StepOf(s) /\ SchemaWhole' /\ LockInv'
         /\ tx' \in [Process -> Seq(ServerRow \cup ConfigRow)]
         /\ UNCHANGED <<obs, id, todo, status, stdioStatus, schema, scans, http>>
<1>1. /\ s \in Process /\ pc[s] = "stdioCommit" /\ Released(s)
      /\ pc' = [pc EXCEPT ![s] = "done"] /\ pc'[s] = "done"
      /\ tx' = [tx EXCEPT ![s] = << >>]
      /\ SavingStdioInv(s) /\ s \in Range(scans) /\ todo[s] = {} /\ todo'[s] = {}
      /\ UNCHANGED <<obs, id, todo, status, stdioStatus, schema, scans, http>>
  BY ProcessFacts DEF StdioCommit, Goto, IInv, Typing, ScannerInv, SavingStdio, SavingStdioInv
<1>2. StepOf(s)
  BY <1>1 DEF StepOf, Same, IInv, Typing
<1>3. SchemaWhole'
  BY <1>1, <1>2, ProcessFacts DEF SchemaWhole, IInv, StepOf, Same
<1>4. LockInv'
  BY <1>1, <1>2, ReleasedLockInv DEF Final
<1>5. tx' \in [Process -> Seq(ServerRow \cup ConfigRow)]
  <2>1. << >> \in Seq(ServerRow \cup ConfigRow)
    BY EmptySeq
  <2>. QED BY <1>1, <2>1 DEF IInv, Typing
<1>. QED BY <1>1, <1>2, <1>3, <1>4, <1>5

LEMMA StdioCommitFails ==
  ASSUME IInv, NEW s \in Scanner, StdioCommit(s), stdio' = stdio
  PROVE  IInv'
<1>1. /\ s \in Process /\ pc' = [pc EXCEPT ![s] = "done"] /\ pc'[s] = "done"
      /\ s \in Range(scans) /\ todo'[s] = {}
      /\ StepOf(s) /\ SchemaWhole' /\ LockInv' /\ SameRows /\ Released(s)
      /\ tx' \in [Process -> Seq(ServerRow \cup ConfigRow)]
      /\ UNCHANGED <<obs, id, todo, status, stdioStatus, schema, scans, http>>
  BY StdioCommitFacts DEF SameRows, StdioCommit
<1>2. Typing'
  <2>1. "done" \in ScannerPC
    BY DEF ScannerPC, Final
  <2>. QED BY <1>1, <2>1, PcTyping, ProcessFacts DEF IInv, Typing, SameRows
<1>3. ScannerInv(s)'
  BY <1>1 DEF ScannerInv, Saving, SavingStdio, SavedScan
<1>. QED BY <1>1, <1>2, <1>3, ReleasedOthers, ScannerStep DEF Final

LEMMA StdioCommitSucceeds ==
  ASSUME IInv, NEW s \in Scanner, StdioCommit(s), readers \ {s} = {},
         stdio' = stdio \o tx[s]
  PROVE  IInv'
<1>1. /\ s \in Process /\ pc' = [pc EXCEPT ![s] = "done"] /\ pc'[s] = "done"
      /\ SavingStdioInv(s) /\ s \in Range(scans) /\ todo[s] = {} /\ todo'[s] = {}
      /\ StepOf(s) /\ SchemaWhole' /\ LockInv'
      /\ tx' \in [Process -> Seq(ServerRow \cup ConfigRow)]
      /\ UNCHANGED <<obs, id, todo, status, stdioStatus, schema, scans, http>>
  BY StdioCommitFacts
<1>2. /\ stdio \in Seq(ConfigRow) /\ tx[s] \in Seq(ConfigRow)
      /\ \A m \in DOMAIN tx[s] : tx[s][m].scan = id[s]
      /\ ConfigRows(tx[s], DOMAIN tx[s], obs[s], Configs(obs[s]))
      /\ RowsOf(stdio, id[s]) = {}
      /\ id[s] \in Nat
  BY <1>1 DEF SavingStdioInv, IInv, Typing
<1>3. id[s] \in DOMAIN scans /\ scans[id[s]] = s
      /\ \A n \in DOMAIN scans : n \in Nat /\ id[scans[n]] = n
  BY <1>1, LenProperties DEF Range, IInv, FileInv, HistoryInOrder, Typing
<1>4. \A n \in DOMAIN scans : n # id[s] => RowsOf(stdio', n) = RowsOf(stdio, n)
  <2> SUFFICES ASSUME NEW n \in DOMAIN scans, n # id[s]
               PROVE  RowsOf(stdio \o tx[s], n) = RowsOf(stdio, n)
    OBVIOUS
  <2>1. n \in Nat /\ id[s] \in Nat
        /\ stdio \in Seq(ConfigRow) /\ tx[s] \in Seq(ConfigRow)
        /\ \A m \in DOMAIN tx[s] : tx[s][m].scan = id[s]
    BY <1>2, <1>3
  <2>. QED BY <2>1, RowsKept
<1>5. \A m \in DOMAIN stdio : m \in DOMAIN stdio' /\ stdio'[m] = stdio[m]
  BY <1>2, Joined
<1>6. Typing'
  <2>1. "done" \in ScannerPC
    BY DEF ScannerPC, Final
  <2>2. stdio' \in Seq(ConfigRow)
    BY <1>2, Joined
  <2>. QED BY <1>1, <2>1, <2>2, PcTyping, ProcessFacts DEF IInv, Typing
<1>7. SavedWhole'
  <2>1. ASSUME NEW n \in DOMAIN scans, n # id[s], RowsOf(stdio', n) # {}
        PROVE  ConfigRows(stdio', RowsOf(stdio', n), obs[scans[n]], Configs(obs[scans[n]]))
    <3>1. RowsOf(stdio', n) = RowsOf(stdio, n) /\ RowsOf(stdio, n) # {}
      BY <1>4, <2>1
    <3>3. ConfigRows(stdio, RowsOf(stdio, n), obs[scans[n]], Configs(obs[scans[n]]))
      BY <3>1 DEF IInv, FileInv, SavedWhole
    <3>2. \A k \in RowsOf(stdio, n) : stdio'[k] = stdio[k]
      BY <1>5 DEF RowsOf
    <3>. QED BY <3>1, <3>2, <3>3, SameConfigRows
  <2>2. ConfigRows(stdio', RowsOf(stdio', id[s]), obs[s], Configs(obs[s]))
    BY <1>2, ConfigsJoined
  <2>. QED BY <1>1, <1>3, <2>1, <2>2 DEF SavedWhole, IInv, FileInv
<1>8. HistoryInOrder'
  <2>1. \A m \in DOMAIN stdio' : stdio'[m].scan \in DOMAIN scans
    <3>1. \A m \in DOMAIN stdio : stdio[m].scan \in DOMAIN scans
      BY DEF IInv, FileInv, HistoryInOrder
    <3>2. ASSUME NEW m \in DOMAIN stdio', m \notin DOMAIN stdio
          PROVE  stdio'[m].scan = id[s]
      BY <1>2, <3>2, Joined
    <3>. QED BY <1>3, <1>5, <3>1, <3>2
  <2>. QED BY <1>1, <2>1 DEF HistoryInOrder, IInv, FileInv
<1>9. \A n \in DOMAIN scans : pc'[scans[n]] \in SavingStdio \cup Final
  <2>1. \A n \in DOMAIN scans : scans[n] \in Process
    BY ProcessFacts DEF IInv, Typing
  <2>. QED BY <1>1, <2>1 DEF IInv, FileInv, Typing, Final
<1>10. FileInv'
  BY <1>1, <1>7, <1>8, <1>9 DEF FileInv, IInv
<1>11. ASSUME NEW y \in Scanner PROVE ScannerInv(y)'
  <2>1. CASE y = s
    BY <1>1, <2>1 DEF ScannerInv, Saving, SavingStdio, SavedScan
  <2>2. CASE y # s
    <3>1. y \in Process /\ Same(y) /\ ScannerInv(y)
      BY <1>1, <2>2, ProcessFacts DEF StepOf, IInv
    <3>2. lock = y => lock' = y
      BY <2>2 DEF StdioCommit, Released
    <3>3. SavingInv(y) => SavingInv(y)'
      BY <1>1, <3>1, <3>2 DEF SavingInv, Same
    <3>4. SavingStdioInv(y) => SavingStdioInv(y)'
      <4> SUFFICES ASSUME SavingStdioInv(y) PROVE SavingStdioInv(y)'
        OBVIOUS
      <4>1. id[y] \in DOMAIN scans /\ id[y] # id[s]
        BY <1>3, <2>2 DEF SavingStdioInv, Range
      <4>2. RowsOf(stdio', id[y]) = {}
        BY <1>4, <4>1 DEF SavingStdioInv
      <4>. QED BY <1>1, <3>1, <3>2, <4>2 DEF SavingStdioInv, Same
    <3>. QED BY <1>1, <3>1, <3>3, <3>4 DEF ScannerInv, SavedScan, Same
  <2>. QED BY <2>1, <2>2
<1>12. Kept
  BY <1>1 DEF Kept
<1>13. ASSUME NEW r \in Reporter PROVE ReporterInv(r)'
  <2>1. r \in Process \ {s} /\ Same(r) /\ r \notin readers
    BY <1>1, ProcessFacts DEF StepOf
  <2>. QED BY <1>12, <2>1, ReporterFrame DEF IInv
<1>. QED BY <1>1, <1>6, <1>10, <1>11, <1>13 DEF IInv

LEMMA StdioCommitStep == ASSUME IInv, NEW s \in Scanner, StdioCommit(s) PROVE IInv'
<1>1. CASE readers \ {s} # {}
  BY <1>1, StdioCommitFails DEF StdioCommit
<1>2. CASE readers \ {s} = {}
  BY <1>2, StdioCommitSucceeds DEF StdioCommit
<1>. QED BY <1>1, <1>2

LEMMA KillStep == ASSUME IInv, NEW s \in Scanner, Kill(s) PROVE IInv'
<1>1. /\ s \in Process /\ SameRows /\ Released(s) /\ UNCHANGED file
      /\ pc' = [pc EXCEPT ![s] = "failed"] /\ pc'[s] = "failed"
  BY ProcessFacts DEF Kill, Goto, SameRows, file, IInv, Typing
<1>2. /\ StepOf(s) /\ todo'[s] = {}
      /\ s \in Range(scans) => id'[s] = id[s] /\ obs'[s] = obs[s] /\ status'[s] = status[s]
  BY <1>1, LostTyping DEF Kill, StepOf, Same, IInv, Typing, Lost
<1>3. Typing'
  <2>1. "failed" \in ScannerPC
    BY DEF ScannerPC, Final
  <2>2. CASE s \in Range(scans)
    <3>1. << >> \in Seq(ServerRow \cup ConfigRow)
      BY EmptySeq
    <3>2. /\ todo' \in [Process -> SUBSET (Endpoint \cup Config \cup Nat)]
          /\ tx' \in [Process -> Seq(ServerRow \cup ConfigRow)]
          /\ stdioStatus' \in [Process -> [Config -> Verdict]]
          /\ UNCHANGED <<obs, id, status>>
      <4>1. /\ todo' = [todo EXCEPT ![s] = {}]
            /\ tx' = [tx EXCEPT ![s] = << >>]
            /\ stdioStatus' = [stdioStatus EXCEPT ![s] = [c \in Config |-> Absent]]
            /\ UNCHANGED <<obs, id, status>>
        BY <2>2 DEF Kill, Nothing
      <4>2. [c \in Config |-> Absent] \in [Config -> Verdict]
        BY DEF Verdict
      <4>. QED BY <3>1, <4>1, <4>2 DEF IInv, Typing
    <3>. QED BY <1>1, <2>1, <3>2, PcTyping, ProcessFacts DEF IInv, Typing, file
  <2>3. CASE s \notin Range(scans)
    <3>1. Lost(s)
      BY <2>3 DEF Kill
    <3>. QED BY <1>1, <2>1, <3>1, PcTyping, LostTyping, ProcessFacts DEF IInv, Typing, file
  <2>. QED BY <2>2, <2>3
<1>4. SchemaWhole'
  BY <1>1, <1>2, ProcessFacts DEF SchemaWhole, IInv, StepOf, Same, file
<1>5. LockInv'
  BY <1>1, <1>2, ReleasedLockInv DEF Final
<1>6. ScannerInv(s)'
  BY <1>1, <1>2 DEF ScannerInv, Saving, SavingStdio
<1>. QED BY <1>1, <1>2, <1>3, <1>4, <1>5, <1>6, ReleasedOthers, ScannerStep DEF Final
-----------------------------------------------------------------------------
(* Reports. *)

LEMMA LastScanStep == ASSUME IInv, NEW r \in Reporter, LastScan(r) PROVE IInv'
<1>1. /\ r \in Process /\ pc[r] = "report" /\ pc'[r] \in {"failed", "query"}
      /\ pc' = [pc EXCEPT ![r] = pc'[r]]
      /\ UNCHANGED <<obs, todo, tx, status, stdioStatus, file, locks>>
      /\ \/ pc'[r] = "failed" /\ id' = id
         \/ /\ pc'[r] = "query" /\ scans # << >>
            /\ id' = [id EXCEPT ![r] = Len(scans)] /\ id'[r] = Len(scans)
  BY ProcessFacts DEF LastScan, Goto, IInv, Typing
<1>2. StepOf(r)
  BY <1>1 DEF StepOf, Same, IInv, Typing
<1>3. Len(scans) \in Nat /\ (scans # << >> => Len(scans) \in DOMAIN scans)
  BY LenProperties, EmptySeq DEF IInv, Typing
<1>4. Typing'
  <2>1. pc'[r] \in ReporterPC
    BY <1>1 DEF ReporterPC, Final
  <2>2. id' \in [Process -> Nat]
    BY <1>1, <1>3 DEF IInv, Typing
  <2>. QED BY <1>1, <2>1, <2>2, PcTyping, ProcessFacts DEF IInv, Typing, file
<1>5. LockInv'
  BY <1>1, <1>2, ProcessFacts DEF IInv, LockInv, StepOf, Same, locks, Saving, SavingStdio
<1>6. ReporterInv(r)'
  BY <1>1, <1>3 DEF IInv, ReporterInv, file
<1>. QED BY <1>1, <1>2, <1>4, <1>5, <1>6, ReporterStep DEF locks

LEMMA QueryServersStep == ASSUME IInv, NEW r \in Reporter, QueryServers(r) PROVE IInv'
<1>1. /\ r \in Process /\ pc[r] = "query"
      /\ UNCHANGED <<obs, id, tx, status, stdioStatus, file, lock, pending>>
      /\ pc' = [pc EXCEPT ![r] = pc'[r]]
      /\ \/ pc'[r] = "failed" /\ UNCHANGED <<todo, readers>>
         \/ /\ pc'[r] = "rows" /\ readers' = readers \cup {r}
            /\ todo' = [todo EXCEPT ![r] = RowsOf(http, id[r])]
            /\ todo'[r] = RowsOf(http, id[r])
  BY ProcessFacts DEF QueryServers, Goto, IInv, Typing
<1>2. StepOf(r)
  BY <1>1 DEF StepOf, Same, IInv, Typing
<1>3. Typing'
  <2>1. pc'[r] \in ReporterPC
    BY <1>1 DEF ReporterPC, Final
  <2>2. RowsOf(http, id[r]) \subseteq Nat
    BY LenProperties DEF RowsOf, IInv, Typing
  <2>3. todo' \in [Process -> SUBSET (Endpoint \cup Config \cup Nat)]
    BY <1>1, <2>2 DEF IInv, Typing
  <2>. QED BY <1>1, <2>1, <2>3, PcTyping, ProcessFacts DEF IInv, Typing, file
<1>4. LockInv'
  BY <1>1, <1>2, ProcessFacts DEF IInv, LockInv, StepOf, Same, Saving, SavingStdio
<1>5. ReporterInv(r)'
  BY <1>1 DEF IInv, ReporterInv, file
<1>. QED BY <1>1, <1>2, <1>3, <1>4, <1>5, ReporterStep

\* The row a report takes next is one of those still to be read.
LEMMA NextRowExists ==
  ASSUME Typing, NEW r \in Process, todo[r] \in SUBSET DOMAIN http \/ todo[r] \in SUBSET DOMAIN stdio,
         todo[r] # {}
  PROVE  NextRow(r) \in todo[r]
<1>1. todo[r] \in SUBSET Nat
  BY LenProperties DEF Typing
<1>2. PICK m \in todo[r] : TRUE
  OBVIOUS
<1> DEFINE Lower == {u \in 1 .. m + 1 : \A k \in todo[r] : u <= k + 1}
<1>3. m \in Nat /\ 1 \in Lower /\ Lower \in SUBSET (1 .. m + 1) /\ m + 1 \in Nat
  BY <1>1, <1>2
<1>4. PICK u \in Lower : \A v \in Lower : v <= u
  BY <1>3, Greatest
<1>5. u + 1 \notin Lower /\ u \in Nat /\ u >= 1 /\ u <= m + 1
  BY <1>3, <1>4
<1>6. PICK k \in todo[r] : k + 1 < u + 1 \/ u + 1 > m + 1
  BY <1>1, <1>5
<1>7. \A j \in todo[r] : u <= j + 1
  BY <1>4
<1>8. u - 1 \in todo[r]
  BY <1>1, <1>2, <1>5, <1>6, <1>7
<1>9. \E n \in todo[r] : \A j \in todo[r] : n <= j
  BY <1>1, <1>5, <1>7, <1>8
<1>. QED BY <1>9 DEF NextRow

LEMMA VerdictFacts ==
  ASSUME NEW rows, NEW row, NEW e, NEW n
  PROVE  /\ HttpVerdict(rows, row, e, n) \in Verdict \ {Absent}
         /\ \A hash, c : StdioVerdict(rows, hash, c, n) \in Verdict \ {Absent}
         /\ row.hash = Empty => HttpVerdict(rows, row, e, n) = "not evaluated"
BY AbsentAssumption DEF HttpVerdict, StdioVerdict, Verdict

LEMMA VerdictOfRow ==
  ASSUME NEW rows, NEW row, NEW found, NEW e, NEW n,
         row.name = found.name, row.hash = found.hash
  PROVE  HttpVerdict(rows, row, e, n) = HttpVerdict(rows, found, e, n)
BY DEF HttpVerdict

LEMMA ReadServerStep == ASSUME IInv, NEW r \in Reporter, ReadServer(r) PROVE IInv'
<1> DEFINE m == NextRow(r)
           e == http[m].ep
           verdict == IF ReadBusy(r) /\ http[m].hash # Empty THEN "new"
                      ELSE HttpVerdict(http, http[m], e, id[r])
           s == scans[id[r]]
<1>1. /\ r \in Process /\ pc[r] = "rows" /\ todo[r] # {}
      /\ UNCHANGED <<pc, obs, id, tx, stdioStatus, file, locks>>
      /\ status' = [status EXCEPT ![r][e] = verdict]
      /\ todo' = [todo EXCEPT ![r] = todo[r] \ {m}]
  BY ProcessFacts DEF ReadServer, IInv, Typing
<1>2. /\ todo[r] \subseteq RowsOf(http, id[r])
      /\ r \in readers /\ id[r] \in DOMAIN scans
      /\ \A d \in Endpoint : status[r][d] \in {Absent, "new", status[s][d]}
      /\ {d \in Endpoint : status[r][d] # Absent}
           = {http[k].ep : k \in RowsOf(http, id[r]) \ todo[r]}
  BY <1>1 DEF IInv, ReporterInv
<1>3. m \in todo[r] /\ m \in RowsOf(http, id[r]) /\ m \in DOMAIN http
  BY <1>1, <1>2, NextRowExists DEF RowsOf, IInv
<1>4. e \in Endpoint /\ http[m] \in ServerRow
  <2> HIDE DEF m
  <2>1. http \in Seq(ServerRow) /\ DOMAIN http = 1 .. Len(http)
    BY LenProperties DEF IInv, Typing
  <2>2. http[m] \in ServerRow
    BY <1>3, <2>1, ElementOfSeq
  <2>. QED BY <2>2 DEF ServerRow
<1>5. /\ e \in Found(obs[s]) /\ http[m].name = obs[s].http[e].name
      /\ http[m].hash = obs[s].http[e].hash
      /\ status[s][e] = HttpVerdict(http, obs[s].http[e], e, id[r])
  <2>1. ServerRows(http, RowsOf(http, id[r]), obs[s], Found(obs[s]))
    BY <1>2 DEF IInv, FileInv, SavedWhole
  <2>2. /\ e \in Found(obs[s]) /\ http[m].name = obs[s].http[e].name
        /\ http[m].hash = obs[s].http[e].hash
    BY <1>3, <2>1 DEF ServerRows
  <2>. QED BY <1>2, <1>4, <2>2 DEF IInv, FileInv
<1>6. verdict \in {"new", status[s][e]} /\ verdict \in Verdict \ {Absent}
  <2>1. HttpVerdict(http, http[m], e, id[r]) = status[s][e]
    BY <1>5, VerdictOfRow
  <2>. QED BY <2>1, VerdictFacts, AbsentAssumption DEF Verdict
<1> HIDE DEF e, verdict, m
<1>7. StepOf(r)
  BY <1>1 DEF StepOf, Same, IInv, Typing
<1>8. /\ todo'[r] = todo[r] \ {m}
      /\ status'[r] = [status[r] EXCEPT ![e] = verdict]
  BY <1>1 DEF IInv, Typing
<1>9. Typing'
  <2>1. /\ todo' \in [Process -> SUBSET (Endpoint \cup Config \cup Nat)]
        /\ status' \in [Process -> [Endpoint -> Verdict]]
    BY <1>1, <1>4, <1>6 DEF IInv, Typing
  <2>. QED BY <1>1, <2>1 DEF IInv, Typing, file
<1>10. LockInv'
  BY <1>1 DEF IInv, LockInv, locks
<1>11. ReporterInv(r)'
  <2>1. \A d \in Endpoint : status'[r][d] = IF d = e THEN verdict ELSE status[r][d]
    BY <1>1, <1>4, <1>8 DEF IInv, Typing
  <2>2. s \in Process /\ s # r /\ status'[s] = status[s]
    BY <1>1, <1>2, ProcessFacts DEF IInv, Typing
  <2>3. \A d \in Endpoint : status'[r][d] \in {Absent, "new", status'[s][d]}
    BY <1>2, <1>6, <2>1, <2>2
  <2>4. RowsOf(http, id[r]) \ todo'[r] = (RowsOf(http, id[r]) \ todo[r]) \cup {m}
    BY <1>3, <1>8
  <2>5. {d \in Endpoint : status'[r][d] # Absent}
          = {d \in Endpoint : status[r][d] # Absent} \cup {e}
    BY <1>4, <1>6, <2>1
  <2>6. {http[k].ep : k \in RowsOf(http, id[r]) \ todo'[r]}
          = {http[k].ep : k \in RowsOf(http, id[r]) \ todo[r]} \cup {e}
    BY <2>4 DEF e
  <2>7. {c \in Config : stdioStatus[r][c] # Absent} = {}
    BY <1>1 DEF IInv, ReporterInv
  <2>8. /\ http' = http /\ stdio' = stdio /\ scans' = scans /\ readers' = readers
        /\ id'[r] = id[r] /\ pc'[r] = "rows" /\ stdioStatus'[r] = stdioStatus[r]
        /\ todo'[r] \subseteq RowsOf(http, id[r])
    BY <1>1, <1>2, <1>8 DEF file, locks
  <2>9. {d \in Endpoint : status'[r][d] # Absent}
          = {http[k].ep : k \in RowsOf(http, id[r]) \ todo'[r]}
    BY <1>2, <2>5, <2>6
  <2> HIDE DEF s
  <2>. QED BY <1>2, <2>3, <2>7, <2>8, <2>9 DEF ReporterInv, s
<1>. QED BY <1>1, <1>7, <1>9, <1>10, <1>11, ReporterStep DEF locks

LEMMA CloseServersStep == ASSUME IInv, NEW r \in Reporter, CloseServers(r) PROVE IInv'
<1>1. /\ r \in Process /\ pc[r] = "rows" /\ todo[r] = {} /\ Released(r)
      /\ pc' = [pc EXCEPT ![r] = "reportStdio"] /\ pc'[r] = "reportStdio"
      /\ UNCHANGED <<obs, id, todo, tx, status, stdioStatus, file>>
  BY ProcessFacts DEF CloseServers, Goto, IInv, Typing
<1>2. StepOf(r)
  BY <1>1 DEF StepOf, Same, IInv, Typing
<1>3. Typing'
  <2>1. "reportStdio" \in ReporterPC
    BY DEF ReporterPC
  <2>. QED BY <1>1, <2>1, PcTyping, ProcessFacts DEF IInv, Typing, file
<1>4. lock # r /\ lock' = lock /\ (pending' <=> pending) /\ readers' = readers \ {r}
  <2>1. lock # r
    BY ProcessFacts DEF IInv, LockInv
  <2>. QED BY <1>1, <2>1 DEF Released
<1>5. LockInv'
  BY <1>1, <1>2, <1>4, ProcessFacts DEF IInv, LockInv, StepOf, Same, Saving, SavingStdio
<1>6. {http[k].ep : k \in RowsOf(http, id[r])} = Found(obs[scans[id[r]]])
  <2>1. ServerRows(http, RowsOf(http, id[r]), obs[scans[id[r]]], Found(obs[scans[id[r]]]))
    BY <1>1 DEF IInv, FileInv, SavedWhole, ReporterInv
  <2>. QED BY <2>1 DEF ServerRows
<1>7. {d \in Endpoint : status[r][d] # Absent} = Found(obs[scans[id[r]]])
  BY <1>1, <1>6 DEF IInv, ReporterInv
<1>8. ReporterInv(r)'
  BY <1>1, <1>7 DEF IInv, ReporterInv, file
<1>. QED BY <1>1, <1>2, <1>3, <1>4, <1>5, <1>8, ReleasedOthers, ReporterStep

LEMMA QueryStdioStep == ASSUME IInv, NEW r \in Reporter, QueryStdio(r) PROVE IInv'
<1>1. /\ r \in Process /\ pc[r] = "reportStdio"
      /\ UNCHANGED <<obs, id, tx, status, stdioStatus, file, lock, pending>>
      /\ pc' = [pc EXCEPT ![r] = pc'[r]]
      /\ \/ pc'[r] = "done" /\ UNCHANGED <<todo, readers>>
         \/ /\ pc'[r] = "stdioRows" /\ readers' = readers \cup {r}
            /\ todo' = [todo EXCEPT ![r] = RowsOf(stdio, id[r])]
            /\ todo'[r] = RowsOf(stdio, id[r])
  BY ProcessFacts DEF QueryStdio, Goto, IInv, Typing
<1>2. StepOf(r)
  BY <1>1 DEF StepOf, Same, IInv, Typing
<1>3. Typing'
  <2>1. pc'[r] \in ReporterPC
    BY <1>1 DEF ReporterPC, Final
  <2>2. RowsOf(stdio, id[r]) \subseteq Nat
    BY LenProperties DEF RowsOf, IInv, Typing
  <2>3. todo' \in [Process -> SUBSET (Endpoint \cup Config \cup Nat)]
    BY <1>1, <2>2 DEF IInv, Typing
  <2>. QED BY <1>1, <2>1, <2>3, PcTyping, ProcessFacts DEF IInv, Typing, file
<1>4. LockInv'
  BY <1>1, <1>2, ProcessFacts DEF IInv, LockInv, StepOf, Same, Saving, SavingStdio
<1>5. ReporterInv(r)'
  BY <1>1 DEF IInv, ReporterInv, file
<1>. QED BY <1>1, <1>2, <1>3, <1>4, <1>5, ReporterStep

LEMMA ReadStdioStep == ASSUME IInv, NEW r \in Reporter, ReadStdio(r) PROVE IInv'
<1> DEFINE m == NextRow(r)
           c == stdio[m].cfg
           verdict == IF ReadBusy(r) THEN "new"
                      ELSE StdioVerdict(stdio, stdio[m].hash, c, id[r])
<1>1. /\ r \in Process /\ pc[r] = "stdioRows" /\ todo[r] # {}
      /\ UNCHANGED <<pc, obs, id, tx, status, file, locks>>
      /\ stdioStatus' = [stdioStatus EXCEPT ![r][c] = verdict]
      /\ todo' = [todo EXCEPT ![r] = todo[r] \ {m}]
  BY ProcessFacts DEF ReadStdio, IInv, Typing
<1>2. /\ todo[r] \subseteq RowsOf(stdio, id[r])
      /\ {d \in Config : stdioStatus[r][d] # Absent}
           = {stdio[k].cfg : k \in RowsOf(stdio, id[r]) \ todo[r]}
  BY <1>1 DEF IInv, ReporterInv
<1>3. m \in todo[r] /\ m \in RowsOf(stdio, id[r]) /\ m \in DOMAIN stdio
  BY <1>1, <1>2, NextRowExists DEF RowsOf, IInv
<1>4. c \in Config
  <2> HIDE DEF m
  <2>1. stdio \in Seq(ConfigRow) /\ DOMAIN stdio = 1 .. Len(stdio)
    BY LenProperties DEF IInv, Typing
  <2>2. stdio[m] \in ConfigRow
    BY <1>3, <2>1, ElementOfSeq
  <2>. QED BY <2>2 DEF ConfigRow
<1>5. verdict \in Verdict \ {Absent}
  BY AbsentAssumption DEF StdioVerdict, Verdict
<1> HIDE DEF c, verdict, m
<1>6. StepOf(r)
  BY <1>1 DEF StepOf, Same, IInv, Typing
<1>7. /\ todo'[r] = todo[r] \ {m}
      /\ stdioStatus'[r] = [stdioStatus[r] EXCEPT ![c] = verdict]
  BY <1>1 DEF IInv, Typing
<1>8. Typing'
  <2>1. /\ todo' \in [Process -> SUBSET (Endpoint \cup Config \cup Nat)]
        /\ stdioStatus' \in [Process -> [Config -> Verdict]]
    BY <1>1, <1>4, <1>5 DEF IInv, Typing
  <2>. QED BY <1>1, <2>1 DEF IInv, Typing, file
<1>9. LockInv'
  BY <1>1 DEF IInv, LockInv, locks
<1>10. ReporterInv(r)'
  <2>1. \A d \in Config : stdioStatus'[r][d] = IF d = c THEN verdict ELSE stdioStatus[r][d]
    BY <1>1, <1>4, <1>7 DEF IInv, Typing
  <2>2. RowsOf(stdio, id[r]) \ todo'[r] = (RowsOf(stdio, id[r]) \ todo[r]) \cup {m}
    BY <1>3, <1>7
  <2>3. {d \in Config : stdioStatus'[r][d] # Absent}
          = {d \in Config : stdioStatus[r][d] # Absent} \cup {c}
    BY <1>4, <1>5, <2>1
  <2>4. {stdio[k].cfg : k \in RowsOf(stdio, id[r]) \ todo'[r]}
          = {stdio[k].cfg : k \in RowsOf(stdio, id[r]) \ todo[r]} \cup {c}
    BY <2>2 DEF c
  <2>5. {d \in Config : stdioStatus'[r][d] # Absent}
          = {stdio[k].cfg : k \in RowsOf(stdio, id[r]) \ todo'[r]}
    BY <1>2, <2>3, <2>4
  <2>6. /\ UNCHANGED <<http, stdio, scans, readers, obs, status>>
        /\ id'[r] = id[r] /\ pc'[r] = "stdioRows"
        /\ todo'[r] \subseteq RowsOf(stdio, id[r])
    BY <1>1, <1>2, <1>7 DEF file, locks
  <2>. QED BY <1>1, <2>5, <2>6 DEF IInv, ReporterInv
<1>. QED BY <1>1, <1>6, <1>8, <1>9, <1>10, ReporterStep DEF locks

LEMMA CloseStdioStep == ASSUME IInv, NEW r \in Reporter, CloseStdio(r) PROVE IInv'
<1> DEFINE s == scans[id[r]]
<1>1. /\ r \in Process /\ pc[r] = "stdioRows" /\ todo[r] = {} /\ Released(r)
      /\ pc' = [pc EXCEPT ![r] = "done"] /\ pc'[r] = "done"
      /\ UNCHANGED <<obs, id, todo, tx, status, stdioStatus, file>>
  BY ProcessFacts DEF CloseStdio, Goto, IInv, Typing
<1>2. StepOf(r)
  BY <1>1 DEF StepOf, Same, IInv, Typing
<1>3. Typing'
  <2>1. "done" \in ReporterPC
    BY DEF ReporterPC, Final
  <2>. QED BY <1>1, <2>1, PcTyping, ProcessFacts DEF IInv, Typing, file
<1>4. lock # r /\ lock' = lock /\ (pending' <=> pending) /\ readers' = readers \ {r}
  <2>1. lock # r
    BY ProcessFacts DEF IInv, LockInv
  <2>. QED BY <1>1, <2>1 DEF Released
<1>5. LockInv'
  BY <1>1, <1>2, <1>4, ProcessFacts DEF IInv, LockInv, StepOf, Same, Saving, SavingStdio
<1>6. {stdio[k].cfg : k \in RowsOf(stdio, id[r])} \in {{}, Configs(obs[s])}
  <2>1. CASE RowsOf(stdio, id[r]) = {}
    BY <2>1
  <2>2. CASE RowsOf(stdio, id[r]) # {}
    <3>1. ConfigRows(stdio, RowsOf(stdio, id[r]), obs[s], Configs(obs[s]))
      BY <1>1, <2>2 DEF IInv, FileInv, SavedWhole, ReporterInv
    <3>. QED BY <3>1 DEF ConfigRows
  <2>. QED BY <2>1, <2>2
<1>7. {d \in Config : stdioStatus[r][d] # Absent} \in {{}, Configs(obs[s])}
  BY <1>1, <1>6 DEF IInv, ReporterInv
<1>8. ReporterInv(r)'
  BY <1>1, <1>7 DEF IInv, ReporterInv, file
<1>. QED BY <1>1, <1>2, <1>3, <1>4, <1>5, <1>8, ReleasedOthers, ReporterStep

LEMMA ScanStep == ASSUME IInv, NEW s \in Scanner, Scan(s) \/ Kill(s) PROVE IInv'
BY ProbeStep, InitSchemaStep, InsertScanStep, InsertServerStep, BeginCommitStep,
   CommitStep, StdioResolveStep, StdioInsertStep, StdioCommitStep, KillStep DEF Scan

LEMMA ReportStep == ASSUME IInv, NEW r \in Reporter, Report(r) PROVE IInv'
BY LastScanStep, QueryServersStep, ReadServerStep, CloseServersStep,
   QueryStdioStep, ReadStdioStep, CloseStdioStep DEF Report

LEMMA IdleStep == ASSUME IInv, UNCHANGED vars PROVE IInv'
<1>1. UNCHANGED <<pc, obs, id, todo, tx, status, stdioStatus,
                  schema, scans, http, stdio, lock, pending, readers>>
  BY DEF vars, proc, file, locks
<1>2. Typing' /\ SchemaWhole' /\ LockInv'
  BY <1>1 DEF IInv, Typing, SchemaWhole, LockInv
<1>3. FileInv'
  BY <1>1 DEF IInv, FileInv, SavedWhole, HistoryInOrder
<1>4. ASSUME NEW s \in Scanner PROVE ScannerInv(s)'
  BY <1>1, ScannerFrame DEF IInv, Same, SameRows
<1>5. Kept
  BY <1>1 DEF Kept
<1>6. ASSUME NEW r \in Reporter PROVE ReporterInv(r)'
  BY <1>1, <1>5, ReporterFrame DEF IInv, Same
<1>. QED BY <1>2, <1>3, <1>4, <1>6 DEF IInv

LEMMA NextStep == ASSUME IInv, [Next]_vars PROVE IInv'
<1>1. CASE \E s \in Scanner : Scan(s) \/ Kill(s)
  BY <1>1, ScanStep
<1>2. CASE \E r \in Reporter : Report(r)
  BY <1>2, ReportStep
<1>3. CASE UNCHANGED vars
  BY <1>3, IdleStep
<1>. QED BY <1>1, <1>2, <1>3 DEF Next, Finished

\* The inductive invariant: what the file holds, what each process holds of it
\* and where the locks are, at every step of every interleaving.
THEOREM Invariance == Spec => []IInv
<1>1. IInv /\ [Next]_vars => IInv'
  BY NextStep
<1>. QED BY InitHolds, <1>1, PTL DEF Spec
-----------------------------------------------------------------------------
(* The properties. *)

\* Every variable keeps its type, and no process saves two scans
\* (sqlite.go:115-211).
THEOREM TypeCorrect == Spec => []TypeOK
<1>1. IInv => TypeOK
  <2> SUFFICES ASSUME IInv PROVE TypeOK
    OBVIOUS
  <2>1. /\ DOMAIN pc = Process /\ schema \in 0 .. Tables
        /\ \A x \in Process : /\ \A c \in Config : stdioStatus[x][c] \in Verdict
                              /\ \A e \in Endpoint : status[x][e] \in Verdict
    BY DEF IInv, Typing
  <2>2. \A s \in Scanner : todo[s] \subseteq Endpoint \cup Config
    BY DEF IInv, ScannerInv
  <2>3. \A r \in Reporter : todo[r] \subseteq DOMAIN http \cup DOMAIN stdio
    BY DEF IInv, ReporterInv, RowsOf
  <2>4. Range(scans) \subseteq Scanner
    BY DEF IInv, Typing, Range
  <2>5. IsInjective(scans)
    BY DEF IInv, FileInv, HistoryInOrder, IsInjective
  <2>6. /\ lock \in Process \cup {NoOne} /\ readers \subseteq Process
        /\ pending => lock # NoOne
    BY DEF IInv, LockInv, Process
  <2>. QED BY <2>1, <2>2, <2>3, <2>4, <2>5, <2>6 DEF TypeOK
<1>. QED BY <1>1, Invariance, PTL

\* Through crashes, busy locks and failed commits the file holds each scan
\* whole: all its servers, and all or none of its stdio servers
\* (sqlite.go:217-382).
THEOREM ScansWhole == Spec => []SavedWhole
<1>1. IInv => SavedWhole
  BY DEF IInv, FileInv
<1>. QED BY <1>1, Invariance, PTL

\* Rows belong to saved scans and follow each other in the order of the scans,
\* each of which has the ID its process was given (sqlite.go:134-158, 233-236).
THEOREM RowsInOrder == Spec => []HistoryInOrder
<1>1. IInv => HistoryInOrder
  BY DEF IInv, FileInv
<1>. QED BY <1>1, Invariance, PTL

\* A database somebody uses has all its tables, whoever created some of them
\* and died (sqlite.go:65-112).
THEOREM SchemaComplete == Spec => []SchemaWhole
<1>1. IInv => SchemaWhole
  BY DEF IInv
<1>. QED BY <1>1, Invariance, PTL

\* A report is of one saved scan whole, and raises no alarm and gives no
\* all-clear that this scan did not (sqlite.go:384-535, main.go:198-209).
THEOREM ReportsHonest == Spec => []ReportHonest
<1>1. IInv => ReportHonest
  <2> SUFFICES ASSUME IInv, NEW r \in Reporter, pc[r] = "done"
               PROVE  LET s == scans[id[r]]
                      IN /\ \A e \in Endpoint :
                              /\ status[r][e] = Absent <=> e \notin Found(obs[s])
                              /\ \/ status[r][e] \in {Absent, "new"}
                                 \/ status[r][e] = status[s][e]
                         /\ {c \in Config : stdioStatus[r][c] # Absent}
                              \in {{}, Configs(obs[s])}
    BY DEF ReportHonest
  <2>1. {e \in Endpoint : status[r][e] # Absent} = Found(obs[scans[id[r]]])
    BY DEF IInv, ReporterInv
  <2>2. \A e \in Endpoint : status[r][e] \in {Absent, "new", status[scans[id[r]]][e]}
    BY DEF IInv, ReporterInv
  <2>3. {c \in Config : stdioStatus[r][c] # Absent} \in {{}, Configs(obs[scans[id[r]]])}
    BY DEF IInv, ReporterInv
  <2>. QED BY <2>1, <2>2, <2>3
<1>. QED BY <1>1, Invariance, PTL

\* A scanner that exits without error has its scan in the file, and a process
\* that has ended holds no lock (main.go:169-172).
THEOREM ExitsSaved == Spec => []ExitMeansSaved
<1>1. IInv => ExitMeansSaved
  <2> SUFFICES ASSUME IInv PROVE ExitMeansSaved
    OBVIOUS
  <2>1. \A s \in Scanner : pc[s] = "done" => SavedScan(s)
    BY DEF IInv, ScannerInv
  <2>2. \A x \in Process : x # NoOne
    BY ProcessFacts DEF Process
  <2>3. \A x \in Process : pc[x] \in Final => lock # x /\ x \notin readers
    BY <2>2 DEF IInv, LockInv, Final, Saving, SavingStdio
  <2>. QED BY <2>1, <2>3 DEF ExitMeansSaved
<1>. QED BY <1>1, Invariance, PTL
-----------------------------------------------------------------------------
(* Store implements History. *)

LEMMA AppendedIs ==
  ASSUME NEW k \in Nat, NEW a, NEW b, NEW x,
         a = [n \in 1 .. k |-> a[n]], b = [n \in 1 .. k + 1 |-> b[n]],
         \A n \in 1 .. k : b[n] = a[n], b[k + 1] = x
  PROVE  b = Append(a, x)
<1> DEFINE S == {a[n] : n \in 1 .. k} \cup {x}
<1>1. x \in S /\ \A n \in 1 .. k : a[n] \in S /\ b[n] \in S
  OBVIOUS
<1> HIDE DEF S
<1>2. a \in [1 .. k -> S] /\ b \in [1 .. k + 1 -> S]
  <2>1. \A n \in 1 .. k + 1 : n \in 1 .. k \/ n = k + 1
    OBVIOUS
  <2>. QED BY <1>1, <2>1
<1>3. /\ a \in Seq(S) /\ Len(a) = k
      /\ b \in Seq(S) /\ Len(b) = k + 1
  BY <1>1, <1>2, FunctionIsSeq
<1>4. /\ Append(a, x) \in Seq(S) /\ Len(Append(a, x)) = k + 1
      /\ \A n \in 1 .. k : Append(a, x)[n] = a[n]
      /\ Append(a, x)[k + 1] = x
  BY <1>1, <1>3, AppendProperties
<1>5. ASSUME NEW n \in 1 .. k + 1 PROVE b[n] = Append(a, x)[n]
  <2>1. CASE n \in 1 .. k
    BY <2>1, <1>4
  <2>2. CASE n = k + 1
    BY <2>2, <1>4
  <2>. QED BY <2>1, <2>2
<1>. QED BY <1>3, <1>4, <1>5, SeqEqual

LEMMA LogKept ==
  ASSUME IInv, scans' = scans, NEW x,
         \A y \in Process \ {x} : obs'[y] = obs[y] /\ status'[y] = status[y],
         x \in Range(scans) => obs'[x] = obs[x] /\ status'[x] = status[x]
  PROVE  UNCHANGED SavedLog
<1>1. \A n \in DOMAIN scans : scans[n] \in Process /\ scans[n] \in Range(scans)
  BY ProcessFacts DEF IInv, Typing, Range
<1>2. \A n \in DOMAIN scans : /\ obs'[scans[n]] = obs[scans[n]]
                              /\ status'[scans[n]] = status[scans[n]]
  BY <1>1
<1>. QED BY <1>2 DEF SavedLog

\* A commit is a Record of the scanner's findings, and what it printed of them
\* is the verdict of the history before it.
LEMMA CommitRecords ==
  ASSUME IInv, NEW s, Committed(s)
  PROVE  Saved!HistNext
<1> DEFINE k == Len(scans)
           seen == obs[s].http
           new == [seen |-> seen, status |-> Saved!Verdicts(SavedLog, seen)]
<1>1. /\ s \in Process /\ SavingInv(s) /\ todo[s] = {} /\ id[s] = k + 1
      /\ k \in Nat /\ DOMAIN scans = 1 .. k /\ DOMAIN scans' = 1 .. k + 1
      /\ scans'[k + 1] = s /\ \A m \in DOMAIN scans : scans'[m] = scans[m]
      /\ obs' = obs /\ status' = status
  <2>1. obs' = obs /\ status' = status
    BY DEF Committed
  <2>2. k \in Nat
    BY LenProperties DEF IInv, Typing
  <2>3. DOMAIN scans' = 1 .. k + 1
    <3>1. DOMAIN scans = 1 .. k /\ DOMAIN scans' = DOMAIN scans \cup {k + 1}
      BY CommitFacts
    <3>. QED BY <2>2, <3>1
  <2>. QED BY <2>1, <2>2, <2>3, CommitFacts
<1>2. \A e \in Endpoint : status[s][e] = Saved!Verdicts(SavedLog, seen)[e]
  <2> SUFFICES ASSUME NEW e \in Endpoint
               PROVE  status[s][e] = IF seen[e] = Absent THEN Absent
                                     ELSE Saved!Verdict(SavedLog, e, seen[e])
    BY DEF Saved!Verdicts
  <2>1. HttpVerdict(http, seen[e], e, k + 1) = Saved!Verdict(SavedLog, e, seen[e])
    BY LogVerdict DEF IInv, FileInv
  <2>2. e \in Found(obs[s]) \ todo[s] <=> seen[e] # Absent
    BY <1>1 DEF Found
  <2>. QED BY <1>1, <2>1, <2>2 DEF SavingInv
<1>3. status[s] = Saved!Verdicts(SavedLog, seen)
  <2>1. status[s] = [e \in Endpoint |-> status[s][e]]
    BY <1>1 DEF IInv, Typing
  <2>. QED BY <1>2, <2>1 DEF Saved!Verdicts
<1>4. /\ SavedLog = [n \in 1 .. k |-> SavedLog[n]]
      /\ SavedLog' = [n \in 1 .. k + 1 |-> SavedLog'[n]]
      /\ \A n \in 1 .. k : SavedLog'[n] = SavedLog[n]
      /\ SavedLog'[k + 1] = new
  <2>1. /\ SavedLog = [n \in 1 .. k |-> [seen   |-> obs[scans[n]].http,
                                       status |-> status[scans[n]]]]
        /\ SavedLog' = [n \in 1 .. k + 1 |-> [seen   |-> obs[scans'[n]].http,
                                            status |-> status[scans'[n]]]]
    BY <1>1 DEF SavedLog
  <2>2. k + 1 \in 1 .. k + 1 /\ 1 .. k \subseteq 1 .. k + 1
    BY <1>1
  <2>3. \A n \in 1 .. k : scans'[n] = scans[n]
    BY <1>1
  <2> HIDE DEF k
  <2>4. SavedLog'[k + 1] = [seen |-> obs[s].http, status |-> status[s]]
    BY <2>1, <2>2, <1>1
  <2>5. \A n \in 1 .. k : SavedLog'[n] = SavedLog[n]
    BY <2>1, <2>2, <2>3
  <2>. QED BY <2>1, <2>4, <2>5, <1>3
<1> HIDE DEF k, new
<1>5. SavedLog' = Append(SavedLog, new)
  BY <1>1, <1>4, AppendedIs
<1>6. seen \in {o.http : o \in Observation}
  BY <1>1 DEF SavingInv
<1>. QED BY <1>5, <1>6 DEF Saved!HistNext, Saved!Record, new

\* With any number of scans racing for the file, failing and dying, what the
\* file holds is a History: a step adds one whole scan or none, and what the
\* scan printed is the truth about the scans before it (sqlite.go:217-307).
THEOREM RefinementCorrect == Spec => HistoryRefinement
<1>1. Init => Saved!HistInit
  <2> SUFFICES ASSUME Init PROVE SavedLog = << >>
    BY DEF Saved!HistInit
  <2>1. DOMAIN scans = {}
    BY DEF Init
  <2>. QED BY <2>1 DEF SavedLog
<1>2. IInv /\ [Next]_vars => [Saved!HistNext]_SavedLog
  <2> SUFFICES ASSUME IInv, [Next]_vars PROVE Saved!HistNext \/ UNCHANGED SavedLog
    OBVIOUS
  <2>1. ASSUME NEW s \in Scanner, Scan(s) \/ Kill(s)
        PROVE  Saved!HistNext \/ UNCHANGED SavedLog
    <3>1. s \in Process
      BY ProcessFacts
    <3>2. pc[s] \in {"probing", "schema", "save"} \cup Saving => s \notin Range(scans)
      BY DEF IInv, ScannerInv
    <3>3. CASE Commit(s)
      <4>1. CASE Committed(s)
        BY <4>1, CommitRecords
      <4>2. CASE Lost(s) /\ UNCHANGED scans
        <5>1. \A y \in Process \ {s} : obs'[y] = obs[y] /\ status'[y] = status[y]
          BY <4>2 DEF Lost, IInv, Typing
        <5>. QED BY <3>2, <3>3, <4>2, <5>1, LogKept DEF Commit, Saving
      <4>. QED BY <3>3, <4>1, <4>2, CommitCases
    <3>4. CASE Probe(s)
      <4>1. /\ scans' = scans /\ s \notin Range(scans)
            /\ \A y \in Process \ {s} : obs'[y] = obs[y] /\ status'[y] = status[y]
        BY <3>2, <3>4 DEF Probe, file, IInv, Typing
      <4>. QED BY <4>1, LogKept
    <3>5. CASE InitSchema(s)
      <4>1. /\ scans' = scans /\ s \notin Range(scans)
            /\ \A y \in Process \ {s} : obs'[y] = obs[y] /\ status'[y] = status[y]
        BY <3>2, <3>5 DEF InitSchema, Lost, IInv, Typing
      <4>. QED BY <4>1, LogKept
    <3>6. CASE InsertScan(s)
      <4>1. /\ scans' = scans /\ s \notin Range(scans)
            /\ \A y \in Process \ {s} : obs'[y] = obs[y] /\ status'[y] = status[y]
        BY <3>2, <3>6 DEF InsertScan, Lost, file, IInv, Typing
      <4>. QED BY <4>1, LogKept
    <3>7. CASE InsertServer(s)
      <4>1. /\ scans' = scans /\ s \notin Range(scans)
            /\ \A y \in Process \ {s} : obs'[y] = obs[y] /\ status'[y] = status[y]
        BY <3>2, <3>7 DEF InsertServer, file, Saving, IInv, Typing
      <4>. QED BY <4>1, LogKept
    <3>8. CASE BeginCommit(s) \/ StdioResolve(s) \/ StdioInsert(s) \/ StdioCommit(s)
      <4>1. scans' = scans /\ obs' = obs /\ status' = status
        BY <3>8 DEF BeginCommit, StdioResolve, StdioInsert, StdioCommit, file
      <4>. QED BY <4>1, LogKept
    <3>9. CASE Kill(s)
      <4>1. scans' = scans
        BY <3>9 DEF Kill, file
      <4>2. CASE s \in Range(scans)
        BY <3>9, <4>1, <4>2, LogKept DEF Kill
      <4>3. CASE s \notin Range(scans)
        <5>1. \A y \in Process \ {s} : obs'[y] = obs[y] /\ status'[y] = status[y]
          BY <3>9, <4>3 DEF Kill, Lost, IInv, Typing
        <5>. QED BY <4>1, <4>3, <5>1, LogKept
      <4>. QED BY <4>2, <4>3
    <3>. QED BY <2>1, <3>3, <3>4, <3>5, <3>6, <3>7, <3>8, <3>9 DEF Scan
  <2>2. ASSUME NEW r \in Reporter, Report(r) PROVE UNCHANGED SavedLog
    <3>1. scans' = scans /\ obs' = obs
      BY <2>2 DEF Report, LastScan, QueryServers, ReadServer, CloseServers,
                  QueryStdio, ReadStdio, CloseStdio, file
    <3>2. \A y \in Process \ {r} : status'[y] = status[y]
      BY <2>2 DEF Report, LastScan, QueryServers, ReadServer, CloseServers,
                  QueryStdio, ReadStdio, CloseStdio, IInv, Typing
    <3>3. r \notin Range(scans)
      BY ProcessFacts DEF Range, IInv, Typing
    <3>. QED BY <3>1, <3>2, <3>3, LogKept
  <2>3. CASE UNCHANGED vars
    BY <2>3 DEF vars, proc, file, SavedLog
  <2>. QED BY <2>1, <2>2, <2>3 DEF Next, Finished
<1>3. Saved!HistInit /\ [][Saved!HistNext]_SavedLog => HistoryRefinement
  BY DEF HistoryRefinement, Saved!HistSpec
<1>. QED BY <1>1, <1>2, <1>3, Invariance, PTL DEF Spec
=============================================================================
