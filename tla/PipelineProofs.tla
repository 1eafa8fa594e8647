--------------------------- MODULE PipelineProofs ---------------------------
(***************************************************************************)
(* Machine-checked proofs about Pipeline: for any endpoints, any tool      *)
(* lists, and any number of scans and reports, failed ones included, the   *)
(* properties of the printed pages that TLC checks on MCPipeline.          *)
(***************************************************************************)
EXTENDS Pipeline, CountingFacts, TLAPS

-----------------------------------------------------------------------------
(* The inductive invariant. *)

\* Every server that could be found, and what a scan may have heard.
Row == UNION {UNION {DiscoveredServer(e, f) : f \in Finding[e]} : e \in Endpoint}
Hearing == {h \in [Endpoint -> (UNION Range(Finding)) \cup {Absent}] :
              \A e \in Endpoint : h[e] = Absent \/ h[e] \in Finding[e]}
Pages == {Render(Resolve(h, rows)) : h \in Seq(Seq(Row)), rows \in Seq(Row)}

Typing ==
  /\ pc \in {"idle", "ports", "detect", "audit", "save", "render"}
  /\ runs \in 0 .. MaxRuns
  /\ dialed \subseteq Endpoint /\ answered \subseteq dialed
  /\ result \in Seq(answered)
  /\ servers \in Seq(Row) /\ heard \in Hearing
  /\ db \in Seq(Seq(Row)) /\ served \in Seq(Hearing) /\ printed \in Seq(Pages)
  /\ Len(served) = Len(db)
  /\ Len(printed) = IF pc = "render" THEN Len(db) - 1 ELSE Len(db)

\* Rows, one for each endpoint heard of, that say of it what was heard.
Kept(rows, h) ==
  /\ Shows(rows, h)
  /\ \A i \in DOMAIN rows : rows[i] \in DiscoveredServer(rows[i].ep, h[rows[i].ep])

PhaseInv ==
  /\ pc \in {"idle", "ports"} => status = "running" /\ result = << >>
  /\ pc = "detect" => ScanPorts!Lists(result, answered) /\ ScanPorts!Ordered(result)
  /\ pc \in {"audit", "save", "render"} => Kept(servers, heard)

FileInv == \A n \in DOMAIN db : Kept(db[n], served[n])

\* The scans before number n, and the page that scan n printed.
Prior(n) == SubSeq(db, 1, n - 1)
PageOf(n) == Render(Resolve(Prior(n), db[n]))

PageInv ==
  /\ \A n \in DOMAIN printed : printed[n] = PageOf(n)
  /\ pc = "render" => db # << >> /\ servers = Resolve(Prior(Len(db)), db[Len(db)])
  /\ page # Absent => pc = "idle" /\ db # << >> /\ page = PageOf(Len(db))

IInv == Typing /\ PhaseInv /\ FileInv /\ PageInv
-----------------------------------------------------------------------------
(* Rows and what is done to them. *)

LEMMA RowFacts ==
  ASSUME NEW e \in Endpoint, NEW f \in Finding[e], NEW row \in DiscoveredServer(e, f)
  PROVE  row \in Row /\ row.ep = e /\ row # Absent
<1>1. row \in Row
  BY DEF Row
<1>2. row.ep = e
  BY DEF DiscoveredServer
<1>3. Absent \notin DiscoveredServer(e, f)
  BY MissingAssumption
<1>4. row # Absent
  BY <1>3
<1>. QED BY <1>1, <1>2, <1>4

LEMMA RowOrigin ==
  ASSUME NEW row \in Row
  PROVE  \E f \in Finding[row.ep] : row.ep \in Endpoint /\ row \in DiscoveredServer(row.ep, f)
<1>1. PICK e \in Endpoint : \E f \in Finding[e] : row \in DiscoveredServer(e, f)
  BY DEF Row
<1>. QED BY <1>1 DEF DiscoveredServer

LEMMA VerdictType ==
  ASSUME NEW h, NEW e, NEW row
  PROVE  Storage!Verdict(h, e, row) \in {"not evaluated", "new", "replaced", "unchanged", "modified"}
BY DEF Storage!Verdict

\* The endpoints of rows that were kept are those heard of.
LEMMA KeptFacts ==
  ASSUME NEW h \in Hearing, NEW S, NEW rows \in Seq(S), Kept(rows, h)
  PROVE  /\ \A i \in DOMAIN rows : /\ rows[i].ep \in Endpoint
                                   /\ h[rows[i].ep] \in Finding[rows[i].ep]
                                   /\ rows[i] \in DiscoveredServer(rows[i].ep, h[rows[i].ep])
         /\ \A e \in Endpoint : h[e] # Absent => \E i \in DOMAIN rows : rows[i].ep = e
         /\ rows \in Seq(Row)
<1> DEFINE eps == [i \in DOMAIN rows |-> rows[i].ep]
<1>1. {eps[i] : i \in DOMAIN eps} = {e \in Endpoint : h[e] # Absent}
  BY DEF Kept, Shows, ScanPorts!Lists
<1>2. \A i \in DOMAIN rows : rows[i].ep \in {e \in Endpoint : h[e] # Absent}
  BY <1>1
<1>3. \A e \in Endpoint : h[e] # Absent => \E i \in DOMAIN rows : rows[i].ep = e
  BY <1>1
<1>4. \A i \in DOMAIN rows : /\ rows[i].ep \in Endpoint
                             /\ h[rows[i].ep] \in Finding[rows[i].ep]
                             /\ rows[i] \in DiscoveredServer(rows[i].ep, h[rows[i].ep])
  BY <1>2 DEF Hearing, Kept
<1>5. \A i \in DOMAIN rows : rows[i] \in Row
  BY <1>4, RowFacts
<1>6. rows \in Seq(Row)
  <2>1. Len(rows) \in Nat /\ DOMAIN rows = 1 .. Len(rows) /\ rows = [i \in 1 .. Len(rows) |-> rows[i]]
    BY LenProperties
  <2>2. rows \in [1 .. Len(rows) -> Row]
    BY <1>5, <2>1
  <2>. QED BY <2>1, <2>2, FunctionIsSeq
<1>. QED BY <1>3, <1>4, <1>6

\* The audit and the integrity check write to the rows, never over what
\* identifies them.
LEMMA KeptUpdate ==
  ASSUME NEW h, NEW rows, NEW new, Kept(rows, h), DOMAIN new = DOMAIN rows,
         \A i \in DOMAIN rows : /\ new[i].ep = rows[i].ep
                                /\ new[i] \in DiscoveredServer(rows[i].ep, h[rows[i].ep])
  PROVE  Kept(new, h)
<1>1. [i \in DOMAIN new |-> new[i].ep] = [i \in DOMAIN rows |-> rows[i].ep]
  OBVIOUS
<1>2. Shows(new, h)
  BY <1>1, Zenon DEF Kept, Shows
<1>. QED BY <1>2 DEF Kept

LEMMA ResolveFacts ==
  ASSUME NEW past, NEW rows \in Seq(Row)
  PROVE  /\ Resolve(past, rows) \in Seq(Row)
         /\ DOMAIN Resolve(past, rows) = DOMAIN rows
         /\ \A i \in DOMAIN rows :
              /\ Resolve(past, rows)[i].ep = rows[i].ep
              /\ Resolve(past, rows)[i].conf = rows[i].conf
              /\ Resolve(past, rows)[i].danger = rows[i].danger
              /\ Resolve(past, rows)[i].integrity =
                   Storage!Verdict(History(past), rows[i].ep, rows[i])
         /\ \A i \in DOMAIN rows : \A e, f :
              rows[i] \in DiscoveredServer(e, f) => Resolve(past, rows)[i] \in DiscoveredServer(e, f)
<1> DEFINE new == Resolve(past, rows)
           v(i) == Storage!Verdict(History(past), rows[i].ep, rows[i])
<1>1. Len(rows) \in Nat /\ DOMAIN rows = 1 .. Len(rows)
  BY LenProperties
<1>2. DOMAIN new = DOMAIN rows /\ \A i \in DOMAIN rows : new[i] = [rows[i] EXCEPT !.integrity = v(i)]
  BY DEF Resolve
<1>3. ASSUME NEW i \in DOMAIN rows, NEW e, NEW f, rows[i] \in DiscoveredServer(e, f)
      PROVE  /\ new[i].ep = rows[i].ep /\ new[i].conf = rows[i].conf
             /\ new[i].danger = rows[i].danger /\ new[i].integrity = v(i)
             /\ new[i] \in DiscoveredServer(e, f)
  <2>1. v(i) \in {"not evaluated", "new", "replaced", "unchanged", "modified"}
    BY VerdictType
  <2>2. new[i] = [rows[i] EXCEPT !.integrity = v(i)]
    BY <1>2
  <2> HIDE DEF v, new
  <2>. QED BY <1>3, <2>1, <2>2 DEF DiscoveredServer
<1>4. \A i \in DOMAIN rows : /\ rows[i] \in Row
                             /\ \E e \in Endpoint : \E f \in Finding[e] : rows[i] \in DiscoveredServer(e, f)
  BY <1>1, ElementOfSeq DEF Row
<1>5. \A i \in DOMAIN rows : new[i] \in Row
  BY <1>3, <1>4, RowFacts
<1>6. new \in Seq(Row)
  <2>1. new \in [1 .. Len(rows) -> Row]
    BY <1>1, <1>5 DEF Resolve
  <2> HIDE DEF new
  <2>. QED BY <1>1, <2>1, FunctionIsSeq
<1> HIDE DEF new, v
<1>7. \A i \in DOMAIN rows :
        /\ new[i].ep = rows[i].ep /\ new[i].conf = rows[i].conf
        /\ new[i].danger = rows[i].danger /\ new[i].integrity = v(i)
  BY <1>3, <1>4
<1>8. \A i \in DOMAIN rows : \A e, f :
        rows[i] \in DiscoveredServer(e, f) => new[i] \in DiscoveredServer(e, f)
  BY <1>3, Zenon
<1>. QED BY <1>2, <1>6, <1>7, <1>8 DEF new, v
-----------------------------------------------------------------------------
(* The inductive invariant holds at the start, and every step keeps it.     *)

LEMMA InitHolds == Init => IInv
<1> SUFFICES ASSUME Init PROVE IInv
  OBVIOUS
<1>1. /\ pc = "idle" /\ runs = 0 /\ dialed = {} /\ answered = {} /\ result = << >>
      /\ status = "running" /\ servers = << >> /\ db = << >> /\ page = Absent
      /\ heard = Silence /\ served = << >> /\ printed = << >>
  BY DEF Init, ScanPorts!AbsInit
<1>2. Silence \in Hearing
  <2>1. \A e \in Endpoint : Silence[e] = Absent
    BY DEF Silence
  <2>2. Silence \in [Endpoint -> (UNION Range(Finding)) \cup {Absent}]
    BY DEF Silence
  <2>. QED BY <2>1, <2>2 DEF Hearing
<1>3. Typing
  <2>1. Len(served) = 0 /\ Len(db) = 0 /\ Len(printed) = 0
    BY <1>1
  <2>2. /\ result \in Seq(answered) /\ servers \in Seq(Row) /\ db \in Seq(Seq(Row))
        /\ served \in Seq(Hearing) /\ printed \in Seq(Pages)
    BY <1>1
  <2>. QED BY <1>1, <1>2, <2>1, <2>2, RunAssumption DEF Typing
<1>4. PhaseInv /\ FileInv /\ PageInv
  BY <1>1 DEF PhaseInv, FileInv, PageInv
<1>. QED BY <1>3, <1>4 DEF IInv

\* Steps of a scan that leave the file and what was printed alone.
LEMMA FileKept ==
  ASSUME IInv, UNCHANGED <<db, served, printed>>
  PROVE  /\ FileInv' /\ Len(served') = Len(db')
         /\ \A n \in DOMAIN printed' : printed'[n] = PageOf(n)'
         /\ PageOf(Len(db))' = PageOf(Len(db))
<1>1. FileInv'
  BY DEF IInv, FileInv, Kept, Shows
<1>2. \A n : PageOf(n) = Render(Resolve(SubSeq(db, 1, n - 1), db[n]))
  BY DEF PageOf, Prior
<1>3. \A n \in DOMAIN printed' : printed'[n] = Render(Resolve(SubSeq(db', 1, n - 1), db'[n]))
  BY <1>2 DEF IInv, PageInv
<1>. QED BY <1>1, <1>3 DEF IInv, Typing, PageOf, Prior

LEMMA ResolveTargetsStep == ASSUME IInv, ResolveTargets PROVE IInv'
<1>1. /\ pc = "idle" /\ runs < MaxRuns /\ runs' = runs + 1 /\ page' = Absent
      /\ pc' \in {"ports", "idle"}
      /\ UNCHANGED <<dialed, answered, result, status, servers, db, heard, served, printed>>
  BY DEF ResolveTargets, portscan, ghosts
<1>2. Typing'
  BY <1>1, RunAssumption DEF IInv, Typing
<1>3. PhaseInv'
  BY <1>1 DEF IInv, PhaseInv
<1>4. FileInv' /\ PageInv'
  BY <1>1, FileKept DEF PageInv
<1>. QED BY <1>2, <1>3, <1>4 DEF IInv

LEMMA DialPortStep == ASSUME IInv, NEW e \in Endpoint, DialPort(e) PROVE IInv'
<1>1. /\ pc = "ports" /\ e \in Endpoint \ dialed /\ dialed' = dialed \cup {e}
      /\ answered' \in {answered, answered \cup {e}}
      /\ UNCHANGED <<pc, runs, result, status, servers, db, page, heard, served, printed>>
  BY DEF DialPort, ScanPorts!AbsDial, ghosts
<1>2. result = << >>
  BY <1>1 DEF IInv, PhaseInv
<1>3. Typing'
  BY <1>1, <1>2 DEF IInv, Typing
<1>4. PhaseInv'
  BY <1>1 DEF IInv, PhaseInv
<1>5. FileInv' /\ PageInv'
  BY <1>1, FileKept DEF IInv, PageInv
<1>. QED BY <1>3, <1>4, <1>5 DEF IInv

LEMMA PortsScannedStep == ASSUME IInv, PortsScanned PROVE IInv'
<1>1. /\ pc = "ports" /\ pc' = "detect" /\ result' \in SetToSeqs(answered)
      /\ ScanPorts!Lists(result', answered) /\ ScanPorts!Ordered(result')
      /\ UNCHANGED <<dialed, answered, runs, servers, db, page, heard, served, printed>>
  BY DEF PortsScanned, ScanPorts!AbsReturn, ghosts
<1>2. IsFiniteSet(answered)
  BY RunAssumption, FS_Subset DEF IInv, Typing
<1>3. result' \in Seq(answered)
  BY <1>1, <1>2, Permutation DEF SetToSeqs
<1>4. Typing'
  BY <1>1, <1>3 DEF IInv, Typing
<1>5. PhaseInv'
  <2>1. ScanPorts!Lists(result, answered)' /\ ScanPorts!Ordered(result)'
    BY <1>1 DEF ScanPorts!Lists, ScanPorts!Ordered
  <2>. QED BY <1>1, <2>1 DEF PhaseInv
<1>6. FileInv' /\ PageInv'
  BY <1>1, FileKept DEF IInv, PageInv
<1>. QED BY <1>4, <1>5, <1>6 DEF IInv

LEMMA DetectBatchStep == ASSUME IInv, DetectBatch PROVE IInv'
<1>1. /\ pc = "detect" /\ pc' = "audit" /\ heard' \in Hearings
      /\ servers' \in Detections(result, heard')
      /\ UNCHANGED <<runs, dialed, answered, result, status, db, page, served, printed>>
  BY DEF DetectBatch, portscan
<1>2. ScanPorts!Lists(result, answered) /\ ScanPorts!Ordered(result)
  BY <1>1 DEF IInv, PhaseInv
<1>3. /\ result \in Seq(answered) /\ Len(result) \in Nat /\ DOMAIN result = 1 .. Len(result)
      /\ answered \subseteq Endpoint /\ \A i \in DOMAIN result : result[i] \in answered
  BY LenProperties, ElementOfSeq DEF IInv, Typing
<1>4. /\ heard' \in Hearing
      /\ \A e \in Endpoint : heard'[e] # Absent => e \in answered
      /\ \A e \in answered : heard'[e] \in Finding[e] /\ heard'[e] # Absent
  BY <1>1, <1>3, MissingAssumption DEF Hearings, Hearing
<1>5. \A i \in DOMAIN result :
        /\ servers'[i].ep = result[i]
        /\ servers'[i] \in DiscoveredServer(result[i], heard'[result[i]])
  <2> TAKE i \in DOMAIN result
  <2>1. servers'[i].ep = result[i]
    BY <1>1 DEF Detections
  <2>2. servers'[i] \in UNION {Detected(e, heard'[e]) : e \in Range(result)}
    BY <1>1 DEF Detections
  <2>3. PICK e \in Range(result) : servers'[i] \in DiscoveredServer(e, heard'[e])
    BY <2>2 DEF Detected
  <2>. QED BY <2>1, <2>3 DEF DiscoveredServer
<1>6. DOMAIN servers' = DOMAIN result
  BY <1>1 DEF Detections
<1>7. servers' \in Seq(Row)
  <2>1. \A i \in DOMAIN result : servers'[i] \in Row
    BY <1>3, <1>4, <1>5, RowFacts
  <2>2. servers' \in [1 .. Len(result) -> Row]
    BY <1>1, <1>3, <2>1 DEF Detections
  <2>. QED BY <1>3, <2>2, FunctionIsSeq
<1>8. Kept(servers', heard')
  <2>1. [i \in DOMAIN servers' |-> servers'[i].ep] = result
    BY <1>3, <1>5, <1>6
  <2>2. {e \in Endpoint : heard'[e] # Absent} = answered
    BY <1>3, <1>4
  <2>3. Shows(servers', heard')
    BY <1>2, <2>1, <2>2, Zenon DEF Shows
  <2>. QED BY <1>5, <1>6, <2>3 DEF Kept
<1>9. Typing'
  BY <1>1, <1>4, <1>7 DEF IInv, Typing
<1>10. PhaseInv'
  <2>1. Kept(servers, heard)'
    BY <1>8 DEF Kept, Shows
  <2>. QED BY <1>1, <2>1 DEF PhaseInv
<1>11. FileInv' /\ PageInv'
  BY <1>1, FileKept DEF IInv, PageInv
<1>. QED BY <1>9, <1>10, <1>11 DEF IInv

LEMMA CheckAuthBatchStep == ASSUME IInv, CheckAuthBatch PROVE IInv'
<1>1. PICK verdict \in [DOMAIN servers -> AuditVerdict \cup {<<"unknown", "low">>, <<"protected", "medium">>}] :
        servers' = [i \in DOMAIN servers |-> [servers[i] EXCEPT !.auth = verdict[i][1],
                                                                 !.risk = verdict[i][2]]]
  BY DEF CheckAuthBatch
<1>2. /\ pc = "audit" /\ pc' = "save"
      /\ UNCHANGED <<runs, dialed, answered, result, status, db, page, heard, served, printed>>
  BY DEF CheckAuthBatch, portscan, ghosts
<1>3. Kept(servers, heard) /\ servers \in Seq(Row) /\ heard \in Hearing
  BY <1>2 DEF IInv, PhaseInv, Typing
<1>4. \A i \in DOMAIN servers :
        /\ servers'[i].ep = servers[i].ep
        /\ servers'[i] \in DiscoveredServer(servers[i].ep, heard[servers[i].ep])
  <2> TAKE i \in DOMAIN servers
  <2>1. servers[i] \in DiscoveredServer(servers[i].ep, heard[servers[i].ep])
    BY <1>3 DEF Kept
  <2>2. PICK a, r : /\ a \in {"unknown", "protected", "unprotected"}
                    /\ r \in {"low", "medium", "high"}
                    /\ verdict[i][1] = a /\ verdict[i][2] = r
    BY DEF AuditVerdict
  <2>3. servers'[i] = [servers[i] EXCEPT !.auth = a, !.risk = r]
    BY <1>1, <2>2
  <2>. QED BY <2>1, <2>2, <2>3 DEF DiscoveredServer
<1>5. DOMAIN servers' = DOMAIN servers
  BY <1>1
<1>6. Kept(servers', heard)
  BY <1>3, <1>4, <1>5, KeptUpdate
<1>7. servers' \in Seq(Row)
  <2>1. Len(servers) \in Nat /\ DOMAIN servers = 1 .. Len(servers)
    BY <1>3, LenProperties
  <2>2. \A i \in DOMAIN servers : servers'[i] \in Row
    BY <1>3, <1>4, KeptFacts, RowFacts
  <2>3. servers' \in [1 .. Len(servers) -> Row]
    BY <1>1, <2>1, <2>2
  <2>. QED BY <2>1, <2>3, FunctionIsSeq
<1>8. Typing'
  BY <1>2, <1>7 DEF IInv, Typing
<1>9. PhaseInv'
  <2>1. Kept(servers, heard)'
    BY <1>2, <1>6 DEF Kept, Shows
  <2>. QED BY <1>2, <2>1 DEF PhaseInv
<1>10. FileInv' /\ PageInv'
  BY <1>2, FileKept DEF IInv, PageInv
<1>. QED BY <1>8, <1>9, <1>10 DEF IInv

\* An invocation that ends leaves nothing behind but the file.
LEMMA ExitFacts ==
  ASSUME IInv, Exit, runs' = runs
  PROVE  /\ pc' = "idle" /\ dialed' = {} /\ answered' = {} /\ runs' \in 0 .. MaxRuns
         /\ servers' \in Seq(Row) /\ heard' \in Hearing /\ result' \in Seq(answered')
         /\ PhaseInv'
<1>1. /\ pc' = "idle" /\ servers' = << >> /\ heard' = Silence /\ dialed' = {}
      /\ answered' = {} /\ result' = << >> /\ status' = "running"
  BY DEF Exit
<1>2. Silence \in Hearing
  <2>1. \A e \in Endpoint : Silence[e] = Absent
    BY DEF Silence
  <2>2. Silence \in [Endpoint -> (UNION Range(Finding)) \cup {Absent}]
    BY DEF Silence
  <2>. QED BY <2>1, <2>2 DEF Hearing
<1>3. PhaseInv'
  BY <1>1 DEF PhaseInv
<1>4. servers' \in Seq(Row) /\ result' \in Seq(answered')
  BY <1>1
<1>. QED BY <1>1, <1>2, <1>3, <1>4 DEF IInv, Typing

LEMMA SaveScanStep == ASSUME IInv, SaveScan PROVE IInv'
<1>1. /\ pc = "save" /\ page = Absent
      /\ UNCHANGED <<runs, page, printed>>
      /\ Kept(servers, heard) /\ servers \in Seq(Row) /\ heard \in Hearing
      /\ db \in Seq(Seq(Row)) /\ served \in Seq(Hearing) /\ Len(served) = Len(db)
      /\ Len(printed) = Len(db) /\ printed \in Seq(Pages) /\ Len(db) \in Nat
      /\ DOMAIN db = 1 .. Len(db) /\ DOMAIN printed = 1 .. Len(db)
  BY LenProperties DEF SaveScan, IInv, Typing, PhaseInv, PageInv
<1>2. CASE Exit /\ UNCHANGED <<db, served>>
  <2>1. /\ pc' = "idle" /\ dialed' = {} /\ answered' = {} /\ runs' \in 0 .. MaxRuns
        /\ servers' \in Seq(Row) /\ heard' \in Hearing /\ result' \in Seq(answered')
        /\ PhaseInv'
    BY <1>1, <1>2, ExitFacts
  <2>2. Typing'
    BY <1>1, <1>2, <2>1 DEF IInv, Typing
  <2>3. FileInv' /\ PageInv'
    BY <1>1, <1>2, <2>1, FileKept DEF PageInv
  <2>. QED BY <2>1, <2>2, <2>3 DEF IInv
<1>3. CASE /\ servers' = Resolve(db, servers) /\ db' = Append(db, servers)
           /\ served' = Append(served, heard) /\ pc' = "render"
           /\ UNCHANGED <<portscan, heard>>
  <2>1. UNCHANGED <<dialed, answered, result, status, heard>>
    BY <1>3 DEF portscan
  <2>2. /\ db' \in Seq(Seq(Row)) /\ Len(db') = Len(db) + 1
        /\ DOMAIN db' = 1 .. Len(db) + 1
        /\ \A n \in 1 .. Len(db) : db'[n] = db[n]
        /\ db'[Len(db) + 1] = servers
    BY <1>1, <1>3, AppendProperties, LenProperties
  <2>3. /\ served' \in Seq(Hearing) /\ Len(served') = Len(db) + 1
        /\ \A n \in 1 .. Len(db) : served'[n] = served[n]
        /\ served'[Len(db) + 1] = heard
    BY <1>1, <1>3, AppendProperties
  <2>4. /\ servers' \in Seq(Row) /\ DOMAIN servers' = DOMAIN servers
        /\ \A i \in DOMAIN servers :
             /\ servers'[i].ep = servers[i].ep
             /\ \A e, f : servers[i] \in DiscoveredServer(e, f) => servers'[i] \in DiscoveredServer(e, f)
    <3> DEFINE new == Resolve(db, servers)
    <3>1. servers' = new
      BY <1>3
    <3>2. /\ new \in Seq(Row) /\ DOMAIN new = DOMAIN servers
          /\ \A i \in DOMAIN servers :
               /\ new[i].ep = servers[i].ep
               /\ \A e, f : servers[i] \in DiscoveredServer(e, f) => new[i] \in DiscoveredServer(e, f)
      <4>1. new \in Seq(Row) /\ DOMAIN new = DOMAIN servers
        BY <1>1, ResolveFacts
      <4>2. \A i \in DOMAIN servers : new[i].ep = servers[i].ep
        BY <1>1, ResolveFacts
      <4>3. \A i \in DOMAIN servers : \A e, f :
              servers[i] \in DiscoveredServer(e, f) => new[i] \in DiscoveredServer(e, f)
        BY <1>1, ResolveFacts, Zenon
      <4>. QED BY <4>1, <4>2, <4>3
    <3> HIDE DEF new
    <3>. QED BY <3>1, <3>2
  <2>5. Typing'
    BY <1>1, <1>3, <2>1, <2>2, <2>3, <2>4 DEF IInv, Typing
  <2>6. PhaseInv'
    <3>1. \A i \in DOMAIN servers : servers'[i] \in DiscoveredServer(servers[i].ep, heard[servers[i].ep])
      BY <1>1, <2>4 DEF Kept
    <3>2. Kept(servers', heard)
      BY <1>1, <2>4, <3>1, KeptUpdate
    <3>3. Kept(servers, heard)'
      BY <2>1, <3>2 DEF Kept, Shows
    <3>. QED BY <1>3, <3>3 DEF PhaseInv
  <2>7. FileInv'
    <3> SUFFICES ASSUME NEW n \in 1 .. Len(db) + 1 PROVE Kept(db'[n], served'[n])
      BY <2>2 DEF FileInv, Kept, Shows
    <3>1. CASE n = Len(db) + 1
      BY <1>1, <2>2, <2>3, <3>1
    <3>2. CASE n \in 1 .. Len(db)
      BY <1>1, <2>2, <2>3, <3>2 DEF IInv, FileInv
    <3>. QED BY <1>1, <3>1, <3>2
  <2>8. \A n \in 1 .. Len(db) : SubSeq(db', 1, n - 1) = SubSeq(db, 1, n - 1)
    <3> TAKE n \in 1 .. Len(db)
    <3>1. n - 1 \in 0 .. Len(db)
      BY <1>1
    <3>. QED BY <1>1, <1>3, <3>1, BeforeAppend
  <2>9. SubSeq(db', 1, Len(db)) = db
    BY <1>1, <1>3, BeforeAppend
  <2>10. PageInv'
    <3>1. \A n \in DOMAIN printed' : printed'[n] = PageOf(n)'
      <4> SUFFICES ASSUME NEW n \in 1 .. Len(db) PROVE printed[n] = PageOf(n)'
        BY <1>1
      <4>1. printed[n] = Render(Resolve(SubSeq(db, 1, n - 1), db[n]))
        BY <1>1 DEF IInv, PageInv, PageOf, Prior
      <4>2. printed[n] = Render(Resolve(SubSeq(db', 1, n - 1), db'[n]))
        BY <2>2, <2>8, <4>1
      <4>. QED BY <4>2 DEF PageOf, Prior
    <3>2. /\ db' # << >> /\ Len(db') - 1 = Len(db)
          /\ servers' = Resolve(SubSeq(db', 1, Len(db') - 1), db'[Len(db')])
      <4>1. Len(db') - 1 = Len(db) /\ db' # << >>
        BY <1>1, <2>2, EmptySeq
      <4>2. Resolve(SubSeq(db', 1, Len(db') - 1), db'[Len(db')]) = Resolve(db, servers)
        BY <2>2, <2>9, <4>1
      <4>. QED BY <1>3, <4>1, <4>2
    <3>. QED BY <1>1, <3>1, <3>2 DEF PageInv, Prior
  <2>. QED BY <2>5, <2>6, <2>7, <2>10 DEF IInv
<1>. QED BY <1>2, <1>3 DEF SaveScan

LEMMA PagesType ==
  ASSUME IInv, NEW n \in DOMAIN db
  PROVE  /\ Prior(n) \in Seq(Seq(Row)) /\ DOMAIN Prior(n) = 1 .. n - 1
         /\ \A m \in 1 .. n - 1 : Prior(n)[m] = db[m] /\ m \in DOMAIN db
         /\ db[n] \in Seq(Row) /\ n \in Nat /\ PageOf(n) \in Pages
<1>1. /\ db \in Seq(Seq(Row)) /\ DOMAIN db = 1 .. Len(db) /\ Len(db) \in Nat
      /\ n \in 1 .. Len(db) /\ n - 1 \in 0 .. Len(db)
  BY LenProperties DEF IInv, Typing
<1>2. /\ Prior(n) \in Seq(Seq(Row)) /\ DOMAIN Prior(n) = 1 .. n - 1
      /\ \A m \in 1 .. n - 1 : Prior(n)[m] = db[m]
  BY <1>1, Prefix DEF Prior
<1>3. db[n] \in Seq(Row)
  BY <1>1, ElementOfSeq
<1>. QED BY <1>1, <1>2, <1>3 DEF PageOf, Pages

LEMMA RenderScanStep == ASSUME IInv, RenderScan PROVE IInv'
<1>1. /\ pc = "render" /\ page = Absent /\ Exit
      /\ printed' = Append(printed, Render(servers))
      /\ UNCHANGED <<runs, db, page, served>>
      /\ db # << >> /\ servers = Resolve(Prior(Len(db)), db[Len(db)])
      /\ printed \in Seq(Pages) /\ Len(printed) = Len(db) - 1 /\ Len(db) \in Nat
      /\ db \in Seq(Seq(Row)) /\ DOMAIN db = 1 .. Len(db)
  BY LenProperties DEF RenderScan, IInv, Typing, PageInv
<1>2. Len(db) \in DOMAIN db
  BY <1>1, EmptySeq
<1>3. Render(servers) = PageOf(Len(db)) /\ Render(servers) \in Pages
  BY <1>1, <1>2, PagesType DEF PageOf
<1>4. /\ printed' \in Seq(Pages) /\ Len(printed') = Len(db) /\ DOMAIN printed' = 1 .. Len(db)
      /\ \A n \in 1 .. Len(db) - 1 : printed'[n] = printed[n] /\ n \in DOMAIN printed
      /\ printed'[Len(db)] = PageOf(Len(db))
  <2>1. Len(printed) + 1 = Len(db) /\ DOMAIN printed = 1 .. Len(db) - 1
    BY <1>1, LenProperties
  <2>. QED BY <1>1, <1>3, <2>1, AppendProperties, LenProperties
<1>5. /\ pc' = "idle" /\ dialed' = {} /\ answered' = {} /\ runs' \in 0 .. MaxRuns
      /\ servers' \in Seq(Row) /\ heard' \in Hearing /\ result' \in Seq(answered')
      /\ PhaseInv'
  BY <1>1, ExitFacts
<1>6. Typing'
  BY <1>1, <1>4, <1>5 DEF IInv, Typing
<1>7. FileInv'
  BY <1>1 DEF IInv, FileInv, Kept, Shows
<1>8. PageInv'
  <2> SUFFICES ASSUME NEW n \in 1 .. Len(db) PROVE printed'[n] = PageOf(n)'
    BY <1>1, <1>4, <1>5 DEF PageInv
  <2>1. PageOf(n)' = PageOf(n)
    BY <1>1 DEF PageOf, Prior
  <2>2. n = Len(db) \/ n \in 1 .. Len(db) - 1
    BY <1>1
  <2>. QED BY <1>4, <2>1, <2>2 DEF IInv, PageInv
<1>. QED BY <1>5, <1>6, <1>7, <1>8 DEF IInv

LEMMA ReportStep == ASSUME IInv, Report PROVE IInv'
<1>1. /\ pc = "idle" /\ db # << >> /\ page' = Render(Resolve(Front(db), Last(db)))
      /\ UNCHANGED <<pc, runs, dialed, answered, result, status, servers, db, heard, served, printed>>
  BY DEF Report, portscan, ghosts
<1>2. Front(db) = Prior(Len(db)) /\ Last(db) = db[Len(db)]
  BY DEF Front, Last, Prior
<1>3. Typing' /\ PhaseInv'
  BY <1>1 DEF IInv, Typing, PhaseInv
<1>4. FileInv' /\ PageInv'
  <2>1. page' = PageOf(Len(db))
    BY <1>1, <1>2 DEF PageOf
  <2>2. /\ FileInv' /\ \A n \in DOMAIN printed' : printed'[n] = PageOf(n)'
        /\ PageOf(Len(db))' = PageOf(Len(db))
    BY <1>1, FileKept
  <2>3. PageInv'
    BY <1>1, <2>1, <2>2 DEF PageInv
  <2>. QED BY <2>2, <2>3
<1>. QED BY <1>3, <1>4 DEF IInv

LEMMA IdleStep == ASSUME IInv, UNCHANGED vars PROVE IInv'
<1>1. UNCHANGED <<pc, runs, dialed, answered, result, status, servers, db, page, heard, served, printed>>
  BY DEF vars, portscan, ghosts
<1>2. Typing'
  BY <1>1 DEF IInv, Typing
<1>3. PhaseInv'
  BY <1>1 DEF IInv, PhaseInv, Kept, Shows
<1>4. FileInv' /\ PageInv'
  <2>1. FileInv' /\ \A n \in DOMAIN printed' : printed'[n] = PageOf(n)'
    BY <1>1, FileKept
  <2>2. PageOf(Len(db))' = PageOf(Len(db)) /\ Prior(Len(db))' = Prior(Len(db))
    BY <1>1, FileKept DEF Prior
  <2>3. PageInv'
    BY <1>1, <2>1, <2>2 DEF IInv, PageInv
  <2>. QED BY <2>1, <2>3
<1>. QED BY <1>2, <1>3, <1>4 DEF IInv

LEMMA NextStep == IInv /\ [Next]_vars => IInv'
BY ResolveTargetsStep, PortsScannedStep, DetectBatchStep, CheckAuthBatchStep, SaveScanStep,
   RenderScanStep, ReportStep, DialPortStep, IdleStep DEF Next, Finished
-----------------------------------------------------------------------------
(* The results. *)

\* One invocation of mcpscan after the other, the slice that main hands from
\* phase to phase, the file and the pages stay related as IInv says.
THEOREM Invariance == Spec => []IInv
BY InitHolds, NextStep, PTL DEF Spec

\* The phases of main keep the types of what they pass on, and a page is
\* printed for each scan that was saved and for no other.
THEOREM TypeCorrect == Spec => []TypeOK
<1>1. IInv => TypeOK
  <2> SUFFICES ASSUME IInv PROVE TypeOK
    OBVIOUS
  <2>1. Range(result) \subseteq answered
    <3>1. DOMAIN result = 1 .. Len(result) /\ result \in Seq(answered)
      BY LenProperties DEF IInv, Typing
    <3>. QED BY <3>1, ElementOfSeq DEF Range
  <2>. QED BY <2>1 DEF IInv, Typing, PageInv, TypeOK
<1>. QED BY <1>1, Invariance, PTL

\* The report subcommand prints the last scan's page again, its verdicts
\* found anew from the rows before it.
THEOREM ReportRepeats == Spec => []ReportRepeatsRender
<1>1. IInv => ReportRepeatsRender
  <2> SUFFICES ASSUME IInv, page # Absent PROVE page = Last(printed)
    BY DEF ReportRepeatsRender
  <2>1. pc = "idle" /\ db # << >> /\ page = PageOf(Len(db)) /\ db \in Seq(Seq(Row))
    BY DEF IInv, PageInv, Typing
  <2>2. Len(printed) = Len(db) /\ Len(db) \in DOMAIN printed
    <3>1. Len(db) \in Nat /\ Len(db) # 0
      BY <2>1, LenProperties, EmptySeq
    <3>2. Len(printed) = Len(db) /\ DOMAIN printed = 1 .. Len(printed)
      BY <2>1, LenProperties DEF IInv, Typing
    <3>. QED BY <3>1, <3>2
  <2>. QED BY <2>1, <2>2 DEF IInv, PageInv, Last
<1>. QED BY <1>1, Invariance, PTL

\* A line of a page that was printed, and the row and the answer behind it.
LEMMA LineFacts ==
  ASSUME IInv, NEW n \in DOMAIN printed
  PROVE  /\ n \in DOMAIN db /\ n \in Nat /\ db[n] \in Seq(Row) /\ served[n] \in Hearing
         /\ Kept(db[n], served[n])
         /\ DOMAIN printed[n].lines = DOMAIN db[n]
         /\ \A i \in DOMAIN db[n] :
              /\ printed[n].lines[i] = Line(Resolve(Prior(n), db[n])[i])
              /\ printed[n].lines[i].ep = db[n][i].ep
              /\ printed[n].lines[i].integrity =
                   Storage!Verdict(History(Prior(n)), db[n][i].ep, db[n][i])
              /\ printed[n].lines[i].danger = DangerCell(db[n][i])
<1> DEFINE rows == Resolve(Prior(n), db[n])
<1>1. /\ Len(db) \in Nat /\ DOMAIN db = 1 .. Len(db) /\ DOMAIN served = 1 .. Len(db)
      /\ n \in 1 .. Len(db) /\ served \in Seq(Hearing)
  <2>1. /\ Len(db) \in Nat /\ DOMAIN db = 1 .. Len(db) /\ DOMAIN served = 1 .. Len(served)
        /\ DOMAIN printed = 1 .. Len(printed) /\ Len(printed) \in Nat
        /\ served \in Seq(Hearing) /\ Len(served) = Len(db)
    BY LenProperties DEF IInv, Typing
  <2>2. Len(printed) = Len(db) - 1 \/ Len(printed) = Len(db)
    BY DEF IInv, Typing
  <2>3. n \in 1 .. Len(db)
    <3> DEFINE a == Len(printed)
               b == Len(db)
    <3>1. n \in 1 .. a /\ a \in Nat /\ b \in Nat /\ (a = b - 1 \/ a = b)
      BY <2>1, <2>2
    <3> HIDE DEF a, b
    <3>2. n \in 1 .. b
      BY <3>1
    <3>. QED BY <3>2 DEF b
  <2>. QED BY <2>1, <2>3
<1>2. db[n] \in Seq(Row) /\ n \in Nat /\ n \in DOMAIN db
  BY <1>1, PagesType
<1>3. Kept(db[n], served[n]) /\ served[n] \in Hearing
  BY <1>1, ElementOfSeq DEF IInv, FileInv
<1>4. printed[n].lines = [i \in DOMAIN rows |-> Line(rows[i])]
  BY DEF IInv, PageInv, PageOf, Render
<1>5. DOMAIN rows = DOMAIN db[n]
  BY <1>2, ResolveFacts
<1>6. \A i \in DOMAIN db[n] :
        /\ rows[i].ep = db[n][i].ep /\ rows[i].conf = db[n][i].conf
        /\ rows[i].danger = db[n][i].danger
        /\ rows[i].integrity = Storage!Verdict(History(Prior(n)), db[n][i].ep, db[n][i])
  BY <1>2, ResolveFacts
<1> HIDE DEF rows
<1>7. \A i \in DOMAIN db[n] :
        /\ printed[n].lines[i] = Line(rows[i])
        /\ printed[n].lines[i].ep = db[n][i].ep
        /\ printed[n].lines[i].integrity =
             Storage!Verdict(History(Prior(n)), db[n][i].ep, db[n][i])
        /\ printed[n].lines[i].danger = DangerCell(db[n][i])
  <2> TAKE i \in DOMAIN db[n]
  <2>1. printed[n].lines[i] = Line(rows[i])
    BY <1>4, <1>5
  <2>2. DangerCell(rows[i]) = DangerCell(db[n][i])
    BY <1>6 DEF DangerCell
  <2>3. /\ Line(rows[i]).ep = rows[i].ep /\ Line(rows[i]).integrity = rows[i].integrity
        /\ Line(rows[i]).danger = DangerCell(rows[i])
    BY DEF Line
  <2>. QED BY <1>6, <2>1, <2>2, <2>3
<1>8. DOMAIN printed[n].lines = DOMAIN db[n]
  BY <1>4, <1>5
<1>. QED BY <1>2, <1>3, <1>7, <1>8 DEF rows

\* What main prints, and what it prints again, is a line for each endpoint
\* that answered the scan, each once and in the port scan's order.
THEOREM LinesAreExact == Spec => []LinesExact
<1>1. IInv => LinesExact
  <2> SUFFICES ASSUME IInv PROVE LinesExact
    OBVIOUS
  <2>1. ASSUME NEW n \in DOMAIN printed PROVE Shows(printed[n].lines, served[n])
    <3>1. DOMAIN printed[n].lines = DOMAIN db[n] /\ Kept(db[n], served[n])
      BY LineFacts
    <3>2. \A i \in DOMAIN db[n] : printed[n].lines[i].ep = db[n][i].ep
      BY LineFacts
    <3>3. [i \in DOMAIN printed[n].lines |-> printed[n].lines[i].ep] = [i \in DOMAIN db[n] |-> db[n][i].ep]
      BY <3>1, <3>2
    <3>. QED BY <3>1, <3>3, Zenon DEF Kept, Shows
  <2>2. ASSUME page # Absent PROVE Shows(page.lines, Last(served))
    <3>1. pc = "idle" /\ db # << >> /\ page = PageOf(Len(db)) /\ db \in Seq(Seq(Row))
      BY <2>2 DEF IInv, PageInv, Typing
    <3>2. Len(served) = Len(db) /\ Len(db) \in DOMAIN printed
      <4>1. Len(db) \in Nat /\ Len(db) # 0
        BY <3>1, LenProperties, EmptySeq
      <4>2. Len(printed) = Len(db) /\ DOMAIN printed = 1 .. Len(printed)
        BY <3>1, LenProperties DEF IInv, Typing
      <4>. QED BY <4>1, <4>2 DEF IInv, Typing
    <3>3. page = printed[Len(db)] /\ Last(served) = served[Len(db)]
      BY <3>1, <3>2 DEF IInv, PageInv, Last
    <3>. QED BY <2>1, <3>2, <3>3
  <2>. QED BY <2>1, <2>2 DEF LinesExact
<1>. QED BY <1>1, Invariance, PTL
-----------------------------------------------------------------------------
(* Verdicts. *)

\* The hash is empty for an answer without tools, and for no other.
LEMMA HashPresent ==
  ASSUME NEW e \in Endpoint, NEW f \in Finding[e]
  PROVE  HashOf(f) # Empty <=> HasTools(f)
<1>1. f # Absent
  BY MissingAssumption
<1>2. f.tools \notin {NoList, << >>} => ToolHash(f.tools) # Empty
  BY MissingAssumption
<1>. QED BY <1>1, <1>2 DEF HashOf, HasTools, ToolHash

\* Of a list without namesakes the hash is the set of its definitions.
LEMMA DistinctHash ==
  ASSUME NEW S, NEW tools \in Seq(S), tools # << >>, Distinct(tools)
  PROVE  ToolHash(tools) = {<<d, 0>> : d \in Definitions(tools)}
<1>1. DOMAIN tools = 1 .. Len(tools) /\ Len(tools) \in Nat
  BY LenProperties
<1>2. \A i \in DOMAIN tools : {j \in 1 .. i - 1 : tools[j].name = tools[i].name} = {}
  BY <1>1 DEF Distinct
<1>3. Cardinality({}) = 0
  BY FS_EmptySet
<1>4. \A i \in DOMAIN tools :
        Cardinality({j \in 1 .. i - 1 : tools[j].name = tools[i].name}) = 0
  BY <1>2, <1>3
<1>5. ToolHash(tools) = {<<Decoded(tools[i]), 0>> : i \in DOMAIN tools}
  BY <1>4 DEF ToolHash
<1>. QED BY <1>5 DEF Definitions

LEMMA HashTells ==
  ASSUME NEW S, NEW T, NEW a \in Seq(S), NEW b \in Seq(T), a # << >>, b # << >>,
         Distinct(a), Distinct(b)
  PROVE  ToolHash(a) = ToolHash(b) <=> Definitions(a) = Definitions(b)
<1>1. /\ ToolHash(a) = {<<d, 0>> : d \in Definitions(a)}
      /\ ToolHash(b) = {<<d, 0>> : d \in Definitions(b)}
  BY DistinctHash
<1> DEFINE A == Definitions(a)
           B == Definitions(b)
<1> HIDE DEF A, B
<1>2. ASSUME {<<d, 0>> : d \in A} = {<<d, 0>> : d \in B}
      PROVE  A = B
  <2>1. ASSUME NEW d \in A PROVE d \in B
    <3>1. PICK c \in B : <<d, 0>> = <<c, 0>>
      <4>1. <<d, 0>> \in {<<c, 0>> : c \in A}
        BY <2>1
      <4>. QED BY <4>1, <1>2
    <3>. QED BY <3>1
  <2>2. ASSUME NEW d \in B PROVE d \in A
    <3>1. PICK c \in A : <<d, 0>> = <<c, 0>>
      <4>1. <<d, 0>> \in {<<c, 0>> : c \in B}
        BY <2>2
      <4>. QED BY <4>1, <1>2
    <3>. QED BY <3>1
  <2>. QED BY <2>1, <2>2
<1>. QED BY <1>1, <1>2 DEF A, B

\* What the file says of an endpoint in an earlier scan.
LEMMA SeenFacts ==
  ASSUME IInv, NEW n \in DOMAIN db, NEW m \in 1 .. n - 1, NEW e \in Endpoint
  PROVE  LET h == History(Prior(n))
         IN /\ DOMAIN h = 1 .. n - 1
            /\ served[m][e] = Absent => h[m].seen[e] = Absent
            /\ served[m][e] # Absent => /\ served[m][e] \in Finding[e]
                                        /\ h[m].seen[e] # Absent
                                        /\ h[m].seen[e].hash = HashOf(served[m][e])
                                        /\ h[m].seen[e].name = served[m][e].name
<1> DEFINE rows == db[m]
           h == History(Prior(n))
<1>1. /\ DOMAIN Prior(n) = 1 .. n - 1 /\ Prior(n)[m] = rows /\ m \in DOMAIN db
  BY PagesType
<1>2. /\ h[m].seen[e] = IF \E i \in DOMAIN rows : rows[i].ep = e
                        THEN rows[CHOOSE i \in DOMAIN rows : rows[i].ep = e]
                        ELSE Absent
      /\ DOMAIN h = 1 .. n - 1
  BY <1>1 DEF History
<1>3. Kept(rows, served[m]) /\ rows \in Seq(Row) /\ served[m] \in Hearing
  <2>1. /\ DOMAIN db = 1 .. Len(db) /\ DOMAIN served = 1 .. Len(db) /\ served \in Seq(Hearing)
    BY LenProperties DEF IInv, Typing
  <2>2. served[m] \in Hearing
    BY <1>1, <2>1, ElementOfSeq
  <2>. QED BY <1>1, <2>2, PagesType DEF IInv, FileInv
<1>4. /\ \A i \in DOMAIN rows : /\ served[m][rows[i].ep] \in Finding[rows[i].ep]
                                /\ rows[i].ep \in Endpoint
                                /\ rows[i] \in DiscoveredServer(rows[i].ep, served[m][rows[i].ep])
      /\ served[m][e] # Absent => \E i \in DOMAIN rows : rows[i].ep = e
  BY <1>3, KeptFacts
<1> HIDE DEF rows, h
<1>5. CASE \E i \in DOMAIN rows : rows[i].ep = e
  <2>1. PICK i \in DOMAIN rows : rows[i].ep = e /\ h[m].seen[e] = rows[i]
    BY <1>2, <1>5
  <2>2. served[m][e] \in Finding[e] /\ rows[i] \in DiscoveredServer(e, served[m][e])
    BY <1>4, <2>1
  <2>3. rows[i].hash = HashOf(served[m][e]) /\ rows[i].name = served[m][e].name
    BY <2>2 DEF DiscoveredServer
  <2>4. rows[i] # Absent
    BY <2>2, RowFacts
  <2>5. served[m][e] # Absent
    BY <2>2, MissingAssumption
  <2>. QED BY <1>2, <2>1, <2>2, <2>3, <2>4, <2>5 DEF h
<1>6. CASE ~ \E i \in DOMAIN rows : rows[i].ep = e
  BY <1>2, <1>4, <1>6 DEF h
<1>. QED BY <1>5, <1>6

LEMMA ObservedFacts ==
  ASSUME IInv, NEW n \in DOMAIN db, NEW e \in Endpoint
  PROVE  Storage!Observed(History(Prior(n)), e) = {m \in 1 .. n - 1 : HasTools(served[m][e])}
<1> DEFINE h == History(Prior(n))
<1>1. DOMAIN h = 1 .. n - 1
  BY PagesType DEF History
<1>2. \A m \in 1 .. n - 1 :
        (h[m].seen[e] # Absent /\ h[m].seen[e].hash # Empty) <=> HasTools(served[m][e])
  <2> TAKE m \in 1 .. n - 1
  <2>1. CASE served[m][e] = Absent
    BY <2>1, SeenFacts DEF HasTools
  <2>2. CASE served[m][e] # Absent
    BY <2>2, SeenFacts, HashPresent
  <2>. QED BY <2>1, <2>2
<1> HIDE DEF h
<1>3. Storage!Observed(h, e) = {m \in 1 .. n - 1 : HasTools(served[m][e])}
  BY <1>1, <1>2 DEF Storage!Observed
<1>. QED BY <1>3 DEF h

\* resolveHTTPIntegrity over any history of scans: no change of the decoded
\* definitions since tools were last seen there goes unsaid, and if nothing was
\* heard there in between, none is made up.
THEOREM RugPullsSeen == Spec => []RugPullSeen
<1>1. IInv => RugPullSeen
  <2> SUFFICES ASSUME IInv, NEW n \in DOMAIN printed, NEW i \in DOMAIN printed[n].lines
      PROVE  LET line == printed[n].lines[i]
                 now  == served[n][line.ep]
                 past == {m \in 1 .. n - 1 : HasTools(served[m][line.ep])}
                 last == CHOOSE m \in past : \A k \in past : k <= m
                 prev == served[last][line.ep]
                 same == Definitions(prev.tools) = Definitions(now.tools)
                 same_server == prev.name = now.name \/ Empty \in {prev.name, now.name}
                 quiet == \A m \in last + 1 .. n - 1 : ~ Mcp(served[m][line.ep])
             IN /\ ~ Mcp(now) => line.integrity = "not evaluated"
                /\ HasTools(now) => line.integrity # "not evaluated"
                /\ HasTools(now) /\ (\A m \in 1 .. n - 1 : ~ Mcp(served[m][line.ep])) => line.integrity = "new"
                /\ HasTools(now) /\ past # {} => line.integrity # "new"
                /\ HasTools(now) /\ past # {} /\ Distinct(now.tools) /\ Distinct(prev.tools) =>
                     /\ ~ (same_server /\ same) => line.integrity \in {"replaced", "modified"}
                     /\ quiet => /\ line.integrity = "replaced" <=> ~ same_server
                                 /\ line.integrity = "modified" <=> same_server /\ ~ same
                                 /\ line.integrity = "unchanged" <=> same_server /\ same
    BY Zenon DEF RugPullSeen
  <2> DEFINE e == db[n][i].ep
             row == db[n][i]
             now == served[n][e]
             h == History(Prior(n))
             past == {m \in 1 .. n - 1 : HasTools(served[m][e])}
             last == CHOOSE m \in past : \A k \in past : k <= m
             prev == served[last][e]
             verdict == Storage!Verdict(h, e, row)
             same == Definitions(prev.tools) = Definitions(now.tools)
             same_server == prev.name = now.name \/ Empty \in {prev.name, now.name}
  <2>1. /\ n \in DOMAIN db /\ n \in Nat /\ db[n] \in Seq(Row) /\ Kept(db[n], served[n])
        /\ served[n] \in Hearing /\ DOMAIN printed[n].lines = DOMAIN db[n]
        /\ printed[n].lines[i].ep = e /\ printed[n].lines[i].integrity = verdict
    BY LineFacts
  <2>2. e \in Endpoint /\ now \in Finding[e] /\ row \in DiscoveredServer(e, now)
    BY <2>1, KeptFacts
  <2>3. row.hash = HashOf(now) /\ row.name = now.name
    BY <2>2 DEF DiscoveredServer
  <2>4. row.hash # Empty <=> HasTools(now)
    BY <2>2, <2>3, HashPresent
  <2>5. Storage!Observed(h, e) = past
    BY <2>1, <2>2, ObservedFacts
  <2>6. verdict = IF row.hash = Empty THEN "not evaluated"
                  ELSE IF past = {} THEN "new"
                  ELSE IF Empty \notin {h[last].seen[e].name, row.name} /\ h[last].seen[e].name # row.name
                  THEN "replaced"
                  ELSE IF h[last].seen[e].hash = row.hash THEN "unchanged" ELSE "modified"
    <3> HIDE DEF past
    <3>. QED BY <2>5, Zenon DEF Storage!Verdict
  <2>7. ASSUME HasTools(now), past # {}, Distinct(now.tools), Distinct(prev.tools)
        PROVE  /\ verdict = "replaced" <=> ~ same_server
               /\ verdict = "modified" <=> same_server /\ ~ same
               /\ verdict = "unchanged" <=> same_server /\ same
    <3>1. last \in past
      <4>1. n - 1 \in Nat
        BY <2>1, <2>7
      <4>2. past \in SUBSET (1 .. n - 1)
        OBVIOUS
      <4> HIDE DEF past
      <4>3. \E m \in past : \A k \in past : k <= m
        BY <2>7, <4>1, <4>2, Greatest
      <4>. QED BY <4>3
    <3>2. last \in 1 .. n - 1 /\ HasTools(served[last][e])
      BY <3>1
    <3> HIDE DEF last, past, h, verdict
    <3>3. prev \in Finding[e] /\ h[last].seen[e].hash = HashOf(prev) /\ h[last].seen[e].name = prev.name
      <4>1. prev # Absent
        BY <3>2 DEF HasTools
      <4>. QED BY <2>1, <2>2, <3>2, <4>1, SeenFacts DEF h
    <3>4. /\ HashOf(now) = ToolHash(now.tools) /\ HashOf(prev) = ToolHash(prev.tools)
          /\ now.tools # << >> /\ prev.tools # << >>
          /\ now.tools \in Seq(Range(now.tools)) /\ prev.tools \in Seq(Range(prev.tools))
      BY <2>2, <2>7, <3>2, <3>3, FindingAssumption DEF HashOf, HasTools
    <3>5. HashOf(prev) = HashOf(now) <=> same
      <4> DEFINE a == prev.tools
                 b == now.tools
      <4>1. /\ a \in Seq(Range(a)) /\ b \in Seq(Range(b)) /\ a # << >> /\ b # << >>
            /\ Distinct(a) /\ Distinct(b)
        BY <2>7, <3>4
      <4>2. same <=> Definitions(a) = Definitions(b)
        OBVIOUS
      <4>3. HashOf(prev) = HashOf(now) <=> ToolHash(a) = ToolHash(b)
        BY <3>4
      <4> HIDE DEF a, b, same, prev, now
      <4>4. ToolHash(a) = ToolHash(b) <=> Definitions(a) = Definitions(b)
        BY <4>1, HashTells
      <4>. QED BY <4>2, <4>3, <4>4
    <3> HIDE DEF same
    <3>. QED BY <2>3, <2>4, <2>6, <2>7, <3>3, <3>5
  <2>8. verdict = "not evaluated" <=> ~ HasTools(now)
    BY <2>4, <2>6
  <2>9. verdict = "new" <=> HasTools(now) /\ past = {}
    BY <2>4, <2>6
  <2>10. ~ Mcp(now) => ~ HasTools(now)
    BY <2>2, FindingAssumption DEF Mcp, HasTools
  <2>11. (\A m \in 1 .. n - 1 : ~ Mcp(served[m][e])) => past = {}
    <3>1. \A m \in 1 .. n - 1 : HasTools(served[m][e]) => Mcp(served[m][e])
      <4> SUFFICES ASSUME NEW m \in 1 .. n - 1, HasTools(served[m][e])
          PROVE  Mcp(served[m][e])
        OBVIOUS
      <4>1. served[m][e] # Absent
        BY DEF HasTools
      <4>2. served[m][e] \in Finding[e]
        BY <2>1, <2>2, <4>1, SeenFacts
      <4>. QED BY <2>2, <4>1, <4>2, FindingAssumption DEF HasTools, Mcp
    <3>. QED BY <3>1
  <2> HIDE DEF now, past, last, prev, same, same_server, verdict
  <2>12. ASSUME HasTools(now), past # {}, Distinct(now.tools), Distinct(prev.tools)
         PROVE  ~ (same_server /\ same) => verdict \in {"replaced", "modified"}
    BY <2>7, <2>12
  <2> USE DEF now, past, last, prev, same, same_server
  <2>. QED BY <2>1, <2>7, <2>8, <2>9, <2>10, <2>11, <2>12
<1>. QED BY <1>1, Invariance, PTL
-----------------------------------------------------------------------------
(* The danger cell. *)

\* isUnconstrainedString reports a type exactly where free text goes.
LEMMA FreeTells == ASSUME NEW prop PROVE FreeType(prop) # << >> <=> TakesText(prop)
<1>1. <<"any">> # << >>
  OBVIOUS
<1>2. prop.types = << >> => "string" \notin Range(prop.types)
  BY DEF Range
<1>3. FreeType(prop) = IF prop = Nil THEN <<"any">>
                       ELSE IF prop.enum THEN << >>
                       ELSE IF prop.types = Untyped THEN <<"any">>
                       ELSE IF "string" \in Range(prop.types) THEN prop.types
                       ELSE << >>
  BY DEF FreeType
<1>. QED BY <1>1, <1>2, <1>3, Zenon DEF TakesText

\* isDangerousParameterName: a term other than code, on no deny list, is
\* enough, and what is flagged has a term and is on no deny list.
LEMMA NameTells ==
  ASSUME NEW p \in ParamName
  PROVE  LET listed == p.words \in Harmless /\ p.sep = "_"
         IN /\ IsDangerousName(p) => Terms(p) # {} /\ ~ listed
            /\ Terms(p) \ {"code"} # {} /\ ~ listed => IsDangerousName(p)
<1> DEFINE words == p.words
           listed == words \in Harmless /\ p.sep = "_"
<1>1. /\ Norm(p).words = words /\ Norm(p).sep = p.sep
      /\ words \in Seq(STRING) /\ DOMAIN words = 1 .. Len(words) /\ Len(words) \in Nat
  BY LenProperties DEF Norm, ParamName
<1>2. IsDangerousName(p) <=>
        /\ ~ (words \in Harmless /\ (Len(words) > 1 => p.sep = "_"))
        /\ \/ words \in HighRisk /\ (Len(words) > 1 => p.sep = "_")
           \/ \E i \in DOMAIN words : <<words[i]>> \in HighRisk /\ ~ Excused(words, i)
  BY <1>1 DEF IsDangerousName, ListedIn
<1>3. Terms(p) = {w \in Range(words) : <<w>> \in HighRisk}
  BY DEF Terms
<1> HIDE DEF words
<1>4. IsDangerousName(p) => Terms(p) # {} /\ ~ listed
  <2>1. words \in HighRisk => \E w \in Range(words) : <<w>> \in HighRisk
    BY TableAssumption
  <2>2. (\E i \in DOMAIN words : <<words[i]>> \in HighRisk)
          => \E w \in Range(words) : <<w>> \in HighRisk
    BY DEF Range
  <2>. QED BY <1>2, <1>3, <2>1, <2>2
<1>5. ASSUME Terms(p) \ {"code"} # {}, ~ listed
      PROVE  IsDangerousName(p)
  <2>1. PICK i \in DOMAIN words : <<words[i]>> \in HighRisk /\ words[i] # "code"
    BY <1>3, <1>5 DEF Range
  <2>2. ~ Excused(words, i)
    BY <2>1 DEF Excused
  <2>3. ASSUME words \in Harmless, ~ (Len(words) > 1)
        PROVE  FALSE
    <3>1. Len(words) = 1 /\ i = 1
      BY <1>1, <2>1, <2>3
    <3>2. words = <<words[1]>>
      BY <1>1, <3>1
    <3>. QED BY <2>1, <2>3, <3>1, <3>2, TableAssumption
  <2>. QED BY <1>2, <1>5, <2>1, <2>2, <2>3
<1>. QED BY <1>4, <1>5 DEF words

LEMMA FlaggedFacts ==
  ASSUME NEW S, NEW tools \in Seq(S), \A k \in DOMAIN tools : IsTool(tools[k])
  PROVE  /\ IsFiniteSet(Flagged(tools))
         /\ \A o \in Flagged(tools) :
              /\ o[1] \in DOMAIN tools /\ o[2] \in Offered(tools[o[1]])
              /\ o = <<o[1], o[2]>>
              /\ IsDangerousName(o[2]) /\ FreeType(tools[o[1]].schema[o[2]]) # << >>
         /\ \A k \in DOMAIN tools : \A p \in Offered(tools[k]) :
              IsDangerousName(p) /\ FreeType(tools[k].schema[p]) # << >>
                => <<k, p>> \in Flagged(tools)
<1> DEFINE Sub(k) == {q \in Offered(tools[k]) : /\ IsDangerousName(q)
                                                /\ FreeType(tools[k].schema[q]) # << >>}
           F(k) == {<<k, p>> : p \in Sub(k)}
<1>1. Flagged(tools) = UNION {F(k) : k \in DOMAIN tools}
  BY DEF Flagged
<1>2. Len(tools) \in Nat /\ DOMAIN tools = 1 .. Len(tools)
  BY LenProperties
<1>3. ASSUME NEW k \in DOMAIN tools PROVE IsFiniteSet(F(k))
  <2>1. IsFiniteSet({k} \X Offered(tools[k]))
    BY FS_Singleton, FS_Product DEF IsTool
  <2>2. F(k) \in SUBSET ({k} \X Offered(tools[k]))
    OBVIOUS
  <2> HIDE DEF F
  <2>. QED BY <2>1, <2>2, FS_Subset
<1>4. IsFiniteSet(UNION {F(k) : k \in 1 .. Len(tools)})
  <2> DEFINE f == [k \in 1 .. Len(tools) |-> F(k)]
             T == {F(k) : k \in 1 .. Len(tools)}
             n == Len(tools)
  <2>1. f \in [1 .. n -> T] /\ \A k \in 1 .. n : f[k] = F(k)
    OBVIOUS
  <2>2. \A k \in 1 .. n : IsFiniteSet(f[k])
    BY <1>2, <1>3
  <2> HIDE DEF f, T, F
  <2>3. IsFiniteSet(UNION {f[k] : k \in 1 .. n})
    BY <1>2, <2>1, <2>2, ListedUnion
  <2>4. {f[k] : k \in 1 .. n} = {F(k) : k \in 1 .. n}
    BY <2>1
  <2>. QED BY <2>3, <2>4
<1>5. IsFiniteSet(Flagged(tools))
  BY <1>1, <1>2, <1>4
<1>6. ASSUME NEW o \in Flagged(tools)
      PROVE  /\ o[1] \in DOMAIN tools /\ o[2] \in Offered(tools[o[1]])
             /\ o = <<o[1], o[2]>>
             /\ IsDangerousName(o[2]) /\ FreeType(tools[o[1]].schema[o[2]]) # << >>
  <2>1. PICK k \in DOMAIN tools : o \in F(k)
    BY <1>1
  <2>2. PICK p \in Sub(k) : o = <<k, p>>
    BY <2>1
  <2>. QED BY <2>2
<1>7. ASSUME NEW k \in DOMAIN tools, NEW p \in Offered(tools[k]),
             IsDangerousName(p), FreeType(tools[k].schema[p]) # << >>
      PROVE  <<k, p>> \in Flagged(tools)
  <2>1. <<k, p>> \in F(k)
    BY <1>7
  <2> HIDE DEF F
  <2>. QED BY <1>1, <2>1
<1>. QED BY <1>5, <1>6, <1>7

\* The cell that a flagged parameter gets.
CellOf(tools, o) == <<IF tools[o[1]].name = Empty THEN Unnamed ELSE tools[o[1]].name, o[2]>>

\* In whatever order the map is walked, the cells are those of the parameters
\* flagged.
LEMMA CellsOfList ==
  ASSUME NEW S, NEW tools \in Seq(S), \A k \in DOMAIN tools : IsTool(tools[k]),
         NEW d \in ExtractDangerous(tools)
  PROVE  LET cells == [i \in DOMAIN d |-> <<d[i].tool, d[i].param>>]
         IN /\ cells \in Seq(Cell)
            /\ Range(cells) = {CellOf(tools, o) : o \in Flagged(tools)}
<1> DEFINE FS == Flagged(tools)
           cells == [i \in DOMAIN d |-> <<d[i].tool, d[i].param>>]
<1>1. PICK walk \in SetToSeqs(FS) : d = [i \in DOMAIN walk |-> DangerousParam(tools, walk[i])]
  BY DEF ExtractDangerous
<1>2. /\ walk \in [1 .. Cardinality(FS) -> FS]
      /\ \A i, j \in 1 .. Cardinality(FS) : i # j => walk[i] # walk[j]
  BY <1>1 DEF SetToSeqs
<1>3. /\ IsFiniteSet(FS)
      /\ \A o \in FS : o[1] \in DOMAIN tools /\ o[2] \in Offered(tools[o[1]])
  BY FlaggedFacts
<1> HIDE DEF FS
<1>4. /\ DOMAIN walk = 1 .. Cardinality(FS) /\ Cardinality(FS) \in Nat
      /\ {walk[i] : i \in DOMAIN walk} = FS
  BY <1>2, <1>3, Permutation
<1>5. DOMAIN d = DOMAIN walk /\ \A i \in DOMAIN walk : d[i] = DangerousParam(tools, walk[i])
  BY <1>1
<1>6. /\ DOMAIN cells = DOMAIN walk
      /\ \A i \in DOMAIN walk : cells[i] = CellOf(tools, walk[i])
  BY <1>5 DEF DangerousParam, CellOf
<1>7. \A o \in FS : CellOf(tools, o) \in Cell
  <2> TAKE o \in FS
  <2>1. /\ tools[o[1]].name \in STRING \cup {Empty}
        /\ o[2] \in ParamName
    BY <1>3 DEF IsTool
  <2>. QED BY <2>1 DEF CellOf, Cell
<1> HIDE DEF cells
<1>8. \A i \in DOMAIN walk : walk[i] \in FS
  BY <1>4
<1>9. cells \in Seq(Cell)
  <2>0. cells = [i \in DOMAIN cells |-> cells[i]]
    BY DEF cells
  <2>1. cells \in [1 .. Cardinality(FS) -> Cell]
    BY <1>4, <1>6, <1>7, <1>8, <2>0
  <2>. QED BY <1>4, <2>1, FunctionIsSeq
<1>10. {cells[i] : i \in DOMAIN cells} = {CellOf(tools, o) : o \in FS}
  BY <1>4, <1>6
<1>. QED BY <1>9, <1>10 DEF Range, cells, FS

LEMMA CellsOfAnswer ==
  ASSUME NEW e \in Endpoint, NEW f \in Finding[e], NEW d \in DangerOf(f)
  PROVE  LET list == IF f.tools = NoList THEN << >> ELSE f.tools
             cells == [i \in DOMAIN d |-> <<d[i].tool, d[i].param>>]
         IN /\ \A k \in DOMAIN list : IsTool(list[k])
            /\ list \in Seq(Range(list))
            /\ cells # Unreached
            /\ Range(cells) = {CellOf(list, o) : o \in Flagged(list)}
<1> DEFINE list == IF f.tools = NoList THEN << >> ELSE f.tools
           cells == [i \in DOMAIN d |-> <<d[i].tool, d[i].param>>]
<1>1. CASE f.tools = NoList
  <2>1. list = << >> /\ d = << >>
    BY <1>1 DEF DangerOf
  <2>2. DOMAIN d = {} /\ DOMAIN list = {}
    BY <2>1
  <2>3. cells = << >>
    BY <2>2
  <2>4. << >> \in Seq(Cell) /\ << >> \in Seq(Range(<< >>))
    BY EmptySeq
  <2>5. Flagged(list) = {}
    BY <2>2 DEF Flagged
  <2>6. Range(cells) = {}
    BY <2>2 DEF Range
  <2>7. cells # Unreached
    BY <2>3, <2>4, MissingAssumption
  <2> HIDE DEF cells, list
  <2>8. list \in Seq(Range(list)) /\ \A k \in DOMAIN list : IsTool(list[k])
    BY <2>1, <2>2, <2>4
  <2>. QED BY <2>5, <2>6, <2>7, <2>8 DEF cells, list
<1>2. CASE f.tools # NoList
  <2>1. list = f.tools
    BY <1>2
  <2>2. list \in Seq(Range(list)) /\ \A k \in DOMAIN list : IsTool(list[k])
    BY <1>2, FindingAssumption DEF Range
  <2>3. d \in ExtractDangerous(list)
    BY <1>2 DEF DangerOf
  <2> HIDE DEF list
  <2>4. cells \in Seq(Cell) /\ Range(cells) = {CellOf(list, o) : o \in Flagged(list)}
    BY <2>2, <2>3, CellsOfList, Zenon
  <2>5. cells # Unreached
    BY <2>4, MissingAssumption
  <2> HIDE DEF cells
  <2>. QED BY <2>2, <2>4, <2>5 DEF cells, list
<1>. QED BY <1>1, <1>2

\* extractDangerousParameters and the danger cell, for any tables, tools and
\* parameters.
THEOREM DangersTrue == Spec => []DangerTrue
<1>1. ASSUME IInv, NEW n \in DOMAIN printed, NEW i \in DOMAIN printed[n].lines
      PROVE  LET line == printed[n].lines[i]
                 f    == served[n][line.ep]
                 list == IF f.tools = NoList THEN << >> ELSE f.tools
                 offered == UNION {{<<k, p>> : p \in Offered(list[k])} : k \in DOMAIN list}
                 cell(k, p) == <<IF list[k].name = Empty THEN Unnamed ELSE list[k].name, p>>
                 listed(p) == p.words \in Harmless /\ p.sep = "_"
                 free(k, p) == TakesText(list[k].schema[p])
             IN /\ line.danger = Unreached <=> f.conf # "confirmed"
                /\ line.danger # Unreached =>
                     /\ \A o \in offered :
                          Terms(o[2]) \ {"code"} # {} /\ ~ listed(o[2]) /\ free(o[1], o[2])
                            => cell(o[1], o[2]) \in Range(line.danger)
                     /\ \A c \in Range(line.danger) :
                          \E o \in offered : /\ c = cell(o[1], o[2]) /\ free(o[1], o[2])
                                             /\ Terms(o[2]) # {} /\ ~ listed(o[2])
  <2> DEFINE line == printed[n].lines[i]
             row  == db[n][i]
             f    == served[n][line.ep]
             list == IF f.tools = NoList THEN << >> ELSE f.tools
             offered == UNION {{<<k, p>> : p \in Offered(list[k])} : k \in DOMAIN list}
             listed(p) == p.words \in Harmless /\ p.sep = "_"
             free(k, p) == TakesText(list[k].schema[p])
             cells == [j \in DOMAIN row.danger |-> <<row.danger[j].tool, row.danger[j].param>>]
  <2>1. /\ db[n] \in Seq(Row) /\ Kept(db[n], served[n]) /\ served[n] \in Hearing
        /\ i \in DOMAIN db[n] /\ line.ep = row.ep /\ line.danger = DangerCell(row)
    BY <1>1, LineFacts
  <2>2. line.ep \in Endpoint /\ f \in Finding[line.ep] /\ row \in DiscoveredServer(line.ep, f)
    BY <2>1, KeptFacts
  <2>3. row.conf = f.conf /\ row.danger \in DangerOf(f)
    BY <2>2 DEF DiscoveredServer
  <2>4. line.danger = IF f.conf # "confirmed" THEN Unreached ELSE cells
    BY <2>1, <2>3 DEF DangerCell
  <2>5. /\ \A k \in DOMAIN list : IsTool(list[k])
        /\ list \in Seq(Range(list))
        /\ cells # Unreached
        /\ Range(cells) = {CellOf(list, o) : o \in Flagged(list)}
    <3> DEFINE e == line.ep
               d == row.danger
    <3>1. e \in Endpoint /\ f \in Finding[e] /\ d \in DangerOf(f)
      BY <2>2, <2>3
    <3> HIDE DEF e, d, f, row, line
    <3>. QED BY <3>1, CellsOfAnswer, Zenon DEF d
  <2> HIDE DEF list, cells, line, f
  <2>6. ASSUME NEW o \in offered
        PROVE  /\ o[1] \in DOMAIN list /\ o[2] \in Offered(list[o[1]])
               /\ o = <<o[1], o[2]>> /\ o[2] \in ParamName
    <3>1. PICK k \in DOMAIN list : o \in {<<k, p>> : p \in Offered(list[k])}
      OBVIOUS
    <3>2. PICK p \in Offered(list[k]) : o = <<k, p>>
      BY <3>1
    <3>. QED BY <2>5, <3>2 DEF IsTool
  <2>7. ASSUME NEW o \in offered, Terms(o[2]) \ {"code"} # {}, ~ listed(o[2]), free(o[1], o[2])
        PROVE  CellOf(list, o) \in Range(cells)
    <3>1. IsDangerousName(o[2]) /\ FreeType(list[o[1]].schema[o[2]]) # << >>
      BY <2>6, <2>7, NameTells, FreeTells
    <3>2. o \in Flagged(list)
      BY <2>5, <2>6, <3>1, FlaggedFacts
    <3>. QED BY <2>5, <3>2
  <2>8. ASSUME NEW c \in Range(cells)
        PROVE  \E o \in offered : /\ c = CellOf(list, o) /\ free(o[1], o[2])
                                  /\ Terms(o[2]) # {} /\ ~ listed(o[2])
    <3>1. PICK o \in Flagged(list) : c = CellOf(list, o)
      BY <2>5
    <3>2. /\ o[1] \in DOMAIN list /\ o[2] \in Offered(list[o[1]]) /\ o = <<o[1], o[2]>>
          /\ IsDangerousName(o[2]) /\ FreeType(list[o[1]].schema[o[2]]) # << >>
      BY <2>5, FlaggedFacts
    <3>3. o \in offered
      BY <3>2
    <3>4. free(o[1], o[2])
      BY <3>2, FreeTells
    <3>5. Terms(o[2]) # {} /\ ~ listed(o[2])
      BY <2>6, <3>2, <3>3, NameTells
    <3>. QED BY <3>1, <3>3, <3>4, <3>5
  <2> HIDE DEF offered, listed, free
  <2>9. /\ line.danger = Unreached <=> f.conf # "confirmed"
        /\ line.danger # Unreached =>
             /\ \A o \in offered :
                  Terms(o[2]) \ {"code"} # {} /\ ~ listed(o[2]) /\ free(o[1], o[2])
                    => CellOf(list, o) \in Range(line.danger)
             /\ \A c \in Range(line.danger) :
                  \E o \in offered : /\ c = CellOf(list, o) /\ free(o[1], o[2])
                                     /\ Terms(o[2]) # {} /\ ~ listed(o[2])
    BY <2>4, <2>5, <2>7, <2>8
  <2>. QED BY <2>9 DEF line, f, list, offered, listed, free, CellOf
<1>2. IInv => DangerTrue
  BY <1>1, Zenon DEF DangerTrue
<1>. QED BY <1>2, Invariance, PTL
=============================================================================
