------------------------------ MODULE Pipeline ------------------------------
(***************************************************************************)
(* mcpscan from the command line to the page it prints (src/main.go and    *)
(* src/internal/report): one invocation after the other, scans of the same *)
(* targets and re-rendered reports, over one database file.                *)
(*                                                                         *)
(* The parts stand for what their own modules show of them: the port scan  *)
(* is PortScanAbs, the verdicts are those of History, confidence and risk  *)
(* follow as in Probe, and ToolDefs says what is made of a tool list.      *)
(* main passes context.Background(), so no phase is cancelled.             *)
(***************************************************************************)
EXTENDS ToolDefs

CONSTANTS
  Endpoint,           \* ip:port pairs asked for
  Precedes(_,_),      \* the port scanner's order on them
  Finding,            \* what detection may hear: Endpoint -> set of records
                      \* [conf, name, tools], tools a list of tools or NoList
  AuditReply,         \* verdicts an audit may come to: subset of AuditVerdict
  NoList,             \* tools/list was not sent, or not answered by a result
  Absent,
  Unreached,          \* "N/A (unreachable)"
  MaxRuns             \* bound: scans started

AuditVerdict == {<<"unprotected", "high">>, <<"protected", "low">>, <<"unknown", "medium">>}

\* What a server page shows of a flagged parameter.
Cell == (STRING \cup {Unnamed}) \X ParamName

\* The hash and the flagged parameters of what was heard: both functions read
\* the same answer.
HashOf(f) == IF f.tools = NoList THEN Empty ELSE ToolHash(f.tools)
DangerOf(f) == IF f.tools = NoList THEN {<< >>} ELSE ExtractDangerous(f.tools)

\* A DiscoveredServer for what was heard of e.
DiscoveredServer(e, f) ==
  [ep : {e}, conf : {f.conf}, name : {f.name}, danger : DangerOf(f), hash : {HashOf(f)},
   auth : {"unknown", "protected", "unprotected"}, risk : {"low", "medium", "high"},
   integrity : {Absent, "not evaluated", "new", "replaced", "unchanged", "modified"}]

ASSUME AuditAssumption == AuditReply \subseteq AuditVerdict /\ AuditReply # {}
ASSUME RunAssumption == MaxRuns \in Nat /\ IsFiniteSet(Endpoint)
ASSUME FindingAssumption ==
  \A e \in Endpoint : \A f \in Finding[e] :
    f.tools # NoList => /\ f.conf = "confirmed"
                        /\ f.tools \in Seq(Range(f.tools))
                        /\ \A tool \in Range(f.tools) : IsTool(tool)
\* The names for what is missing are not taken for anything else.
ASSUME MissingAssumption ==
  /\ \A e \in Endpoint : Absent \notin Finding[e]
  /\ \A e \in Endpoint : \A f \in Finding[e] :
       /\ Absent \notin DiscoveredServer(e, f)
       /\ f.tools \notin {NoList, << >>} => ToolHash(f.tools) # Empty
  /\ Unreached \notin Seq(Cell)

VARIABLES
  pc,       \* the phase of main, "idle" between two invocations
  runs,     \* scans started
  dialed, answered, result, status,  \* the port scan
  servers,  \* the slice handed from phase to phase
  db,       \* discovered_servers, a sequence of rows for each scan saved
  page,     \* the last page printed by a report
  heard,    \* ghost: what detection heard in this scan
  served,   \* ghost: heard, for each scan saved
  printed   \* ghost: the page each scan printed

portscan == <<dialed, answered, result, status>>
ghosts == <<heard, served, printed>>
vars == <<pc, runs, portscan, servers, db, page, ghosts>>

ScanPorts == INSTANCE PortScanAbs WITH Job <- Endpoint

History(rows) ==
  [n \in DOMAIN rows |-> [seen |-> [e \in Endpoint |->
     IF \E i \in DOMAIN rows[n] : rows[n][i].ep = e
     THEN rows[n][CHOOSE i \in DOMAIN rows[n] : rows[n][i].ep = e]
     ELSE Absent]]]

Storage == INSTANCE History WITH Seen <- {}, log <- db

Silence == [e \in Endpoint |-> Absent]

Init == /\ pc = "idle" /\ runs = 0
        /\ ScanPorts!AbsInit
        /\ servers = << >> /\ db = << >> /\ page = Absent
        /\ heard = Silence /\ served = << >> /\ printed = << >>
-----------------------------------------------------------------------------
(* The page. *)

\* The danger cell: only a confirmed server has one, and none flagged is
\* shown as "safe".
DangerCell(row) ==
  IF row.conf # "confirmed" THEN Unreached
  ELSE [i \in DOMAIN row.danger |-> <<row.danger[i].tool, row.danger[i].param>>]

Line(row) == [ep |-> row.ep, conf |-> row.conf, auth |-> row.auth, risk |-> row.risk,
              integrity |-> row.integrity, danger |-> DangerCell(row)]

\* The counts of the summary line; those by status and risk leave out "none".
Counts(rows) ==
  LET mcp == SelectSeq(rows, LAMBDA r : r.conf # "none")
      Tally(s, field) == [v \in {s[i][field] : i \in DOMAIN s} |->
                            Cardinality({i \in DOMAIN s : s[i][field] = v})]
  IN <<Tally(rows, "conf"), Tally(mcp, "auth"), Tally(mcp, "risk")>>

Render(rows) == [lines |-> [i \in DOMAIN rows |-> Line(rows[i])], counts |-> Counts(rows)]

\* resolveHTTPIntegrity of each row, with the scans of h before it.
Resolve(h, rows) ==
  [i \in DOMAIN rows |->
     [rows[i] EXCEPT !.integrity = Storage!Verdict(History(h), rows[i].ep, rows[i])]]
-----------------------------------------------------------------------------
(* A scan. *)

\* An error ends the invocation; nothing is printed.
Exit == /\ pc' = "idle" /\ servers' = << >> /\ heard' = Silence
        /\ dialed' = {} /\ answered' = {} /\ result' = << >> /\ status' = "running"

\* Targets or ports that do not resolve end the scan before it dials.
ResolveTargets ==
  /\ pc = "idle" /\ runs < MaxRuns
  /\ runs' = runs + 1
  /\ page' = Absent
  /\ pc' \in {"ports", "idle"}
  /\ UNCHANGED <<portscan, servers, db, ghosts>>

DialPort(e) == /\ pc = "ports"
               /\ ScanPorts!AbsDial(e)
               /\ UNCHANGED <<pc, runs, servers, db, page, ghosts>>

PortsScanned == /\ pc = "ports"
                /\ result' \in SetToSeqs(answered)
                /\ ScanPorts!AbsReturn
                /\ pc' = "detect"
                /\ UNCHANGED <<runs, servers, db, page, ghosts>>

\* DetectPort, before the audit and the save.
Detected(e, f) ==
  {s \in DiscoveredServer(e, f) : s.auth = "unknown" /\ s.risk = "low" /\ s.integrity = Absent}

\* What the open ports may answer.
Hearings == {h \in [Endpoint -> (UNION Range(Finding)) \cup {Absent}] :
               \A e \in Endpoint : h[e] \in IF e \in answered THEN Finding[e] ELSE {Absent}}

\* The slices for these endpoints, given what was heard.
Detections(eps, h) ==
  {s \in [DOMAIN eps -> UNION {Detected(e, h[e]) : e \in Range(eps)}] :
     \A i \in DOMAIN eps : s[i].ep = eps[i]}

\* Bug: ports that turn out not to be MCP servers are dropped from the slice.
DetectBatchMcp ==
  /\ pc = "detect"
  /\ heard' \in Hearings
  /\ servers' \in Detections(SelectSeq(result, LAMBDA e : heard'[e].conf # "none"), heard')
  /\ pc' = "audit"
  /\ UNCHANGED <<runs, portscan, db, page, served, printed>>

\* DetectBatch: one result for each open port, at its index.
DetectBatch ==
  /\ pc = "detect"
  /\ heard' \in Hearings
  /\ servers' \in Detections(result, heard')
  /\ pc' = "audit"
  /\ UNCHANGED <<runs, portscan, db, page, served, printed>>

\* What CheckAuth may say of a server of that confidence.
AuthOf(conf) ==
  CASE conf = "none" -> {<<"unknown", "low">>}
    [] conf = "unverifiable_protected" -> {<<"protected", "medium">>}
    [] OTHER -> AuditReply

CheckAuthBatch ==
  /\ pc = "audit"
  /\ \E verdict \in [DOMAIN servers -> AuditVerdict \cup {<<"unknown", "low">>, <<"protected", "medium">>}] :
       /\ \A i \in DOMAIN servers : verdict[i] \in AuthOf(servers[i].conf)
       /\ servers' = [i \in DOMAIN servers |-> [servers[i] EXCEPT !.auth = verdict[i][1],
                                                                  !.risk = verdict[i][2]]]
  /\ pc' = "save"
  /\ UNCHANGED <<runs, portscan, db, page, ghosts>>

\* Bug: a failed save is dropped, and the scan announced all the same.
SaveScanIgnored ==
  /\ pc = "save"
  /\ servers' = Resolve(db, servers)
  /\ \/ db' = Append(db, servers) /\ served' = Append(served, heard)
     \/ UNCHANGED <<db, served>>
  /\ pc' = "render"
  /\ UNCHANGED <<runs, portscan, page, heard, printed>>

\* InitSchema and SaveScan: the rows are resolved in place and saved together,
\* or an error ends the scan.
SaveScan ==
  /\ pc = "save"
  /\ \/ /\ servers' = Resolve(db, servers)
        /\ db' = Append(db, servers)
        /\ served' = Append(served, heard)
        /\ pc' = "render"
        /\ UNCHANGED <<portscan, heard>>
     \/ Exit /\ UNCHANGED <<db, served>>
  /\ UNCHANGED <<runs, page, printed>>

RenderScan ==
  /\ pc = "render"
  /\ printed' = Append(printed, Render(servers))
  /\ Exit
  /\ UNCHANGED <<runs, db, page, served>>
-----------------------------------------------------------------------------
(* The report subcommand. *)

\* Bug: the rows are resolved against all that is in the file.
ReportLate ==
  /\ pc = "idle" /\ db # << >>
  /\ page' = Render(Resolve(db, Last(db)))
  /\ UNCHANGED <<pc, runs, portscan, servers, db, ghosts>>

\* GetLastScan and Render: verdicts are not stored, but found again.
Report ==
  /\ pc = "idle" /\ db # << >>
  /\ page' = Render(Resolve(Front(db), Last(db)))
  /\ UNCHANGED <<pc, runs, portscan, servers, db, ghosts>>

Finished == pc = "idle" /\ runs = MaxRuns /\ UNCHANGED vars

Next == \/ ResolveTargets \/ PortsScanned \/ DetectBatch \/ CheckAuthBatch
        \/ SaveScan \/ RenderScan \/ Report \/ Finished
        \/ \E e \in Endpoint : DialPort(e)

Spec == Init /\ [][Next]_vars
-----------------------------------------------------------------------------
(* Properties. *)

\* Type correctness of main (main.go:23-185); every scan that reached the file
\* prints one page, and no other does.
TypeOK ==
  /\ pc \in {"idle", "ports", "detect", "audit", "save", "render"}
  /\ runs \in 0 .. MaxRuns
  /\ dialed \subseteq Endpoint /\ answered \subseteq dialed
  /\ Range(result) \subseteq answered
  /\ Len(served) = Len(db)
  /\ Len(printed) = IF pc = "render" THEN Len(db) - 1 ELSE Len(db)
  /\ page # Absent => db # << >>

\* Lines, or rows, for the endpoints that were heard of, each once, in order.
Shows(lines, h) ==
  LET eps == [i \in DOMAIN lines |-> lines[i].ep]
  IN /\ ScanPorts!Lists(eps, {e \in Endpoint : h[e] # Absent})
     /\ ScanPorts!Ordered(eps)

\* A page has one line for each endpoint asked for that answered, in order,
\* and none for any other (main.go:105-184: a slice goes through five phases,
\* the file and back).
LinesExact ==
  /\ \A n \in DOMAIN printed : Shows(printed[n].lines, served[n])
  /\ page # Absent => Shows(page.lines, Last(served))

HasTools(f) == f # Absent /\ f.tools \notin {NoList, << >>}
Distinct(tools) == \A i, j \in DOMAIN tools : tools[i].name = tools[j].name => i = j
Definitions(tools) == {Decoded(tools[i]) : i \in DOMAIN tools}

Mcp(f) == f # Absent /\ f.conf \in {"likely", "confirmed"}

\* Across any scans in between, failed ones and ones that saw no tools too: the
\* tools of a server that was heard as MCP for the first time are new; when the
\* decoded definitions (name, description, inputSchema) or the server's name
\* differ from those last seen at that endpoint, the page says so, however long
\* ago that was; and if the server was not heard as MCP in between, it says
\* which of the two differs, and unchanged if and only if neither does,
\* whatever the order the tools came in.  A server whose definitions could not
\* be asked for is not evaluated (detector.go:249-279, sqlite.go:134-176).
RugPullSeen ==
  \A n \in DOMAIN printed : \A i \in DOMAIN printed[n].lines :
    LET line == printed[n].lines[i]
        now  == served[n][line.ep]
        past == {m \in 1 .. n - 1 : HasTools(served[m][line.ep])}
        last == CHOOSE m \in past : \A k \in past : k <= m
        prev == served[last][line.ep]
        same == Definitions(prev.tools) = Definitions(now.tools)
        same_server == prev.name = now.name \/ Empty \in {prev.name, now.name}
        quiet == \A m \in last + 1 .. n - 1 : ~ Mcp(served[m][line.ep])
    IN /\ ~ Mcp(now) => line.integrity = "not evaluated"
       /\ HasTools(now) => line.integrity # "not evaluated"
       /\ HasTools(now) /\ (\A m \in 1 .. n - 1 : ~ Mcp(served[m][line.ep])) => line.integrity = "new"
       /\ HasTools(now) /\ past # {} => line.integrity # "new"
       /\ HasTools(now) /\ past # {} /\ Distinct(now.tools) /\ Distinct(prev.tools) =>
            /\ ~ (same_server /\ same) => line.integrity \in {"replaced", "modified"}
            /\ quiet => /\ line.integrity = "replaced" <=> ~ same_server
                        /\ line.integrity = "modified" <=> same_server /\ ~ same
                        /\ line.integrity = "unchanged" <=> same_server /\ same

\* What the README says of the verdicts, and the code does not do.

\* Not evaluated: "Tool definitions were unreachable during scan"
\* (README.md:155); an answer that lists no tools is as good as none
\* (detector.go:256, sqlite.go:135).
NotEvaluatedMeansUnreachable ==
  \A n \in DOMAIN printed : \A i \in DOMAIN printed[n].lines :
    LET line == printed[n].lines[i]
    IN line.integrity = "not evaluated" => served[n][line.ep].tools = NoList

\* New: "First observation of the server endpoint" (README.md:151); earlier
\* scans that heard a server there without tools are passed over
\* (sqlite.go:145).
NewMeansFirst ==
  \A n \in DOMAIN printed : \A i \in DOMAIN printed[n].lines :
    LET line == printed[n].lines[i]
    IN line.integrity = "new" => \A m \in 1 .. n - 1 : ~ Mcp(served[m][line.ep])

\* A server whose tool definitions were "altered since last observation"
\* (README.md:153), here since the scan just before, is not unchanged; what
\* the detector does not decode of a tool is no part of the hash
\* (detector.go:186-193).
UnchangedMeansSame ==
  \A n \in DOMAIN printed : \A i \in DOMAIN printed[n].lines :
    LET line == printed[n].lines[i]
        now  == served[n][line.ep]
        prev == served[n - 1][line.ep]
    IN n > 1 /\ line.integrity = "unchanged" /\ HasTools(now) /\ HasTools(prev)
         => Range(prev.tools) = Range(now.tools)

\* The three lines of the README's table are broken together, by the pages of
\* one server's scans: not even one of them outlives every run.
AnyIntegrityPromise == NotEvaluatedMeansUnreachable \/ NewMeansFirst \/ UnchangedMeansSame

Terms(p) == {w \in Range(p.words) : <<w>> \in HighRisk}
TakesText(prop) ==
  prop = Nil \/ (~ prop.enum /\ (prop.types = Untyped \/ "string" \in Range(prop.types)))

\* The danger cell is about the list that was served in that scan: it names
\* every parameter that takes free text under a system term other than code,
\* unless its name is on the deny list, and nothing on the deny list, without
\* a term, or that cannot take free text; "unreachable" is for those not
\* confirmed, and only for them (detector.go:89-246, report.go:93-108).
DangerTrue ==
  \A n \in DOMAIN printed : \A i \in DOMAIN printed[n].lines :
    LET line == printed[n].lines[i]
        f    == served[n][line.ep]
        list == IF f.tools = NoList THEN << >> ELSE f.tools
        offered == UNION {{<<k, p>> : p \in Offered(list[k])} : k \in DOMAIN list}
        cell(k, p) == <<IF list[k].name = Empty THEN Unnamed ELSE list[k].name, p>>
        listed(p) == p.words \in Harmless /\ p.sep = "_"
        free(k, p) == TakesText(list[k].schema[p])
    IN /\ line.danger = Unreached <=> f.conf # "confirmed"
       /\ line.danger # Unreached =>
            /\ \A o \in offered :
                 Terms(o[2]) \ {"code"} # {} /\ ~ listed(o[2]) /\ free(o[1], o[2])
                   => cell(o[1], o[2]) \in Range(line.danger)
            /\ \A c \in Range(line.danger) :
                 \E o \in offered : /\ c = cell(o[1], o[2]) /\ free(o[1], o[2])
                                    /\ Terms(o[2]) # {} /\ ~ listed(o[2])

\* With nobody else at the file, a report repeats the page of the last scan,
\* verdicts included, although those are not stored but found again
\* (sqlite.go:485-535, main.go:187-213).
ReportRepeatsRender == page # Absent => page = Last(printed)
=============================================================================
