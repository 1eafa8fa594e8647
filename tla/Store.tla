-------------------------------- MODULE Store --------------------------------
(***************************************************************************)
(* The tail of a scan and the report, over one SQLite file: main.go from   *)
(* the end of the network phases on, and src/internal/storage/sqlite.go.   *)
(* Several scanner processes and report processes share the file; any      *)
(* scanner may be killed between any two steps.                            *)
(*                                                                         *)
(* The file is in rollback-journal mode and no busy timeout is set, so a   *)
(* statement that meets a conflicting lock fails at once:                  *)
(*   lock    the connection that may write (RESERVED), or NoOne            *)
(*   pending its COMMIT has begun (PENDING): no new reader gets in         *)
(*   readers the connections with an open read (SHARED)                    *)
(***************************************************************************)
EXTENDS Integers, Sequences, Functions

CONSTANTS Scanner, Reporter, \* processes
          NoOne,
          Endpoint,          \* ip:port pairs
          Config,            \* source tool, config file and name of a stdio server
          Observation,       \* what the phases before may have found: records
                             \* [http: Endpoint -> Absent or [name, hash],
                             \*  stdio: Config -> Absent or a config hash]
          Absent,
          Empty              \* the empty hash, and the empty name

ASSUME KeyAssumption == Endpoint \cap Config = {}
ASSUME ProcessAssumption == NoOne \notin Scanner \cup Reporter
                            /\ Scanner \cap Reporter = {}
ASSUME AbsentAssumption ==
  Absent \notin {"new", "unchanged", "modified", "replaced", "not evaluated"}

VARIABLES
  pc,                     \* of every process
  obs,                    \* a scanner's findings, held in memory
  id,                     \* record.ID, 0 before the insert
  todo,                   \* endpoints, configs or row numbers of the loop in
                          \* hand still to do
  tx,                     \* rows of an open transaction
  status, stdioStatus,    \* integrity verdicts a process will render
  schema,                 \* tables of the file that exist, of three
  scans, http, stdio,     \* their committed rows
  lock, pending, readers

proc == <<pc, obs, id, todo, tx, status, stdioStatus>>
file == <<schema, scans, http, stdio>>
locks == <<lock, pending, readers>>
vars == <<proc, file, locks>>

Process == Scanner \cup Reporter
Nothing == [http  |-> [e \in Endpoint |-> Absent],
            stdio |-> [c \in Config |-> Absent]]
Tables == 3
Final == {"done", "failed"}

Init ==
  /\ pc = [x \in Process |-> IF x \in Scanner THEN "probing" ELSE "report"]
  /\ obs = [x \in Process |-> Nothing]
  /\ id = [x \in Process |-> 0]
  /\ todo = [x \in Process |-> {}]
  /\ tx = [x \in Process |-> << >>]
  /\ status = [x \in Process |-> [e \in Endpoint |-> Absent]]
  /\ stdioStatus = [x \in Process |-> Nothing.stdio]
  /\ schema = 0 /\ scans = << >> /\ http = << >> /\ stdio = << >>
  /\ lock = NoOne /\ pending = FALSE /\ readers = {}

Goto(x, state) == pc' = [pc EXCEPT ![x] = state]

\* A read by x fails while another connection commits.
ReadBusy(x)  == pending /\ lock # x
\* A write by x fails while another connection holds the write lock.
WriteBusy(x) == lock \notin {NoOne, x}

\* Dropping a transaction: its rows go, and its locks.
Released(x) == /\ lock' = IF lock = x THEN NoOne ELSE lock
               /\ pending' = (pending /\ lock # x)
               /\ readers' = readers \ {x}

\* The memory of a scanner that ends before its scan is in the file.
Lost(s) == /\ obs' = [obs EXCEPT ![s] = Nothing]
           /\ id' = [id EXCEPT ![s] = 0]
           /\ todo' = [todo EXCEPT ![s] = {}]
           /\ tx' = [tx EXCEPT ![s] = << >>]
           /\ status' = [status EXCEPT ![s] = [e \in Endpoint |-> Absent]]
           /\ stdioStatus' = [stdioStatus EXCEPT ![s] = Nothing.stdio]

Found(o) == {e \in Endpoint : o.http[e] # Absent}
Configs(o) == {c \in Config : o.stdio[c] # Absent}
-----------------------------------------------------------------------------
(* The integrity queries. *)

\* ORDER BY s.id DESC LIMIT 1, of the row numbers selected.
Latest(ns) == CHOOSE n \in ns : \A m \in ns : m <= n

\* Bug: rows of the current scan and of later ones count as history.
EarlierAny(rows, scan) == DOMAIN rows

\* WHERE scan_id < current.
Earlier(rows, scan) == {n \in DOMAIN rows : rows[n].scan < scan}

\* resolveHTTPIntegrity over the rows of the table, for a row of endpoint e.
HttpVerdict(rows, row, e, scan) ==
  LET past == {n \in Earlier(rows, scan) : rows[n].ep = e /\ rows[n].hash # Empty}
      prev == rows[Latest(past)]
  IN IF row.hash = Empty THEN "not evaluated"
     ELSE IF past = {} THEN "new"
     ELSE IF Empty \notin {prev.name, row.name} /\ prev.name # row.name
     THEN "replaced"
     ELSE IF prev.hash = row.hash THEN "unchanged" ELSE "modified"

\* resolveStdioIntegrity; a config hash is never empty.
StdioVerdict(rows, hash, c, scan) ==
  LET past == {n \in Earlier(rows, scan) : rows[n].cfg = c}
  IN IF past = {} THEN "new"
     ELSE IF rows[Latest(past)].hash = hash THEN "unchanged" ELSE "modified"
-----------------------------------------------------------------------------
(* A scanner: main from InitSchema to Render. *)

Probe(s) ==
  /\ pc[s] = "probing"
  /\ \E o \in Observation : obs' = [obs EXCEPT ![s] = o]
  /\ Goto(s, "schema")
  /\ UNCHANGED <<id, todo, tx, status, stdioStatus, file, locks>>

\* Bug: a file with one of the tables is taken to have them all.
InitSchemaOnce(s) ==
  /\ pc[s] = "schema"
  /\ IF schema # 0 THEN Goto(s, "save") /\ UNCHANGED schema
     ELSE schema' = schema + 1 /\ UNCHANGED pc
  /\ UNCHANGED <<obs, id, todo, tx, status, stdioStatus, scans, http, stdio, locks>>

\* Three CREATE TABLE IF NOT EXISTS, each committed by itself: a write only if
\* the table is missing; of two processes creating tables at once either may
\* find the file busy.
InitSchema(s) ==
  /\ pc[s] = "schema"
  /\ \/ /\ ReadBusy(s) \/ (schema < Tables /\ \E x \in Scanner \ {s} : pc[x] = "schema")
        /\ Goto(s, "failed") /\ Lost(s) /\ UNCHANGED schema
     \/ /\ ~ ReadBusy(s)
        /\ IF schema < Tables THEN schema' = schema + 1 /\ UNCHANGED pc
           ELSE Goto(s, "save") /\ UNCHANGED schema
        /\ UNCHANGED <<obs, id, todo, tx, status, stdioStatus>>
  /\ UNCHANGED <<scans, http, stdio, locks>>

\* Bug: the ID is the highest in use plus one, read before the write lock.
InsertScanUnlocked(s) ==
  /\ pc[s] = "save"
  /\ id' = [id EXCEPT ![s] = Len(scans) + 1]
  /\ todo' = [todo EXCEPT ![s] = Found(obs[s])]
  /\ tx' = [tx EXCEPT ![s] = << >>]
  /\ Goto(s, "servers")
  /\ UNCHANGED <<obs, status, stdioStatus, file, locks>>

\* SaveScan's first statement takes the write lock, and the scan its ID.
InsertScan(s) ==
  /\ pc[s] = "save"
  /\ \/ WriteBusy(s) /\ Goto(s, "failed") /\ Lost(s) /\ UNCHANGED lock
     \/ /\ ~ WriteBusy(s)
        /\ lock' = s
        /\ id' = [id EXCEPT ![s] = Len(scans) + 1]
        /\ todo' = [todo EXCEPT ![s] = Found(obs[s])]
        /\ tx' = [tx EXCEPT ![s] = << >>]
        /\ Goto(s, "servers")
        /\ UNCHANGED <<obs, status, stdioStatus>>
  /\ UNCHANGED <<file, pending, readers>>

\* Bug: each server row is committed as it is inserted.
InsertServerNoTx(s) ==
  /\ pc[s] = "servers" /\ todo[s] # {}
  /\ LET e == CHOOSE e \in todo[s] : TRUE
         row == obs[s].http[e]
     IN /\ status' = [status EXCEPT ![s][e] = HttpVerdict(http, row, e, id[s])]
        /\ http' = Append(http, [scan |-> id[s], ep |-> e,
                                 name |-> row.name, hash |-> row.hash])
        /\ todo' = [todo EXCEPT ![s] = @ \ {e}]
  /\ UNCHANGED <<pc, obs, id, tx, stdioStatus, schema, scans, stdio, locks>>

\* One turn of the insert loop, in the order of the slice: the verdict, then
\* the row.
InsertServer(s) ==
  /\ pc[s] = "servers" /\ todo[s] # {}
  /\ LET e == CHOOSE e \in todo[s] : TRUE
         row == obs[s].http[e]
     IN /\ status' = [status EXCEPT ![s][e] = HttpVerdict(http, row, e, id[s])]
        /\ tx' = [tx EXCEPT ![s] = Append(@, [scan |-> id[s], ep |-> e,
                                   name |-> row.name, hash |-> row.hash])]
        /\ todo' = [todo EXCEPT ![s] = @ \ {e}]
  /\ UNCHANGED <<pc, obs, id, stdioStatus, file, locks>>

BeginCommit(s) ==
  /\ \/ pc[s] = "servers" /\ todo[s] = {} /\ Goto(s, "commit")
     \/ pc[s] = "stdio" /\ todo[s] = {} /\ Goto(s, "stdioCommit")
  /\ pending' = TRUE
  /\ UNCHANGED <<obs, id, todo, tx, status, stdioStatus, file, lock, readers>>

\* Where main goes with a saved scan: on to its stdio servers, if any.
AfterSave(s) == IF Configs(obs[s]) = {} THEN "done" ELSE "stdio"

\* Bug: a save that the file was too busy for is made again, and so is one
\* that has a stdio part to go.
CommitRetry(s) ==
  /\ pc[s] = "commit"
  /\ IF readers \ {s} # {}
     THEN Goto(s, "save") /\ UNCHANGED <<scans, http>>
     ELSE /\ scans' = Append(scans, s)
          /\ http' = http \o tx[s]
          /\ Goto(s, IF Configs(obs[s]) = {} THEN "done" ELSE "save")
  /\ tx' = [tx EXCEPT ![s] = << >>]
  /\ Released(s)
  /\ UNCHANGED <<obs, id, todo, status, stdioStatus, schema, stdio>>

\* Bug: the error of the commit is dropped.
CommitIgnored(s) ==
  /\ pc[s] = "commit"
  /\ IF readers \ {s} # {}
     THEN UNCHANGED <<scans, http>>
     ELSE scans' = Append(scans, s) /\ http' = http \o tx[s]
  /\ Goto(s, AfterSave(s))
  /\ todo' = [todo EXCEPT ![s] = Configs(obs[s])]
  /\ tx' = [tx EXCEPT ![s] = << >>]
  /\ Released(s)
  /\ UNCHANGED <<obs, id, status, stdioStatus, schema, stdio>>

\* tx.Commit; a reader in the way makes it fail, and the scan is rolled back.
Commit(s) ==
  /\ pc[s] = "commit"
  /\ \/ /\ readers \ {s} # {}
        /\ Goto(s, "failed") /\ Lost(s) /\ UNCHANGED <<scans, http>>
     \/ /\ readers \ {s} = {}
        /\ scans' = Append(scans, s)
        /\ http' = http \o tx[s]
        /\ todo' = [todo EXCEPT ![s] = Configs(obs[s])]
        /\ tx' = [tx EXCEPT ![s] = << >>]
        /\ Goto(s, AfterSave(s))
        /\ UNCHANGED <<obs, id, status, stdioStatus>>
  /\ Released(s)
  /\ UNCHANGED <<schema, stdio>>

\* A turn of SaveStdioDiscoveredServers: the query comes first, and its error,
\* like an empty answer, means "new"; an answered query keeps its read lock.
StdioResolve(s) ==
  /\ pc[s] = "stdio" /\ todo[s] # {}
  /\ \E c \in todo[s] :
       stdioStatus' = [stdioStatus EXCEPT ![s][c] =
         IF ReadBusy(s) THEN "new" ELSE StdioVerdict(stdio, obs[s].stdio[c], c, id[s])]
  /\ readers' = IF ReadBusy(s) THEN readers ELSE readers \cup {s}
  /\ Goto(s, "stdioInsert")
  /\ UNCHANGED <<obs, id, todo, tx, status, file, lock, pending>>

\* Bug: each stdio row is committed as it is inserted.
StdioInsertNoTx(s) ==
  /\ pc[s] = "stdioInsert"
  /\ IF WriteBusy(s)
     THEN Goto(s, "done") /\ Released(s) /\ UNCHANGED <<todo, stdio>>
     ELSE /\ \E c \in {d \in todo[s] : stdioStatus[s][d] # Absent} :
               /\ stdio' = Append(stdio, [scan |-> id[s], cfg |-> c, hash |-> obs[s].stdio[c]])
               /\ todo' = [todo EXCEPT ![s] = @ \ {c}]
          /\ Goto(s, "stdio") /\ UNCHANGED locks
  /\ UNCHANGED <<obs, id, tx, status, stdioStatus, schema, scans, http>>

\* The insert of the row just resolved takes the write lock; main only warns
\* when this save fails, and renders all the same.
StdioInsert(s) ==
  /\ pc[s] = "stdioInsert"
  /\ IF WriteBusy(s)
     THEN Goto(s, "done") /\ Released(s) /\ tx' = [tx EXCEPT ![s] = << >>] /\ UNCHANGED todo
     ELSE /\ \E c \in {d \in todo[s] : stdioStatus[s][d] # Absent} :
               /\ tx' = [tx EXCEPT ![s] =
                    Append(@, [scan |-> id[s], cfg |-> c, hash |-> obs[s].stdio[c]])]
               /\ todo' = [todo EXCEPT ![s] = @ \ {c}]
          /\ Goto(s, "stdio")
          /\ lock' = s /\ UNCHANGED <<pending, readers>>
  /\ UNCHANGED <<obs, id, status, stdioStatus, file>>

StdioCommit(s) ==
  /\ pc[s] = "stdioCommit"
  /\ stdio' = IF readers \ {s} # {} THEN stdio ELSE stdio \o tx[s]
  /\ tx' = [tx EXCEPT ![s] = << >>]
  /\ Goto(s, "done")
  /\ Released(s)
  /\ UNCHANGED <<obs, id, todo, status, stdioStatus, schema, scans, http>>

\* SIGINT, a crash, a power cut: SQLite rolls an open transaction back. Between
\* two phases it is as if the process had not got that far.
Kill(s) ==
  /\ pc[s] \notin Final \cup {"probing", "save"}
  /\ pc[s] = "schema" => schema \in 1 .. Tables - 1
  /\ Goto(s, "failed")
  /\ IF s \in Range(scans)
     THEN /\ todo' = [todo EXCEPT ![s] = {}]
          /\ tx' = [tx EXCEPT ![s] = << >>]
          /\ stdioStatus' = [stdioStatus EXCEPT ![s] = Nothing.stdio]
          /\ UNCHANGED <<obs, id, status>>
     ELSE Lost(s)
  /\ Released(s)
  /\ UNCHANGED file

Scan(s) == \/ Probe(s) \/ InitSchema(s) \/ InsertScan(s) \/ InsertServer(s)
           \/ BeginCommit(s) \/ Commit(s) \/ StdioResolve(s) \/ StdioInsert(s)
           \/ StdioCommit(s)
-----------------------------------------------------------------------------
(* A report: runReportSubcommand. *)

\* GetLastScan's first query; no table, no record and no lock all end it.
LastScan(r) ==
  /\ pc[r] = "report"
  /\ IF schema = 0 \/ scans = << >> \/ ReadBusy(r)
     THEN Goto(r, "failed") /\ UNCHANGED id
     ELSE Goto(r, "query") /\ id' = [id EXCEPT ![r] = Len(scans)]
  /\ UNCHANGED <<obs, todo, tx, status, stdioStatus, file, locks>>

\* WHERE scan_id = scan.
RowsOf(rows, scan) == {n \in DOMAIN rows : rows[n].scan = scan}

NextRow(r) == CHOOSE n \in todo[r] : \A m \in todo[r] : n <= m

\* The open result set of getServersForScan keeps a read lock.
QueryServers(r) ==
  /\ pc[r] = "query"
  /\ IF ReadBusy(r)
     THEN Goto(r, "failed") /\ UNCHANGED <<todo, readers>>
     ELSE /\ todo' = [todo EXCEPT ![r] = RowsOf(http, id[r])]
          /\ readers' = readers \cup {r}
          /\ Goto(r, "rows")
  /\ UNCHANGED <<obs, id, tx, status, stdioStatus, file, lock, pending>>

\* Each row's verdict is computed anew on a second connection; an error
\* there, too, means "new".
ReadServer(r) ==
  /\ pc[r] = "rows" /\ todo[r] # {}
  /\ LET row == http[NextRow(r)]
     IN status' = [status EXCEPT ![r][row.ep] =
          IF ReadBusy(r) /\ row.hash # Empty THEN "new"
          ELSE HttpVerdict(http, row, row.ep, id[r])]
  /\ todo' = [todo EXCEPT ![r] = @ \ {NextRow(r)}]
  /\ UNCHANGED <<pc, obs, id, tx, stdioStatus, file, locks>>

CloseServers(r) ==
  /\ pc[r] = "rows" /\ todo[r] = {}
  /\ Goto(r, "reportStdio")
  /\ Released(r)
  /\ UNCHANGED <<obs, id, todo, tx, status, stdioStatus, file>>

\* GetStdioDiscoveredServers, whose error the report ignores.
QueryStdio(r) ==
  /\ pc[r] = "reportStdio"
  /\ IF ReadBusy(r)
     THEN Goto(r, "done") /\ UNCHANGED <<todo, readers>>
     ELSE /\ todo' = [todo EXCEPT ![r] = RowsOf(stdio, id[r])]
          /\ readers' = readers \cup {r}
          /\ Goto(r, "stdioRows")
  /\ UNCHANGED <<obs, id, tx, status, stdioStatus, file, lock, pending>>

ReadStdio(r) ==
  /\ pc[r] = "stdioRows" /\ todo[r] # {}
  /\ LET row == stdio[NextRow(r)]
     IN stdioStatus' = [stdioStatus EXCEPT ![r][row.cfg] =
          IF ReadBusy(r) THEN "new" ELSE StdioVerdict(stdio, row.hash, row.cfg, id[r])]
  /\ todo' = [todo EXCEPT ![r] = @ \ {NextRow(r)}]
  /\ UNCHANGED <<pc, obs, id, tx, status, file, locks>>

CloseStdio(r) ==
  /\ pc[r] = "stdioRows" /\ todo[r] = {}
  /\ Goto(r, "done")
  /\ Released(r)
  /\ UNCHANGED <<obs, id, todo, tx, status, stdioStatus, file>>

Report(r) == \/ LastScan(r) \/ QueryServers(r) \/ ReadServer(r)
             \/ CloseServers(r) \/ QueryStdio(r) \/ ReadStdio(r) \/ CloseStdio(r)

Finished == (\A x \in Process : pc[x] \in Final) /\ UNCHANGED vars

Next == \/ \E s \in Scanner : Scan(s) \/ Kill(s)
        \/ \E r \in Reporter : Report(r)
        \/ Finished

Spec == Init /\ [][Next]_vars
-----------------------------------------------------------------------------
(* Properties. *)

Verdict == {"new", "unchanged", "modified", "replaced", "not evaluated", Absent}

\* Type correctness of the processes, the file and its locks (sqlite.go).
TypeOK ==
  /\ DOMAIN pc = Process
  /\ \A x \in Process : /\ \A c \in Config : stdioStatus[x][c] \in Verdict
                        /\ \A e \in Endpoint : status[x][e] \in Verdict
  /\ \A s \in Scanner : todo[s] \subseteq Endpoint \cup Config
  /\ \A r \in Reporter : todo[r] \subseteq DOMAIN http \cup DOMAIN stdio
  /\ schema \in 0 .. Tables
  /\ Range(scans) \subseteq Scanner /\ IsInjective(scans)
  /\ lock \in Process \cup {NoOne} /\ readers \subseteq Process
  /\ pending => lock # NoOne

\* The rows numbered ns hold the servers eps of o, each once and as it was
\* found; and the same of stdio servers.
ServerRows(rows, ns, o, eps) ==
  /\ \A m \in ns : LET e == rows[m].ep
                   IN /\ e \in eps
                      /\ rows[m].name = o.http[e].name /\ rows[m].hash = o.http[e].hash
  /\ \A e \in eps : \E m \in ns : rows[m].ep = e
  /\ \A m, k \in ns : rows[m].ep = rows[k].ep => m = k

ConfigRows(rows, ns, o, configs) ==
  /\ \A m \in ns : rows[m].cfg \in configs /\ rows[m].hash = o.stdio[rows[m].cfg]
  /\ \A c \in configs : \E m \in ns : rows[m].cfg = c
  /\ \A m, k \in ns : rows[m].cfg = rows[k].cfg => m = k

\* The committed rows of scan n are exactly what the process that saved it
\* had found: never some of its servers, through crashes and busy locks; of
\* its stdio servers all are there or, if their save failed, none
\* (sqlite.go:217-382, main.go:174-178).
SavedWhole ==
  \A n \in DOMAIN scans :
    LET o == obs[scans[n]]
    IN /\ ServerRows(http, RowsOf(http, n), o, Found(o))
       /\ RowsOf(stdio, n) # {} => ConfigRows(stdio, RowsOf(stdio, n), o, Configs(o))

\* No row belongs to a scan that was never saved, a scan prints the ID it is
\* saved under, and the order of rows is the
\* order of scans, so the query's ORDER BY s.id finds the most recent scan
\* (sqlite.go:134-158).
HistoryInOrder ==
  /\ \A n \in DOMAIN http : http[n].scan \in DOMAIN scans
  /\ \A n \in DOMAIN stdio : stdio[n].scan \in DOMAIN scans
  /\ \A n, m \in DOMAIN http : n < m => http[n].scan <= http[m].scan
  /\ \A n \in DOMAIN scans : id[scans[n]] = n

SavedScan(s) == s \in Range(scans)
ScanOf(s) == CHOOSE n \in DOMAIN scans : scans[n] = s

\* Nobody uses a file that lacks a table, whoever created some of them and
\* died: the next scan completes them (sqlite.go:65-112).
SchemaWhole ==
  /\ \A s \in Scanner : pc[s] \notin {"probing", "schema", "failed"}
                         => schema = Tables
  /\ scans # << >> => schema = Tables

\* The history of saved scans, as History has it.
SavedLog == [n \in DOMAIN scans |-> [seen   |-> obs[scans[n]].http,
                                     status |-> status[scans[n]]]]

Saved == INSTANCE History WITH log <- SavedLog, Seen <- {o.http : o \in Observation}

\* With any number of scans racing for the file and dying, it is a History:
\* the only visible step adds one whole scan, and what that scan prints of a
\* server is the truth about the scans saved before it (sqlite.go:217-307).
HistoryRefinement == Saved!HistSpec

\* A report shows the servers of one saved scan whole, and of its stdio servers
\* all or none; it raises no alarm (replaced, modified) and gives no all-clear
\* on a server that the scan itself did not (sqlite.go:384-535, main.go:198-209).
ReportHonest ==
  \A r \in Reporter : pc[r] = "done" =>
    LET s == scans[id[r]]
    IN /\ \A e \in Endpoint :
            /\ status[r][e] = Absent <=> e \notin Found(obs[s])
            /\ status[r][e] \in {Absent, "new"} \/ status[r][e] = status[s][e]
       /\ {c \in Config : stdioStatus[r][c] # Absent} \in {{}, Configs(obs[s])}

\* An exit without error means that the scan is in the file (main.go:169-172),
\* and nothing is left locked by a process that ended.
ExitMeansSaved ==
  /\ \A s \in Scanner : pc[s] = "done" => SavedScan(s)
  /\ \A x \in Process : pc[x] \in Final => lock # x /\ x \notin readers

\* README.md:47: "Re-render stored scan results anytime".
ReportRepeatsScan ==
  \A r \in Reporter : pc[r] = "done" => status[r] = status[scans[id[r]]]

\* README.md:152: "hash matches the previous scan record": an unchanged config
\* is that of the latest saved scan before this one that has a config.
UnchangedMeansPrevious ==
  \A n \in DOMAIN stdio :
    LET before == {m \in 1 .. n - 1 : stdio[m].scan < stdio[n].scan
                                      /\ stdio[m].cfg = stdio[n].cfg}
    IN stdioStatus[scans[stdio[n].scan]][stdio[n].cfg] = "unchanged" =>
         \E m \in before : /\ stdio[m].hash = stdio[n].hash
                           /\ \A o \in before : stdio[o].scan <= stdio[m].scan

\* Both are broken together, by one scan and the report of it: neither outlives
\* every run (sqlite.go:155, 190).
AnyHistoryPromise == ReportRepeatsScan \/ UnchangedMeansPrevious
=============================================================================
