# Specifications of mcpscan

TLA+ specifications of mcpscan: a command that resolves targets, finds open TCP
ports, asks each one whether it speaks MCP, audits whether it asks for
credentials, optionally reads the local AI tools' stdio configurations, stores
everything in SQLite and prints a report. TLC checks the modules on small
instances; TLAPS proves the safety properties of every component, and the two
refinements, for every size.

## The system

| Part | Source | State | Operations | What makes it hard | What makes it correct |
|---|---|---|---|---|---|
| Target and port resolution | `internal/scanner/scanner.go:46-242` | the slice and set of hosts, loop counters in `uint32` | `ResolveTargets`, `expandTargetItem`, `expandCIDR`, `validateIPSecurity`, `ParsePorts` | wrap-around, overlapping items, caps tested in three places, mapped addresses | exactly the hosts named, once each, within the cap, none outside the ranges the guard lists without the override |
| TCP port scanner | `scanner.go:244-328` | semaphore, ticker, wait group, mutex, shared slice | `ScanPorts` and the goroutine it starts per endpoint | a dispatcher, up to 500 goroutines, a ticker and cancellation, in any order | no lost or repeated answer, bounded sockets, rate, always returns, nothing writes after it returns |
| MCP detector | `internal/detector/detector.go` | one goroutine per port, a slice of results | `DetectBatch`, `DetectPort`, the hash of tool definitions, the walk over dangerous parameters | servers that hang, change or answer strangely; http then https | confidence follows from the answers on the scheme reported |
| Auth checker | `internal/auth/checker.go` | the same | `CheckAuthBatch`, `CheckAuth` | decides on what detection saw earlier; redirects within a call, as in the detector | one call, a verdict that follows from its answer |
| Summary | `pkg/types/types.go:170-225` | none | `CalculateSummaryCounts` | overlapping totals | the parts add up |
| SQLite storage | `internal/storage/sqlite.go` | one database file, shared by processes | `InitSchema`, `SaveScan`, `SaveStdioDiscoveredServers`, `GetLastScan`, `GetStdioDiscoveredServers`, integrity queries | concurrent processes, locks that fail at once, crashes | scans saved whole, the file a history with true verdicts, honest reports |
| Pipeline and report | `main.go` | the record and slices handed from phase to phase, the file between invocations | `main`, `runReportSubcommand` | which errors stop the run and which are dropped; verdicts that depend on all earlier scans | an exit without error means a saved scan; no change of a server's decoded definitions goes unsaid, and none is made up; a report repeats the scan |
| Stdio discovery | `internal/stdioscanner/` | a snapshot of the process table, the list built so far | `DetectLocal`, `ReadConfigFile`, `ParseConfigFile`, `MaskArgs`, `computeStdioConfigHash`, `FindMatch` | files and processes that change between and under the steps, hashes of masked data, substring matching, map order | every readable entry listed once, a hash that changes with the entry, no announced secret kept, no process of another time |
| Report renderer | `internal/report/report.go` | none | table, JSON | - | its cells say what was found, the rest is formatting |

`main` calls the parts one after the other and hands each the slice the last one
returned; concurrency lives inside `ScanPorts`, `DetectBatch` and
`CheckAuthBatch`, and between processes that use the same database file.

## Modules

| Module | Models | State and actions against the code |
|---|---|---|
| `PortScan` | `ScanPorts` | Each select branch, lock, append and deferred call is an action: `AcquireSlot`/`CancelAtSlot` (first select), `TakeTick`/`CancelAtTick` (second), `Spawn` (`wg.Add` and `go`), `AwaitAll`, `SortAndReturn`, `DrainAndReturn` (the cancelled path, whose deferred work waits); per goroutine `DialOpen`/`DialFail`, `Lock`, `AppendPort`, `Unlock`, `ReleaseSlot`, `SignOff`. The environment is `Tick` (a ticker channel of capacity 1 that drops) and `Cancel`. The append is read and write under the mutex, so a missing lock would show. `burst` is a history variable: the greatest excess of probes over ticker firings in any stretch of the scan that ends now. |
| `PortScanAbs` | what `ScanPorts` promises | One action dials an endpoint, one returns: each endpoint is dialed at most once, and the returned slice lists exactly the answers, in order when the scan was complete. `PortScan` implements it through a refinement mapping. |
| `PortScanProofs` | theorems about `PortScan` | see below |
| `Targets` | `ResolveTargets` to `ParsePorts` | One action per branch and per turn of a loop; `--target` is a sequence of items (blank, unparsable, address, block, IPv4-mapped block). Numbers are `% 2^W`; the code's `W` is 32. Powers of two are a recursive function, so that the module can be proved about. |
| `TargetsProofs` | theorems about `Targets` | see below |
| `Probe` | `DetectBatch`, `CheckAuthBatch`, `CalculateSummaryCounts` | `Spawn`, `Wait` and `Finish` are the batch loops and their wait group; `InitReply`, `ToolsReply` and `AuditReply` are what comes of one `httpClient.Do`, `Check` the start of the audit. Neither client sets `CheckRedirect`, so `Redirect` moves the call in hand (`call`: where it stands, how many requests it has sent) to this port over either scheme or to another host, in all three kinds of call. A server answers every request anew, so it may change or hang between two of them. `heard`, `from` (where the sign that the confidence rests on came from) and `calls` are history variables. |
| `ProbeProofs` | theorems about `Probe` | see below |
| `History` | what the database promises | One action, `Record`: a whole scan is appended, with the verdict (`new`, `unchanged`, `modified`, `replaced`, `not evaluated`) on each of its servers that the scans before it justify. |
| `Store` | `main` from `InitSchema` to `Render`, and the report subcommand | One action per statement that can fail or be interleaved: each `CREATE TABLE`, each insert with its integrity query, the commits, each read of a report. `lock`, `pending`, `readers` are SQLite's RESERVED, PENDING and SHARED locks (external); no busy timeout is set, so a conflict fails the statement. A transaction's rows live in `tx` until they are committed. `Kill` ends a scan between any two steps of its use of the file. It implements `History`: a scan's commit is `Record`, everything else stutters. |
| `StoreProofs` | theorems about `Store` | see below |
| `StdioEntry` | one entry of a tool's configuration | Pure operators: which arguments are masked and how (`MaskArgs`), the hash (`ConfigHash`, one text with `\|args:` and `|env:` in it, as in the code), and the process that confirms it (`FindMatch`). Text is a sequence of tokens (the pieces between blanks), a token a tuple of words; `Executable` is `normalizeExecutable`, which takes the base of the whole command text; `Secret` are the credentials, whatever the code takes them for. |
| `Stdio` | `DetectLocal` | `Snapshot` takes the process table, `Visit` stats a path, `ReadFile` opens and parses it, `Return` hands the list over. `Edit` and `Processes` change the world at any moment, `Cancel` ends the caller's context. `ran` is a history variable: the processes that ran at some moment of the scan. The rows of a file (`ServersOf`) are its described entries in any order, since Go walks a map. |
| `StdioProofs` | theorems about `Stdio` | see below |
| `ToolDefs` | what the detector makes of a `tools/list` answer | Pure operators: `IsDangerousName` (deny list, exact terms, words), `FreeType`, `ExtractDangerous` (tool by tool, the parameters of each in any order, since Go walks a map), `ToolHash` (a list sorted by name, told by the definitions and the rank of each among its namesakes). |
| `Pipeline` | invocation after invocation: `main` from targets to page, and `report` | One action per phase. The port scan is `PortScanAbs`, the verdicts are `History`'s, tool lists go through `ToolDefs`; what detection and audit may say is what `Probe` shows of them. `db` holds the rows as stored, without verdicts, since the code stores none. `heard`, `served` and `printed` are history variables. |
| `PipelineProofs` | theorems about `Pipeline` | see below |
| `CountingFacts` | lemmas that several proofs share | The greatest element of a finite set of numbers, steps from 0 to n in place of induction (both from the cardinalities of intervals), sequences without repeats, permutations, prefixes |

`MCPortScan`, `MCTargets`, `MCProbe`, `MCStore`, `MCStdio` and `MCPipeline` give
the constants their values for TLC. Definitions whose comment begins with "Bug:" are deliberately
wrong variants of the definition that follows them; no specification uses
them. Substituting one for the right one makes TLC find the property the
variant is meant for violated, which shows that the property has teeth.

## Runs

| Run | Question | Instance |
|---|---|---|
| `MCPortScan.cfg` | Is every slot, tick, answer and goroutine accounted for in every interleaving, does the call return, does it implement `PortScanAbs`? | 2 hosts and 2 ports, `--concurrency` that clamps to 2, one cancellation at any moment |
| `MCTargets.cfg` | Are exactly the named hosts and ports scanned, within the cap? | 4-bit addresses, a cap of 4, two families, lists of up to two items and of port chunks |
| `MCTargetsPromise.cfg` | Is the expansion bounded, are all hosts of a block listed, and only loopback and RFC1918 addresses without the override? Three findings | as above, and one list of three items that breaks all three promises |
| `MCProbe.cfg` | Does each verdict follow from what was heard, once, and does the summary add up? | 2 ports, one redirect a call |
| `MCProbeRequests.cfg` | One request per audit, an answer from the port and scheme reported, `--concurrency` a bound? Three findings | 2 ports, concurrency 1 |
| `MCProbeVerdicts.cfg` | Does unprotected mean that a tool list came back, and protected LOW risk? Two findings | 2 ports |
| `MCStore.cfg` | Are scans saved whole and in order, is the schema whole before anyone uses it, are reports honest, is the file a `History`, under races and crashes? | 3 scans, 1 report, 2 endpoints, 2 configurations, 3 observations |
| `MCStorePromise.cfg` | Does a report repeat the scan, does unchanged mean equal to the previous scan? Two findings | 3 scans, 1 report, 2 configurations |
| `MCStdio.cfg` | Is every readable entry listed, confirmed only by a process that ran during the scan and whenever a recognisable one did, freed of announced credentials, and hashed so that changes show? | 2 scans in a row, one edit of files at any moment, processes that come and go |
| `MCStdioPromise.cfg` | Is the executable of a specific program enough to confirm it, has the process of a confirmed server its arguments, is every inline credential masked? Three findings | as above |
| `MCPipeline.cfg` | Is a page about exactly who answered, is no change of decoded definitions hidden or made up, are the flagged parameters those of this scan's list, does a report repeat the page? | 3 scans, any of which may fail, reports between them, 2 endpoints, 8 kinds of answer |
| `MCPipelinePromise.cfg` | Does "not evaluated" mean that the tools were out of reach, "new" the first observation of the server, "unchanged" that the definitions are what they were? Three findings | as above |

The bounds are small but reach every case. In `PortScan` four endpoints exceed
a pool of two, so goroutines are waited for, run together, and outlive the
dispatcher's cancelled select. Two hosts and two ports are needed for the sort
to have two keys. In `Targets` four bits hold blocks that touch, nest, overlap
and end at the top of the space, and a cap that one item meets and two exceed.
In `Probe` goroutines share only the slice and the wait group, so two ports
show every interference. In `Store` three scans are the fewest for which the
row order can differ from the scan order while a third one reads it; the
observations make every verdict occur, with names and hashes that are there or
empty. In `Stdio` the files hold plain, masked and broken
entries, commands with blanks, and credentials in each announced shape and in
others; the process tables hold the programs, with and without arguments, and
strangers that mention them; two scans are what it takes to
compare hashes. In `Pipeline` three scans are needed for a list that is compared
with the one before last, since the last saw no tools; the lists are equal up to
order, differ in one schema, have names and terms on and off the tables, or are
empty. The scans of `Store` are interchangeable, so they are a symmetry set; no liveness
is checked with it. Unbounded counters do not occur, except the redirects,
which `MaxRequests` bounds as `net/http` does (10 requests a call there, 2 here), and the scans and edits of
the environment, which `MaxRuns` and `MaxEdits` bound.

## Fairness

`PortScan` assumes weak fairness of the dispatcher and of each goroutine (the
Go scheduler runs what can run; `DialTimeout` bounds a dial) and of the ticker.
Weak fairness is enough for the mutex: each goroutine takes it once, so it
cannot be taken for ever by others. A select with several ready branches may
choose either one. Nothing is assumed of cancellation, which may never come. `Probe` assumes weak fairness of the main loop and of
each goroutine, since every request carries the client's timeout, so an answer
or a failure comes. `Targets` is sequential. `Store` assumes no fairness and
claims no liveness: a busy statement fails rather than waits. `Stdio` and
`Pipeline` are sequential but for their environment and claim no liveness.

## What is proved

`PortScanProofs` proves, for any number of hosts and ports, any
`--concurrency`, `--rate-limit` and any cancellation, that `Spec` implies the
type invariant, exact accounting of semaphore tokens and wait group, the bound
on open sockets, the rate limit over every stretch of the scan (`RateBound`: at
most two probes more than ticker firings), exactness of the result slice, absence of
the ticker's panic, quiet on return, and that `PortScan` implements
`PortScanAbs`, step by step.

The assumptions are those declared in `PortScan`: sizes are natural numbers,
clamps are positive, and addresses compare by a total order. The properties are
not inductive. The invariant behind them ties the dispatcher's position to the
number of endpoints handed out, every goroutine's state to the token it holds
and to the wait group's count, the mutex to the one goroutine inside the
append, and the slice to the set of goroutines that have appended: the
accounting equation alone does not say which goroutine may release a token, and
exactness alone does not say that the one that writes read the current slice.
`Invariance` proves it step by step, one step per action; the theorems follow
from it. For the rate, the invariant bounds the excess by the tick in the channel
and the probe past its tick: whoever releases a probe has used one of the two up.
That the sort leaves a permutation in order is the definition of the
sorting step, checked by TLC against the instance.

`ProbeProofs` proves, for any number of open ports, any redirect limit and
servers that answer, or redirect, every request as they like, that `Spec` of `Probe` implies
the type invariant, confidence and verdict that each follow from the answers to their own requests,
one audit call per server, complete batches, and a
summary whose totals agree. The assumption is that `N`, `MaxRequests` and
`Concurrency` are natural numbers, `MaxRequests` not 0. Confidence is about what
the request over a scheme brought; that a redirect may have brought it from
somewhere else is the finding `TransportHeard`. The properties speak of finished batches, so
none is inductive. The invariant says for each goroutine, in each state it can
be in, which requests have been heard, what its element of the slice is worth by
then, and whether it has written it; the wait group counts the goroutines that
have not finished, which is what makes `wg.Wait` mean that all have. The
detection half of that (`Earned`) must be carried through the audit unchanged,
since the audit writes the same record. The summary is then a matter of
cardinalities: the evaluated servers split into disjoint sets in three ways, and
two of the parts are the same set under different names.

`TargetsProofs` proves, for any address width, any cap and any lists of targets
and ports, that `Spec` of `Targets` implies the type invariant, that what is
resolved is among the hosts named, each host once, and all of them when no
target is an IPv4-mapped block (of which the code may scan less, see the findings), that the cap is neither exceeded nor applied too early, that no host
outside the ranges the guard lists (wider than the README's, see the findings)
gets through without the override and no command is refused as public without
one, and that the
ports are exactly those listed. The invariant places each expansion loop in its
block: the counter has run from the first address by as many steps as there are
entries, so it wraps only where the finding says it does. The lemmas are about
powers of two and the blocks they cut out of the space. Two assumptions are
worth naming. The cap is `Pow[CapBits]` with `CapBits < W`: the code's is 2^16 of
a 32-bit space; were it as large as the space, the block that is the whole IPv6
space of the model would be refused although it fits, and `CapExact` would be
false. And memory is finite, larger than the address space: the loop that wraps
for ever fills it and is killed.

`StoreProofs` proves, for any number of scans and reports, any findings, any
interleaving of their statements and any kill, that `Spec` of `Store` implies the
type invariant, that a scan is in the file whole or not at all, with the verdicts
that the rows before it justify, that rows are in the order of scans, that the
schema is whole before anyone uses it, that a report shows nothing that its scan
did not find, that exit without error means the scan is in the file, and that
`Store` implements `History`. The invariant is about who holds which lock
in which phase: an open transaction belongs to the one holder of RESERVED, it
holds the part of its findings that the loop has done, and the verdicts taken so
far are those the file justifies, which is so only because nobody else can
commit meanwhile; a report's rows to come are rows of its scan, which stay
because its read lock keeps commits out. For the refinement, a row's verdict
(the latest row of the endpoint before it) is shown to be the abstract one (the
latest scan in which the endpoint was seen). The assumptions: names of processes,
endpoints and configurations do not collide, and "absent" is no verdict.

`StdioProofs` proves, for any registry of tools, any files that are edited,
truncated, locked or removed at any moment, any process tables and any number of
scans, that `Spec` of `Stdio` implies the type invariant, that each stdio entry of
each readable file is listed once, that a server
is confirmed only by a process that ran during that very scan and shows it, that
an entry some process of the snapshot was started from is confirmed if masking
left enough to tell it by, that no credential given in one of the announced
shapes is kept, and that the hash of an entry changes between two scans with what
it says openly and with nothing else. The invariant says that the tools before the one in hand have
been read and no others, and that the servers found are what the entries read
describe under the snapshot, one each; of the scan before it keeps the same, for
some snapshot. Masking is then proved about text: every token of a masked
argument shows only separators, the key, and the ends of a long value, and a
function of the token alone (`Public`) turns the masked text into the
text with each secret blotted out, so equal masked text means equal public text,
however it is divided into arguments (`JoinMap`); the hashed text is taken apart
at the first `|args:` (`AtMark`, `HashInjective`). `Secret` is a constant of its own, independent of what the
code takes for one: `SecretsMasked` relates it to the shapes that the README
announces. The assumptions: a tool has one
path on an OS, the keys of a JSON map are distinct, a process with a command line
has a PID other than 0, what occurs in a command line includes the base names of
its tokens, a text that looks like a token is longer than eight
characters, the characters masking writes are no words, no word contains
`|args:`, and no secret is as short as the three characters that masking shows.

`PipelineProofs` proves, for any endpoints, any tool lists and any number of
invocations, that `Spec` of `Pipeline` implies the type invariant, that each page
lists exactly who answered, that the integrity column hides no difference between the decoded definitions
and those last seen there, and makes none up if no server without tools was heard
there in between, that the danger column
names exactly the parameters of this scan's list that the tables call
dangerous, and that a report prints its scan's page again. The invariant: the
rows kept say what was heard, each page printed is the render of that scan's rows
resolved against the scans before it, and what is in hand is what the phase has
added so far. It is needed because nothing in the record of one scan says what an
earlier one saw: the verdict is recomputed from the file each time. The
assumptions: an exact term of several words has one of its words on the same
table and no term is also on the deny list (true of the tables in the source, and
what makes the code's early exits agree), what a server answers is a list of
tools, only a confirmed server has one, the hash of a list is not the empty hash, and the number of endpoints is
finite.

None of these use induction over data, which the provers cannot instantiate:
where a loop or a recursive function (`Pow`, `Join`) has to be followed step by
step, the set of numbers it reaches is shown to be an interval by counting it.

## What is only model-checked

Liveness (`Termination`, `ProbingEnds`, `EndsBelowTop`): the prover does not
reach fairness. The findings are runs: each is one counterexample, to several promises at once. Every other
property that a run checks is also a theorem.

## Where the code and its documentation differ

Six runs refute sixteen things the repository says of the program. Each is
recorded with the line of code and the line it contradicts under "findings" in
`PROJECT.json`. A run of this kind asks whether any of several promises about the
same part is kept: its property is their disjunction, so that its counterexample
is one behaviour that breaks every one of them (`AnyExpansionPromise` and the
other `Any...Promise` definitions; each disjunct is a definition that quotes the
line it states).

- Targets: an IPv4 block that ends at the top of the address space is expanded
  without bound; an IPv4-mapped block becomes its base address; link-local and
  RFC4193 addresses are scanned without the override.
- Probing: the audit follows redirects, and so sends more than one request; the
  detector does too, and files the answer under the scheme and port it first
  asked; the batches ignore `--concurrency`; a JSON-RPC error counts as
  unprotected; a server that was challenged at the handshake is protected, but
  MEDIUM.
- Storage: a report read during another scan's commit, and stdio rows saved out
  of scan order, give verdicts that differ from the history.
- Stdio: a running program whose name masking takes for a token is never
  confirmed; a program that is not one of sixteen runners is confirmed whatever
  its arguments; a credential that shares its argument with its flag, or begins
  with a dash, is kept.
- Integrity: a server that lists no tools is "not evaluated" though it was
  reached; one heard before, but without tools, is "new"; annotations and output
  schemas may change and leave it "unchanged".

A property that passes beside a finding says what does hold: `PublicGuard`,
`ConfidenceEarned`, `VerdictEarned`, `RunningConfirmed`, `ConfirmedRan`,
`SecretsMasked` and `RugPullSeen` name the finding they stop at in their comments
or stand next to it. One more thing the models follow as the code has it: a
server confirmed by an error to `tools/list` has no tool list and is shown as
"0 flagged (safe)" (`DangerCell` in `Pipeline`).

## What is not modelled

Column layout, truncation of cells, the notice, the table of stdio servers, the
JSON encoding and progress output are formatting. Text parsing of addresses, and
of HTTP bodies, is replaced by the kinds of outcome it has. Of `Store`: the
`ALTER TABLE`s that migrate databases of older versions, the time columns, file
permissions, and errors of SQLite other than locks and crashes. Of `Stdio`: the
table of paths per operating system, empty arguments, quotes inside arguments, a
drive letter read as a header's key, and how processes are enumerated (`/proc`, `ps`, PowerShell). `Pipeline`
follows the HTTP servers only; the stdio slice is followed by `Stdio` up to the
list and by `Store` from there. Hashes are taken to be injective.

## Plan

The order was: the port scanner first (the only shared-memory concurrency of
consequence), with its abstract specification and proof; then targets, probing
and storage; then stdio discovery, the abstract history, tool definitions and
the pipeline that composes them; then the proofs, component by component. What
is left:

1. An action property of `Store` (committed rows only ever grow, and only by
   whole transactions) from its invariant.
2. That the phases `Pipeline` takes from `Probe` and `Stdio` by their results
   implement what it assumes of them (`Earned` of `Probe` against `Detected`).
3. The `ALTER TABLE`s of old databases, as steps of `Store`'s schema phase.
