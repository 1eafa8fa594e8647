-------------------------------- MODULE Stdio --------------------------------
(***************************************************************************)
(* Stdio discovery (src/internal/stdioscanner): a scan takes one snapshot  *)
(* of the process table, then visits the config files of the known tools   *)
(* in turn.  Around it users edit the files and processes come and go, and *)
(* the caller may cancel.  Scans follow one another, so that the hashes of *)
(* two of them can be compared.                                            *)
(*                                                                         *)
(* A file is [kind, entries]: "missing"; "denied" (not readable) and       *)
(* "huge" (over 5 MB), which ReadConfigFile refuses; "text", which is      *)
(* empty, not JSON, or has no root key; "map", a JSON map of entries.  An  *)
(* entry is [name, shape, url, command, args, env]; shape is FALSE if its  *)
(* fields have other JSON types than RawServerDef.                         *)
(***************************************************************************)
EXTENDS StdioEntry

CONSTANTS Registry,    \* the known tools: a sequence of [tool, os]
          TargetOS,
          FileChoice,  \* what a tool's file may contain: [tool -> set of files]
          ProcChoice,  \* what the process table may be
          MaxEdits,    \* bound: edits of files
          MaxRuns      \* bound: scans

VARIABLES
  files, procs,  \* the world
  ran,           \* ghost: the processes that have run since this scan began
  edits,         \* edits so far
  run,           \* number of this scan
  snapshot,      \* the matcher's process table
  phase,         \* "snapshot", "loop", "open", "done"
  next,          \* index of the tool in hand
  cancelled,     \* ctx
  found,         \* allDiscovered
  read,          \* ghost: what was read of each tool's file
  lastFound, lastRead  \* ghost: the scan before this one

world == <<files, procs, ran, edits>>
vars == <<world, run, snapshot, phase, next, cancelled, found, read, lastFound, lastRead>>

\* An entry of a config file as RawServerDef reads it.
IsEntry(e) == /\ e.url \in BOOLEAN /\ e.env \in BOOLEAN
              /\ e.command \in Argument \cup {NoCommand}
              /\ e.args \in Seq(Argument)

\* Keys of a JSON map are distinct, and only a map has any.
IsFile(file) ==
  /\ file.kind \in {"missing", "denied", "huge", "text", "map"}
  /\ file.kind # "map" => file.entries = {}
  /\ IsFiniteSet(file.entries)
  /\ \A e, d \in file.entries : e.name = d.name => e = d
  /\ \A e \in file.entries : e.shape \in BOOLEAN /\ (e.shape => IsEntry(e))

\* ResolveConfigPaths: every entry of this OS has a path, in the list's order.
ForThisOS(i) == Registry[i].os \in {TargetOS, "all"}
Resolved ==
  Join([i \in DOMAIN Registry |-> IF ForThisOS(i) THEN <<Registry[i].tool>> ELSE << >>])

Tool == Range(Resolved)

\* The registry has one path for each tool on each OS.
ASSUME RegistryAssumption ==
  /\ Registry \in Seq(Range(Registry))
  /\ \A i, j \in {k \in DOMAIN Registry : ForThisOS(k)} :
       Registry[i].tool = Registry[j].tool => i = j
ASSUME FileAssumption == \A t \in Tool : \A file \in FileChoice[t] : IsFile(file)
\* A text's executable and a token's base are pieces of them.
ASSUME ProcAssumption ==
  \A ps \in ProcChoice :
    /\ ps \in Seq(Range(ps))
    /\ \A i \in DOMAIN ps :
         LET line == ps[i].line
         IN /\ line # {} => ps[i].pid # 0
            /\ \A text \in line : /\ Executable(text) \in line
                                  /\ Len(text) = 1 => <<BaseToken(text[1])>> \in line
ASSUME BoundAssumption == MaxEdits \in Nat /\ MaxRuns \in Nat \ {0}

Unread == [kind |-> "unread", entries |-> {}]

Init ==
  /\ files \in [Tool -> UNION {FileChoice[t] : t \in Tool}]
  /\ \A t \in Tool : files[t] \in FileChoice[t]
  /\ procs \in ProcChoice /\ ran = Range(procs)
  /\ edits = 0 /\ run = 1
  /\ snapshot = << >> /\ phase = "snapshot" /\ next = 1 /\ cancelled = FALSE
  /\ found = << >> /\ read = [t \in Tool |-> Unread]
  /\ lastFound = << >> /\ lastRead = [t \in Tool |-> Unread]
-----------------------------------------------------------------------------
(* ParseConfigFile and DetectFromData *)

\* The entries Unmarshal yields: one of another shape spoils them all.
Parsed(file) ==
  IF file.kind = "map" /\ \A e \in file.entries : e.shape
  THEN file.entries ELSE {}

\* Not an HTTP entry, and with a command.
IsStdio(e) == ~ e.url /\ e.command # NoCommand
Described(file) == {e \in Parsed(file) : IsStdio(e)}

\* The servers of a file, for each order an iteration over the Go map may take.
ServersOf(t, file) ==
  {[i \in DOMAIN order |-> Discovered(t, order[i], snapshot)] :
     order \in SetToSeqs(Described(file))}
-----------------------------------------------------------------------------
(* NewDetector and DetectLocal *)

\* Bug: the matcher of the first scan is kept.
SnapshotKept ==
  /\ phase = "snapshot"
  /\ snapshot' \in IF run = 1 THEN {procs, << >>} ELSE {snapshot}
  /\ phase' = "loop"
  /\ UNCHANGED <<world, run, next, cancelled, found, read, lastFound, lastRead>>

\* NewOSProcessMatcher; if the table cannot be listed, it is empty.
Snapshot ==
  /\ phase = "snapshot"
  /\ snapshot' \in {procs, << >>}
  /\ phase' = "loop"
  /\ UNCHANGED <<world, run, next, cancelled, found, read, lastFound, lastRead>>

\* The head of the loop: ctx.Done, then Stat.
Visit ==
  /\ phase = "loop" /\ next <= Len(Resolved) /\ ~ cancelled
  /\ LET t == Resolved[next]
     IN IF files[t].kind = "missing"
        THEN /\ next' = next + 1 /\ UNCHANGED phase
             /\ read' = [read EXCEPT ![t] = files[t]]
        ELSE phase' = "open" /\ UNCHANGED <<next, read>>
  /\ UNCHANGED <<world, run, snapshot, cancelled, found, lastFound, lastRead>>

\* Bug: a file that cannot be read ends the scan.
ReadFileOrStop ==
  /\ phase = "open"
  /\ LET t == Resolved[next]
         file == files[t]
     IN /\ read' = [read EXCEPT ![t] = file]
        /\ IF file.kind \in {"missing", "denied", "huge"}
           THEN phase' = "done" /\ UNCHANGED <<next, found>>
           ELSE /\ phase' = "loop" /\ next' = next + 1
                /\ \E servers \in ServersOf(t, file) : found' = found \o servers
  /\ UNCHANGED <<world, run, snapshot, cancelled, lastFound, lastRead>>

\* Bug: a file that cannot be read is counted twice.
ReadFileSkipTwo ==
  /\ phase = "open"
  /\ LET t == Resolved[next]
         file == files[t]
         bad == file.kind \in {"missing", "denied", "huge"}
     IN /\ read' = [read EXCEPT ![t] = file]
        /\ next' = IF bad THEN next + 2 ELSE next + 1
        /\ \E servers \in ServersOf(t, file) : found' = found \o servers
  /\ phase' = "loop"
  /\ UNCHANGED <<world, run, snapshot, cancelled, lastFound, lastRead>>

\* ReadConfigFile may fail, the file may even be gone again; what it reads is
\* detected from memory.
ReadFile ==
  /\ phase = "open"
  /\ LET t == Resolved[next]
         file == files[t]
     IN /\ read' = [read EXCEPT ![t] = file]
        /\ IF file.kind \in {"missing", "denied", "huge"}
           THEN UNCHANGED found
           ELSE \E servers \in ServersOf(t, file) : found' = found \o servers
  /\ phase' = "loop" /\ next' = next + 1
  /\ UNCHANGED <<world, run, snapshot, cancelled, lastFound, lastRead>>

\* The loop ends, or the context does: what was found is returned either way.
Return ==
  /\ phase = "loop" /\ (next > Len(Resolved) \/ cancelled)
  /\ phase' = "done"
  /\ UNCHANGED <<world, run, snapshot, next, cancelled, found, read, lastFound, lastRead>>
-----------------------------------------------------------------------------
(* The environment *)

Edit ==
  /\ edits < MaxEdits
  /\ edits' = edits + 1
  /\ \E t \in Tool : \E file \in FileChoice[t] \ {files[t]} :
       files' = [files EXCEPT ![t] = file]
  /\ UNCHANGED <<procs, ran, run, snapshot, phase, next, cancelled, found, read, lastFound, lastRead>>

\* Only the moment of the snapshot can tell process tables apart.
Processes ==
  /\ phase = "snapshot"
  /\ procs' \in ProcChoice \ {procs}
  /\ ran' = ran \cup Range(procs')
  /\ UNCHANGED <<files, edits, run, snapshot, phase, next, cancelled, found, read, lastFound, lastRead>>

Cancel ==
  /\ phase \in {"loop", "open"} /\ ~ cancelled
  /\ cancelled' = TRUE
  /\ UNCHANGED <<world, run, snapshot, phase, next, found, read, lastFound, lastRead>>

\* The next scan, some time later, with a matcher of its own.
Again ==
  /\ phase = "done" /\ run < MaxRuns
  /\ run' = run + 1
  /\ lastFound' = found /\ lastRead' = read
  /\ procs' \in ProcChoice /\ ran' = Range(procs')
  /\ phase' = "snapshot" /\ next' = 1 /\ cancelled' = FALSE
  /\ found' = << >> /\ read' = [t \in Tool |-> Unread]
  /\ UNCHANGED <<files, edits, snapshot>>

Finished == phase = "done" /\ run = MaxRuns /\ UNCHANGED vars

Next == \/ Snapshot \/ Visit \/ ReadFile \/ Return
        \/ Edit \/ Processes \/ Cancel \/ Again \/ Finished

Spec == Init /\ [][Next]_vars
-----------------------------------------------------------------------------
(* The stdio part of CalculateSummaryCounts *)

StdioCounts(servers) ==
  LET of(conf) == Cardinality({i \in DOMAIN servers : servers[i].conf = conf})
  IN [total |-> Len(servers), confirmed |-> of("confirmed"), likely |-> of("likely")]
-----------------------------------------------------------------------------
(* Properties *)

\* Type correctness of a scan's state (stdioscanner/detector.go:31-59).
TypeOK ==
  /\ phase \in {"snapshot", "loop", "open", "done"}
  /\ next \in 1 .. Len(Resolved) + 1
  /\ phase = "open" => next <= Len(Resolved)
  /\ \A i \in DOMAIN found : found[i].tool \in Tool
                             /\ found[i].conf \in {"likely", "confirmed"}

\* The entries found of tool t.
FoundOf(t) == {i \in DOMAIN found : found[i].tool = t}

\* What a scan should list of a file with this content.
Listed(file) == IF \E e \in file.entries : ~ e.shape THEN {}
                ELSE {e.name : e \in {d \in file.entries : ~ d.url /\ d.command # NoCommand}}

\* Each stdio entry of each file that was read is listed once, whatever the
\* other files are like: none that is unreadable, malformed or removed half way
\* hides another tool's; a scan reads the tools' files in order, and all of them
\* unless it is cancelled (stdioscanner/detector.go:35-56, parser.go:91-98).
EntriesExact ==
  /\ \A t \in Tool :
       /\ {found[i].name : i \in FoundOf(t)} = Listed(read[t])
       /\ Cardinality(FoundOf(t)) = Cardinality(Listed(read[t]))
  /\ \A k, m \in DOMAIN Resolved :
       k < m /\ read[Resolved[m]].kind # "unread" => read[Resolved[k]].kind # "unread"
  /\ phase = "done" /\ ~ cancelled => \A t \in Tool : read[t].kind # "unread"

EntryOf(file, name) == CHOOSE e \in file.entries : e.name = name
Configured(server) == EntryOf(read[server.tool], server.name)

\* The words of an argument as the configuration gives them.
RawText(a) == Text(a, Words(a.val))

\* Process p shows server s: its executable, and for a generic runner an
\* argument that can tell the program.
Shows(p, s) ==
  /\ Executable(s.command) \in p.line \cup p.name
  /\ Executable(s.command) \in Runner =>
       \E tok \in Range(s.summary) : Telling(tok) /\ <<BaseToken(tok)>> \in p.line

\* A server is confirmed only by a process that ran during this very scan, shows
\* it and has the PID that is reported; and the summary's two counts add up to
\* its total (process_match.go:31-39, 203-243, types.go:214-222).
ConfirmedRan ==
  /\ \A i \in DOMAIN found :
       LET s == found[i]
       IN /\ s.pid # 0 <=> s.conf = "confirmed"
          /\ s.conf = "confirmed" => \E p \in ran : p.pid = s.pid /\ Shows(p, s)
  /\ LET c == StdioCounts(found)
     IN c.total = c.confirmed + c.likely

\* Process p has entry e's command and its arguments, as configured, in its
\* command line.
Started(p, e) ==
  /\ RawText(e.command) \in p.line
  /\ \A k \in DOMAIN e.args : \A tok \in Range(RawText(e.args[k])) : <<tok>> \in p.line

\* The argument whose masking leaves something to recognise e by, if any.
Recognisable(e) ==
  \E k \in DOMAIN e.args :
    /\ ~ FollowsCredential(e.args, k) /\ ~ Hides(e.args[k])
    /\ \E tok \in Range(RawText(e.args[k])) : Telling(tok)

\* An entry that a process of the snapshot was started from is confirmed,
\* although only its masked text is compared: unless the command itself is
\* masked, or it is a generic runner's and no telling argument is left open
\* (parser.go:113-119, process_match.go:186-237).
RunningConfirmed ==
  \A i \in DOMAIN found :
    LET e == Configured(found[i])
    IN /\ \E j \in DOMAIN snapshot : Started(snapshot[j], e)
       /\ ~ Hides(e.command)
       /\ Executable(RawText(e.command)) \in Runner => Recognisable(e)
       => found[i].conf = "confirmed"

\* "For specific custom binaries (e.g. my-mcp-server), matching executable is
\* sufficient" (process_match.go:239): without the exception for commands that
\* masking takes for a token.
ExecutableSuffices ==
  \A i \in DOMAIN found :
    LET exe == Executable(RawText(Configured(found[i]).command))
    IN exe \notin Runner /\ (\E j \in DOMAIN snapshot : exe \in snapshot[j].line)
         => found[i].conf = "confirmed"

\* "Configured stdio server matches an active running OS process with aligned
\* arguments" (README.md:142): some argument of a confirmed server's entry, if
\* it has any, is in the command line of the process.
ConfirmedAligned ==
  \A i \in DOMAIN found :
    LET e == Configured(found[i])
    IN found[i].conf = "confirmed" /\ e.args # << >> =>
         \E j \in DOMAIN snapshot :
           /\ snapshot[j].pid = found[i].pid
           /\ \E k \in DOMAIN e.args : \E tok \in Range(RawText(e.args[k])) :
                {<<tok>>, <<BaseToken(tok)>>} \cap snapshot[j].line # {}

\* The shapes in which a credential is announced: the value of a key or header
\* named for one, a lone token that looks like one, and a value right after a
\* flag named for one (README.md:40).
Announced(a) == \/ a.sep # "" /\ a.key \in Credential
                \/ Len(a.val) = 1 /\ a.val[1] \in Entropic
Flag(a) == a.sep = "" /\ Len(a.val) = 1 /\ a.val[1] \in Credential \cap Dashed
AnnouncedAt(args, i) ==
  Announced(args[i]) \/ (i > 1 /\ Flag(args[i - 1]) /\ Whole(args[i])[1] \notin Dashed)

\* The words an entry gives outside those shapes, its keys among them.
Unannounced(e) ==
  Range(IF Announced(e.command) THEN <<e.command.key>> ELSE Whole(e.command))
  \cup UNION {Range(IF AnnouncedAt(e.args, i) THEN <<e.args[i].key>> ELSE Whole(e.args[i])) :
                i \in DOMAIN e.args}

\* The credentials that are kept of a server.
Kept(server) ==
  Secret \cap UNION {Range(tok) : tok \in Range(server.command \o server.summary)}

\* A credential that the entry gives in the announced shapes only is not kept,
\* wherever in the command or the arguments it stands; of a longer one three
\* characters at either end may be (README.md:40, mask.go:151-201).
SecretsMasked == \A i \in DOMAIN found : Kept(found[i]) \subseteq Unannounced(Configured(found[i]))

\* "all inline credentials in CLI arguments are masked before persistence"
\* (README.md:15): no credential is kept, whatever its shape.
CredentialsMasked == \A i \in DOMAIN found : Kept(found[i]) = {}

\* The last three promises are broken together, by one scan: not even one of
\* them outlives every run (parser.go:114, process_match.go:240, mask.go:129).
AnyStdioPromise == ExecutableSuffices \/ ConfirmedAligned \/ CredentialsMasked

\* The text of an entry in order, with a mark in place of what is masked.
Hidden == << <<"?">> >>
PublicText(e) ==
  << Text(e.command, IF Hides(e.command) THEN Hidden ELSE Words(e.command.val)),
     Join([i \in DOMAIN e.args |->
       CASE FollowsCredential(e.args, i) -> Hidden
         [] OTHER -> Text(e.args[i], IF Hides(e.args[i]) THEN Hidden ELSE Words(e.args[i].val))]) >>

\* Between two scans the hash stays if the entry does, whatever happens to
\* processes, to the order of entries and to other entries; and it changes when
\* a word that is not masked changes, a masked value comes or goes or becomes
\* open, or the env block comes or goes: only what a masked value is, and where
\* an argument ends, are out of its sight
\* (stdioscanner/detector.go:61-66).
HashTracksEntry ==
  \A i \in DOMAIN found, j \in DOMAIN lastFound :
    LET s == found[i]
        o == lastFound[j]
        e == EntryOf(read[s.tool], s.name)
        d == EntryOf(lastRead[o.tool], o.name)
    IN s.tool = o.tool /\ s.name = o.name =>
         /\ e = d => s.hash = o.hash
         /\ s.hash = o.hash => e.env = d.env /\ PublicText(e) = PublicText(d)
=============================================================================
