-------------------------------- MODULE Probe --------------------------------
(***************************************************************************)
(* Phases 2 and 3 of a scan.  DetectBatch (src/internal/detector) starts   *)
(* one goroutine per open port, which asks "initialize" over http, then    *)
(* over https, and "tools/list" of whoever answered as an MCP server; then *)
(* CheckAuthBatch (src/internal/auth) starts one goroutine per result,     *)
(* which asks "tools/list" once more, without credentials.                 *)
(*                                                                         *)
(* The servers are the environment: each request is answered anew, so a    *)
(* server may change, hang or go away between two of them.  The answers:   *)
(*   "fail"      no usable answer: refused, reset, or the client's timeout *)
(*   "challenge" 401/403 with WWW-Authenticate or JSON, and no HTML body   *)
(*   "denied"    401/403 without such a sign                               *)
(*   "junk"      a body that fails the layer it is read by                 *)
(*   "mcp"       an initialize result with a version or capabilities       *)
(*   "tools", "notools"  a tools/list result with tools, with none         *)
(*   "rpcerror"  JSON-RPC 2.0 without a tool list, an error as a rule      *)
(*   "error500"  a status other than 200, 401 and 403, which only the      *)
(*               audit tells from 200: the detector reads any such body    *)
(* Neither client sets CheckRedirect, so net/http follows redirects within  *)
(* a call, to another scheme or another host, and the answer comes from     *)
(* wherever the call then stands.  A call redirected too often has failed.  *)
(***************************************************************************)
EXTENDS Integers, FiniteSets

CONSTANTS N,           \* number of open ports
          MaxRequests, \* requests net/http sends for one call: 10
          Concurrency  \* --concurrency, which this phase does not read

ASSUME BatchAssumption == N \in Nat /\ MaxRequests \in Nat \ {0} /\ Concurrency \in Nat

Port == 1 .. N
Request == {"http", "https", "tools", "audit"}
Place   == {"http", "https", "elsewhere"}  \* this port by scheme, other hosts
InitReplies  == {"fail", "challenge", "denied", "junk", "mcp"}
ToolsReplies == {"fail", "tools", "notools", "rpcerror"}
AuditReplies == {"fail", "denied", "junk", "tools", "rpcerror", "error500"}

VARIABLES
  phase,    \* main: "detect", then "audit", then "done"
  next,     \* the batch loop's index
  wg,       \* wait group of the batch
  g,        \* state of each port's goroutine in this batch
  srv,      \* each goroutine's DiscoveredServer
  results,  \* the slice of the batch
  heard,    \* ghost: the answer to each request sent in phase 2 and 3
  call,     \* the httpClient.Do in hand: where it stands, requests it sent
  from,     \* ghost: where the sign the confidence rests on came from
  calls     \* ghost: audit calls made for each port

vars == <<phase, next, wg, g, srv, results, heard, call, from, calls>>

Unwritten == [port |-> 0]

Fresh(e) == [port |-> e, conf |-> "none", scheme |-> "not evaluated",
             hash |-> FALSE, auth |-> "unknown", authConf |-> "low",
             risk |-> "low"]

NoCall    == [at |-> "none", sent |-> 0]
To(place) == [at |-> place, sent |-> 1]

Init ==
  /\ phase = "detect" /\ next = 1 /\ wg = 0
  /\ g = [e \in Port |-> "idle"]
  /\ srv = [e \in Port |-> Fresh(e)]
  /\ results = [e \in Port |-> Unwritten]
  /\ heard = [e \in Port |-> [request \in Request |-> "none"]]
  /\ call = [e \in Port |-> NoCall]
  /\ from = [e \in Port |-> "none"]
  /\ calls = [e \in Port |-> 0]

Become(e, state) == g' = [g EXCEPT ![e] = state]
Hear(e, request, reply) == heard' = [heard EXCEPT ![e][request] = reply]
Call(e, c) == call' = [call EXCEPT ![e] = c]
-----------------------------------------------------------------------------
(* The batches: one goroutine per element, then wg.Wait.                   *)

\* Whether the audit of s needs a request at all.
NeedsAudit(s) == s.conf \in {"likely", "confirmed"}

Spawn ==
  /\ phase \in {"detect", "audit"}
  /\ next <= N
  /\ wg' = wg + 1
  /\ next' = next + 1
  /\ Become(next, IF phase = "detect" THEN "http" ELSE "check")
  /\ Call(next, IF phase = "detect" THEN To("http") ELSE NoCall)
  /\ UNCHANGED <<phase, srv, results, heard, from, calls>>

\* Bug: the batch does not wait for its goroutines.
NoWait ==
  /\ phase \in {"detect", "audit"}
  /\ next > N
  /\ phase' = IF phase = "detect" THEN "audit" ELSE "done"
  /\ next' = 1 /\ wg' = 0
  /\ g' = [e \in Port |-> "idle"]
  /\ srv' = IF phase = "detect" THEN results ELSE srv
  /\ results' = IF phase = "detect" THEN [e \in Port |-> Unwritten] ELSE results
  /\ UNCHANGED <<heard, call, from, calls>>

\* wg.Wait, and the slice becomes the next batch's input.
Wait ==
  /\ phase \in {"detect", "audit"}
  /\ next > N /\ wg = 0
  /\ phase' = IF phase = "detect" THEN "audit" ELSE "done"
  /\ next' = 1
  /\ g' = [e \in Port |-> "idle"]
  /\ srv' = IF phase = "detect" THEN results ELSE srv
  /\ results' = IF phase = "detect" THEN [e \in Port |-> Unwritten] ELSE results
  /\ UNCHANGED <<wg, heard, call, from, calls>>

\* Bug: the goroutine writes at the loop's index, not at its own.
FinishLast(e) ==
  /\ g[e] = "finish"
  /\ results' = [results EXCEPT ![next - 1] = srv[e]]
  /\ wg' = wg - 1
  /\ Become(e, "idle")
  /\ UNCHANGED <<phase, next, srv, heard, call, from, calls>>

\* Bug: no wg.Done.
FinishNoDone(e) ==
  /\ g[e] = "finish"
  /\ results' = [results EXCEPT ![e] = srv[e]]
  /\ Become(e, "idle")
  /\ UNCHANGED <<phase, next, wg, srv, heard, call, from, calls>>

\* results[idx] = srv, and the deferred wg.Done.
Finish(e) ==
  /\ g[e] = "finish"
  /\ results' = [results EXCEPT ![e] = srv[e]]
  /\ wg' = wg - 1
  /\ Become(e, "idle")
  /\ UNCHANGED <<phase, next, srv, heard, call, from, calls>>
-----------------------------------------------------------------------------
(* DetectPort *)

\* An initialize answer to the request over the scheme in hand.
InitReply(e) ==
  /\ g[e] \in {"http", "https"}
  /\ \E reply \in InitReplies :
       /\ Hear(e, g[e], reply)
       /\ from' = IF reply \in {"mcp", "challenge"}
                  THEN [from EXCEPT ![e] = call[e].at] ELSE from
       /\ CASE reply = "mcp" ->
                 /\ srv' = [srv EXCEPT ![e].conf = "likely",
                                       ![e].scheme = g[e]]
                 /\ Become(e, "tools") /\ Call(e, To(g[e]))
            [] reply = "challenge" ->
                 /\ srv' = [srv EXCEPT ![e].conf = "unverifiable_protected",
                                       ![e].scheme = g[e]]
                 /\ Become(e, "finish") /\ Call(e, NoCall)
            [] OTHER ->
                 /\ IF g[e] = "http" THEN Become(e, "https") /\ Call(e, To("https"))
                                     ELSE Become(e, "finish") /\ Call(e, NoCall)
                 /\ UNCHANGED srv
  /\ UNCHANGED <<phase, next, wg, results, calls>>

\* Bug: any answer to tools/list confirms, a failed one as well.
ToolsReplyAny(e) ==
  /\ g[e] = "tools"
  /\ \E reply \in ToolsReplies :
       /\ Hear(e, "tools", reply)
       /\ srv' = [srv EXCEPT ![e].conf = "confirmed",
                             ![e].hash = reply = "tools"]
  /\ Become(e, "finish") /\ Call(e, NoCall)
  /\ UNCHANGED <<phase, next, wg, results, from, calls>>

\* The layer 3 answer; an empty tool list gives an empty hash.
ToolsReply(e) ==
  /\ g[e] = "tools"
  /\ \E reply \in ToolsReplies :
       /\ Hear(e, "tools", reply)
       /\ srv' = IF reply = "fail" THEN srv
                 ELSE [srv EXCEPT ![e].conf = "confirmed",
                                  ![e].hash = reply = "tools"]
  /\ Become(e, "finish") /\ Call(e, NoCall)
  /\ UNCHANGED <<phase, next, wg, results, from, calls>>
-----------------------------------------------------------------------------
(* CheckAuth *)

Verdict(s, auth, conf, risk) == [s EXCEPT !.auth = auth, !.authConf = conf,
                                          !.risk = risk]

AuditScheme(s) == IF s.scheme = "https" THEN "https" ELSE "http"

\* Bug: a server that demanded credentials at the handshake is asked again.
CheckAlways(e) ==
  /\ g[e] = "check"
  /\ srv' = [srv EXCEPT ![e] = Verdict(@, "unknown", "low", "medium")]
  /\ Become(e, "audit")
  /\ Call(e, To(AuditScheme(srv[e])))
  /\ calls' = [calls EXCEPT ![e] = @ + 1]
  /\ UNCHANGED <<phase, next, wg, results, heard, from>>

\* The defaults, the two early returns, or the one httpClient.Do.
Check(e) ==
  /\ g[e] = "check"
  /\ srv' = [srv EXCEPT ![e] =
       CASE @.conf = "unverifiable_protected" -> Verdict(@, "protected", "medium", "medium")
         [] @.conf = "none" -> Verdict(@, "unknown", "low", "low")
         [] OTHER -> Verdict(@, "unknown", "low", "medium")]
  /\ Become(e, IF NeedsAudit(srv[e]) THEN "audit" ELSE "finish")
  /\ Call(e, IF NeedsAudit(srv[e]) THEN To(AuditScheme(srv[e])) ELSE NoCall)
  /\ calls' = [calls EXCEPT ![e] = @ + IF NeedsAudit(srv[e]) THEN 1 ELSE 0]
  /\ UNCHANGED <<phase, next, wg, results, heard, from>>

\* Bug: a denial leaves the default risk in place.
JudgeDefaultRisk(s, reply) ==
  CASE reply = "denied" -> Verdict(s, "protected", "high", s.risk)
    [] reply \in {"tools", "rpcerror"} -> Verdict(s, "unprotected", "high", "high")
    [] OTHER -> s

\* The status code, and for a 200 whether the body is JSON-RPC 2.0.
Judge(s, reply) ==
  CASE reply = "denied" -> Verdict(s, "protected", "high", "low")
    [] reply \in {"tools", "rpcerror"} -> Verdict(s, "unprotected", "high", "high")
    [] OTHER -> s

AuditReply(e) ==
  /\ g[e] = "audit"
  /\ \E reply \in AuditReplies :
       /\ Hear(e, "audit", reply)
       /\ srv' = [srv EXCEPT ![e] = Judge(@, reply)]
  /\ Become(e, "finish") /\ Call(e, NoCall)
  /\ UNCHANGED <<phase, next, wg, results, from, calls>>
-----------------------------------------------------------------------------
\* An answer that redirects: net/http sends the request again where it says.
Redirect(e) ==
  /\ g[e] \in Request
  /\ call[e].sent < MaxRequests
  /\ \E place \in Place : Call(e, [at |-> place, sent |-> call[e].sent + 1])
  /\ UNCHANGED <<phase, next, wg, g, srv, results, heard, from, calls>>

Goroutine(e) == \/ InitReply(e) \/ ToolsReply(e) \/ Check(e) \/ AuditReply(e)
                \/ Finish(e)

Done == phase = "done" /\ UNCHANGED vars

Next == \/ Spawn \/ Wait \/ Done
        \/ \E e \in Port : Goroutine(e) \/ Redirect(e)

Spec == Init /\ [][Next]_vars

\* Goroutines run, and every request is answered or times out.
FairSpec == /\ Spec
            /\ WF_vars(Spawn \/ Wait)
            /\ \A e \in Port : WF_vars(Goroutine(e))
-----------------------------------------------------------------------------
(* CalculateSummaryCounts over the audited servers. *)

Count(P(_)) == Cardinality({e \in Port : P(results[e])})
Evaluated(s) == s.conf # "none"

\* Bug: servers that are not MCP are counted by risk as well.
CountedAll(s) == TRUE

Counted(s) == Evaluated(s)

Confidences(c) == Count(LAMBDA s : s.conf = c)
Statuses(a)    == Count(LAMBDA s : Evaluated(s) /\ s.auth = a)
Risks(r)       == Count(LAMBDA s : Counted(s) /\ s.risk = r)
ProtectedAt(r) == Count(LAMBDA s : Evaluated(s) /\ s.auth = "protected" /\ s.risk = r)
-----------------------------------------------------------------------------
(* Properties. *)

\* Type correctness of phases 2 and 3 (detector.go:379-509, checker.go:50-170).
TypeOK ==
  /\ phase \in {"detect", "audit", "done"}
  /\ next \in 1 .. N + 1 /\ wg \in 0 .. N
  /\ g \in [Port -> {"idle", "http", "https", "tools", "check", "audit", "finish"}]
  /\ \A e \in Port : srv[e].port = e /\ results[e].port \in {0, e}
  /\ call \in [Port -> [at : Place \cup {"none"}, sent : 0 .. MaxRequests]]
  /\ from \in [Port -> Place \cup {"none"}]

\* The server in hand after phase 2, whichever phase we are in.
Found(e) == srv[e]
Detected(e) == phase \in {"audit", "done"}

\* Confidence follows from the answers to the detector's own requests: nothing
\* is likely or confirmed unless the request over the scheme reported brought an
\* MCP handshake, nothing is protected unless it brought a challenge, https is
\* spoken for only after http had its chance, and a port that gave a sign is
\* not reported as none (detector.go:401-486).  Where a redirect made the answer
\* come from is TransportHeard's question.
ConfidenceEarned ==
  \A e \in Port : Detected(e) =>
    LET s == Found(e)
        h == heard[e]
    IN /\ s.conf \in {"likely", "confirmed"} => h[s.scheme] = "mcp"
       /\ s.conf = "confirmed" <=> h.tools \notin {"none", "fail"}
       /\ s.conf = "unverifiable_protected" => h[s.scheme] = "challenge"
       /\ s.conf = "none" <=> {h.http, h.https} \cap {"mcp", "challenge"} = {}
       /\ h.https # "none" <=> h.http \notin {"mcp", "challenge"}
       /\ s.hash <=> h.tools = "tools"

\* The verdict follows from what this scan's audit saw without credentials,
\* not from what detection saw: HIGH stands for unprotected and needs JSON-RPC
\* in the answer, a tool list is never called anything else, LOW for an MCP
\* server needs a denial of the audit request itself, anything ambiguous is
\* unknown and MEDIUM, and a server that was only challenged at the handshake
\* is not called better than MEDIUM (checker.go:50-147).  How this compares
\* with the README's table is UnprotectedMeansTools and ProtectedMeansLow.
VerdictEarned ==
  phase = "done" => \A e \in Port :
    LET s == results[e]
        h == heard[e]
    IN /\ s.risk = "high" <=> s.auth = "unprotected"
       /\ s.auth = "unprotected" => h.audit \in {"tools", "rpcerror"}
       /\ h.audit = "tools" => s.auth = "unprotected"
       /\ s.auth = "protected" /\ s.risk = "low" <=> h.audit = "denied"
       /\ h.audit \in {"fail", "junk", "error500"}
            => s.auth = "unknown" /\ s.risk = "medium"
       /\ s.conf = "unverifiable_protected" => s.risk # "low"
       /\ s.conf = "none" => s.auth = "unknown" /\ s.risk = "low"

\* One audit call for each MCP server found, and none for anyone else, although
\* the server may have changed since (checker.go:57-68, 101).
OneAuditCall ==
  phase = "done" => \A e \in Port :
    calls[e] = IF NeedsAudit(results[e]) THEN 1 ELSE 0

\* A batch hands over only when every goroutine has written its own element
\* of the slice (detector.go:495-508, checker.go:156-169).
BatchComplete ==
  /\ phase = "audit" => \A e \in Port : srv[e].port = e
  /\ phase = "done" => \A e \in Port : results[e].port = e

\* The summary's parts add up however the servers behaved (types.go:170-225).
SummaryAddsUp ==
  phase = "done" =>
    LET evaluated == Count(Evaluated)
    IN /\ evaluated = Confidences("confirmed") + Confidences("likely")
                        + Confidences("unverifiable_protected")
       /\ evaluated = Statuses("unprotected") + Statuses("protected")
                        + Statuses("unknown")
       /\ evaluated = Risks("high") + Risks("medium") + Risks("low")
       /\ Risks("high") = Statuses("unprotected")
       /\ Statuses("protected") = ProtectedAt("low") + ProtectedAt("medium")
       /\ ProtectedAt("medium") = Confidences("unverifiable_protected")

\* Hung servers cannot hold the scan up for ever.
ProbingEnds == <>(phase = "done")

\* checker.go:48-49: "exactly ONE unauthenticated probe request", "Must NEVER
\* retry, brute-force, or send multiple requests".
OneAuditRequest == \A e \in Port : g[e] = "audit" => call[e].sent <= 1

\* README.md:27: "Identifies whether HTTP endpoints operate over plaintext HTTP
\* or encrypted HTTPS"; types.go:51: "the wire encryption status of a network
\* MCP server".
TransportHeard ==
  \A e \in Port : Detected(e) /\ Found(e).conf # "none" => from[e] = Found(e).scheme

\* README.md:146: unprotected / HIGH: "Server responded with a full tool list to
\* unauthenticated requests."
UnprotectedMeansTools ==
  phase = "done" => \A e \in Port :
    results[e].auth = "unprotected" => heard[e].audit = "tools"

\* README.md:147: protected / LOW: "Server returned HTTP 401 Unauthorized or 403
\* Forbidden to unauthenticated requests."
ProtectedMeansLow ==
  phase = "done" => \A e \in Port :
    results[e].auth = "protected" => results[e].risk = "low"

\* README.md:25: "Bounded concurrency pool (`--concurrency`, default 100)".
BoundedBatch ==
  Cardinality({e \in Port : g[e] \in {"http", "https", "tools", "audit"}})
    <= Concurrency

\* What is said of requests is broken together, by one scan: not even one of
\* these promises outlives every run (detector.go:327, 498, checker.go:34).
AnyRequestPromise == TransportHeard \/ OneAuditRequest \/ BoundedBatch

\* Both lines of the README's table are broken together, by the verdicts on the
\* servers of one scan (checker.go:57, 133).
AnyVerdictPromise == UnprotectedMeansTools \/ ProtectedMeansLow
=============================================================================
