---------------------------- MODULE ProbeProofs ----------------------------
(***************************************************************************)
(* Machine-checked proofs about Probe for every number of open ports and   *)
(* every limit on the requests of one call.                                *)
(***************************************************************************)
EXTENDS Probe, FiniteSetTheorems, TLAPS

-----------------------------------------------------------------------------
(* The inductive invariant. *)

Reply == {"none"} \cup InitReplies \cup ToolsReplies \cup AuditReplies
Server == [port : Port,
           conf : {"none", "likely", "confirmed", "unverifiable_protected"},
           scheme : {"not evaluated", "http", "https"}, hash : BOOLEAN,
           auth : {"unknown", "protected", "unprotected"},
           authConf : {"low", "medium", "high"}, risk : {"low", "medium", "high"}]
InHand == [at : Place \cup {"none"}, sent : 0 .. MaxRequests]

Typing ==
  /\ phase \in {"detect", "audit", "done"}
  /\ next \in 1 .. N + 1 /\ wg \in Nat
  /\ g \in [Port -> {"idle", "http", "https", "tools", "check", "audit", "finish"}]
  /\ srv \in [Port -> Server] /\ \A e \in Port : srv[e].port = e
  /\ results \in [Port -> Server \cup {Unwritten}]
  /\ heard \in [Port -> [Request -> Reply]]
  /\ call \in [Port -> InHand] /\ from \in [Port -> Place \cup {"none"}]
  /\ calls \in [Port -> Nat]

\* The goroutines that run, which the wait group counts.
Running == {e \in Port : g[e] # "idle"}
WgInv == wg = Cardinality(Running)

\* A goroutine that has ended has written its server, and nobody else has.
Ended(e) == phase = "done" \/ (e < next /\ g[e] = "idle")
ResultInv == \A e \in Port : results[e] = IF Ended(e) THEN srv[e] ELSE Unwritten

\* What a finished detection of e, and a finished audit, have to show.
Earned(e) ==
  LET s == srv[e]
      h == heard[e]
  IN /\ s.conf \in {"likely", "confirmed"} => h[s.scheme] = "mcp"
     /\ s.conf = "confirmed" <=> h.tools \notin {"none", "fail"}
     /\ s.conf = "unverifiable_protected" => h[s.scheme] = "challenge"
     /\ s.conf = "none" <=> {h.http, h.https} \cap {"mcp", "challenge"} = {}
     /\ h.https # "none" <=> h.http \notin {"mcp", "challenge"}
     /\ s.hash <=> h.tools = "tools"
     /\ s.conf # "none" => s.scheme \in {"http", "https"}

Judged(e) ==
  LET s == srv[e]
      h == heard[e]
  IN /\ calls[e] = IF NeedsAudit(s) THEN 1 ELSE 0
     /\ s.risk = "high" <=> s.auth = "unprotected"
     /\ s.auth = "unprotected" <=> h.audit \in {"tools", "rpcerror"}
     /\ h.audit \in {"fail", "junk", "error500"} => s.auth = "unknown" /\ s.risk = "medium"
     /\ s.auth = "protected" /\ s.risk = "low" <=> h.audit = "denied"
     /\ s.auth = "protected" /\ s.risk = "medium"
          <=> s.conf = "unverifiable_protected"
     /\ s.conf = "none" => s.auth = "unknown" /\ s.risk = "low"

Unasked(e) == heard[e].audit = "none" /\ calls[e] = 0

\* Where the goroutine of e stands in phase 2.
DetectInv(e) ==
  LET s == srv[e]
      h == heard[e]
  IN /\ Unasked(e)
     /\ g[e] \in {"idle", "http", "https", "tools", "finish"}
     /\ e >= next => g[e] = "idle"
     /\ (e >= next \/ g[e] = "http") =>
          s = Fresh(e) /\ h.http = "none" /\ h.https = "none" /\ h.tools = "none"
     /\ g[e] = "https" =>
          /\ s = Fresh(e) /\ h.https = "none" /\ h.tools = "none"
          /\ h.http \notin {"none", "mcp", "challenge"}
     /\ g[e] = "tools" =>
          /\ s.conf = "likely" /\ ~ s.hash /\ h.tools = "none"
          /\ \/ s.scheme = "http" /\ h.http = "mcp" /\ h.https = "none"
             \/ /\ s.scheme = "https" /\ h.https = "mcp"
                /\ h.http \notin {"none", "mcp", "challenge"}
     /\ e < next /\ g[e] \in {"idle", "finish"} => Earned(e)

\* And in phase 3.
AuditInv(e) ==
  LET s == srv[e]
  IN /\ Earned(e)
     /\ g[e] \in {"idle", "check", "audit", "finish"}
     /\ e >= next => g[e] = "idle"
     /\ (e >= next \/ g[e] = "check") => Unasked(e)
     /\ g[e] = "audit" => /\ NeedsAudit(s) /\ heard[e].audit = "none"
                          /\ s.auth = "unknown" /\ s.risk = "medium"
                          /\ calls[e] = 1
     /\ e < next /\ g[e] \in {"idle", "finish"} => Judged(e)

PortInv(e) ==
  /\ phase = "detect" => DetectInv(e)
  /\ phase = "audit" => AuditInv(e)
  /\ phase = "done" => Earned(e) /\ Judged(e) /\ g[e] = "idle"

IInv == /\ Typing /\ WgInv /\ ResultInv
        /\ \A e \in Port : PortInv(e)
-----------------------------------------------------------------------------
(* Helpers. *)

LEMMA PortFinite == IsFiniteSet(Port)
  BY FS_Interval, BatchAssumption DEF Port

LEMMA RunningFinite ==
  IsFiniteSet(Running) /\ Cardinality(Running) \in Nat
<1>1. Running \subseteq Port
  BY DEF Running
<1>. QED BY <1>1, PortFinite, FS_Subset, FS_CardinalityType

\* A port that a step does not touch stays where it is.
LEMMA Frame ==
  ASSUME NEW f \in Port, PortInv(f), phase' = phase, next' = next,
         g'[f] = g[f], srv'[f] = srv[f], heard'[f] = heard[f],
         calls'[f] = calls[f]
  PROVE  PortInv(f)'
  BY DEF PortInv, DetectInv, AuditInv, Earned, Judged, Unasked

\* A goroutine that goes on running leaves the wait group and the slice alone.
LEMMA GoesOn ==
  ASSUME Typing, WgInv, ResultInv, NEW e \in Port, NEW state,
         g[e] # "idle", state # "idle", g' = [g EXCEPT ![e] = state],
         phase' = phase, phase # "done", next' = next, wg' = wg, results' = results,
         \A f \in Port \ {e} : srv'[f] = srv[f]
  PROVE  WgInv' /\ ResultInv'
<1>1. Running' = Running
  BY DEF Running, Typing
<1>2. WgInv'
  BY <1>1 DEF WgInv
<1>3. ResultInv'
  BY DEF ResultInv, Ended, Typing
<1>. QED BY <1>2, <1>3

\* What a step may leave in hand.
LEMMA Calling ==
  ASSUME NEW e \in Port, Typing,
         \/ call' = [call EXCEPT ![e] = NoCall]
         \/ \E place \in Place : call' = [call EXCEPT ![e] = To(place)]
         \/ \E place \in Place :
              /\ call[e].sent < MaxRequests
              /\ call' = [call EXCEPT ![e] = [at |-> place, sent |-> call[e].sent + 1]]
  PROVE  call' \in [Port -> InHand]
<1>1. NoCall \in InHand /\ \A place \in Place : To(place) \in InHand
  BY BatchAssumption DEF NoCall, To, InHand
<1>2. call[e].sent < MaxRequests =>
        \A place \in Place : [at |-> place, sent |-> call[e].sent + 1] \in InHand
  BY BatchAssumption DEF Typing, InHand
<1>. QED BY <1>1, <1>2 DEF Typing

LEMMA InitHolds == Init => IInv
<1> SUFFICES ASSUME Init PROVE IInv
  OBVIOUS
<1>1. Typing
  <2>1. \A e \in Port : Fresh(e) \in Server /\ Fresh(e).port = e
    BY DEF Fresh, Server
  <2>2. heard \in [Port -> [Request -> Reply]]
    BY DEF Init, Reply
  <2>3. NoCall \in InHand
    BY BatchAssumption DEF NoCall, InHand
  <2>. QED BY <2>1, <2>2, <2>3, BatchAssumption DEF Init, Typing
<1>2. WgInv
  <2>1. Running = {}
    BY DEF Running, Init
  <2>. QED BY <2>1, FS_EmptySet DEF WgInv, Init
<1>3. ResultInv
  BY BatchAssumption DEF Init, ResultInv, Ended, Port
<1>4. ASSUME NEW e \in Port PROVE PortInv(e)
  BY BatchAssumption DEF Init, PortInv, DetectInv, Unasked, Port, Request
<1>. QED BY <1>1, <1>2, <1>3, <1>4 DEF IInv
-----------------------------------------------------------------------------
(* The batches. *)

LEMMA SpawnStep == IInv /\ Spawn => IInv'
<1> SUFFICES ASSUME IInv, Spawn PROVE IInv'
  OBVIOUS
<1> USE DEF IInv
<1>1. next \in Port /\ next' = next + 1 /\ phase' = phase /\ phase # "done"
  BY BatchAssumption DEF Spawn, Typing, Port
<1>2. g[next] = "idle"
  BY <1>1 DEF Spawn, PortInv, DetectInv, AuditInv, Typing, Port
<1>3. Typing'
  <2>1. next' \in 1 .. N + 1 /\ wg' \in Nat
    BY <1>1, BatchAssumption DEF Spawn, Typing, Port
  <2>2. g' \in [Port -> {"idle", "http", "https", "tools", "check", "audit", "finish"}]
    BY <1>1 DEF Spawn, Typing, Become
  <2>3. call' \in [Port -> InHand]
    BY <1>1, Calling DEF Spawn, Call, Place
  <2>. QED BY <2>1, <2>2, <2>3, <1>1 DEF Spawn, Typing
<1>4. WgInv'
  <2>1. Running' = Running \cup {next} /\ next \notin Running
    BY <1>1, <1>2 DEF Running, Spawn, Become, Typing
  <2>. QED BY <2>1, RunningFinite, FS_AddElement DEF WgInv, Spawn
<1>5. ResultInv'
  BY <1>1, <1>2 DEF ResultInv, Ended, Spawn, Become, Typing, Port
<1>6. ASSUME NEW f \in Port PROVE PortInv(f)'
  <2>1. UNCHANGED <<phase, srv, heard, calls>>
    BY DEF Spawn
  <2>2. CASE f = next
    <3>1. g'[f] = IF phase = "detect" THEN "http" ELSE "check"
      BY <1>1, <2>2 DEF Spawn, Become, Typing
    <3>2. f < next' /\ f >= next /\ ~ (f >= next') /\ ~ (f < next)
      BY <1>1, <2>2 DEF Port
    <3>3. CASE phase = "detect"
      BY <3>1, <3>2, <3>3, <2>1 DEF PortInv, DetectInv, Unasked, Fresh
    <3>4. CASE phase = "audit"
      BY <3>1, <3>2, <3>4, <2>1 DEF PortInv, AuditInv, Earned, Unasked
    <3>. QED BY <3>3, <3>4, <1>1 DEF Typing
  <2>3. CASE f # next
    <3>1. (f < next' <=> f < next) /\ (f >= next' <=> f >= next) /\ g'[f] = g[f]
      BY <1>1, <2>3 DEF Spawn, Become, Typing, Port
    <3>2. CASE phase = "detect"
      BY <3>1, <3>2, <2>1 DEF PortInv, DetectInv, Unasked, Fresh, Earned
    <3>3. CASE phase = "audit"
      BY <3>1, <3>3, <2>1 DEF PortInv, AuditInv, Earned, Judged, Unasked
    <3>. QED BY <3>2, <3>3, <1>1 DEF Typing
  <2>. QED BY <2>2, <2>3
<1>. QED BY <1>3, <1>4, <1>5, <1>6

LEMMA WaitStep == IInv /\ Wait => IInv'
<1> SUFFICES ASSUME IInv, Wait PROVE IInv'
  OBVIOUS
<1> USE DEF IInv
<1>1. \A e \in Port : g[e] = "idle"
  <2>1. Cardinality(Running) = 0
    BY DEF Wait, WgInv
  <2>2. Running = {}
    BY <2>1, RunningFinite, FS_EmptySet
  <2>. QED BY <2>2 DEF Running
<1>2. \A e \in Port : e < next /\ Ended(e) /\ results[e] = srv[e]
  BY <1>1, BatchAssumption DEF Ended, ResultInv, Port, Wait, Typing
<1>3. srv' = srv
  BY <1>2 DEF Wait, Typing
<1>4. Typing'
  BY <1>3, BatchAssumption DEF Wait, Typing, Port
<1>5. WgInv'
  <2>1. Running' = {}
    BY DEF Running, Wait
  <2>. QED BY <2>1, FS_EmptySet DEF WgInv, Wait
<1>6. ResultInv'
  BY <1>2, <1>3, BatchAssumption DEF ResultInv, Ended, Wait, Typing, Port
<1>7. ASSUME NEW e \in Port PROVE PortInv(e)'
  <2>1. CASE phase = "detect"
    BY <2>1, <1>1, <1>2, <1>3 DEF Wait, PortInv, DetectInv, AuditInv, Earned, Unasked, Port
  <2>2. CASE phase = "audit"
    BY <2>2, <1>1, <1>2, <1>3 DEF Wait, PortInv, AuditInv, Earned, Judged, Unasked, Port
  <2>. QED BY <2>1, <2>2 DEF Wait
<1>. QED BY <1>4, <1>5, <1>6, <1>7

LEMMA FinishStep == ASSUME NEW e \in Port PROVE IInv /\ Finish(e) => IInv'
<1> SUFFICES ASSUME IInv, Finish(e) PROVE IInv'
  OBVIOUS
<1> USE DEF IInv
<1>1. phase # "done" /\ e < next /\ g[e] = "finish"
  BY DEF Finish, PortInv, DetectInv, AuditInv, Typing, Port
<1>2. WgInv' /\ wg' \in Nat
  <2>1. e \in Running /\ Running' = Running \ {e}
    BY <1>1 DEF Running, Finish, Become, Typing
  <2>2. Cardinality(Running') = Cardinality(Running) - 1 /\ Cardinality(Running') \in Nat
    BY <2>1, RunningFinite, FS_RemoveElement, FS_CardinalityType
  <2>. QED BY <2>2 DEF WgInv, Finish
<1>3. Typing'
  BY <1>2 DEF Finish, Typing, Become
<1>4. ResultInv'
  BY <1>1 DEF ResultInv, Ended, Finish, Become, Typing
<1>5. ASSUME NEW f \in Port PROVE PortInv(f)'
  <2>1. CASE f = e
    BY <1>1, <2>1 DEF Finish, Become, PortInv, DetectInv, AuditInv, Earned, Judged, Unasked, Typing, Port
  <2>2. CASE f # e
    BY <2>2, Frame DEF Finish, Become, Typing
  <2>. QED BY <2>1, <2>2
<1>. QED BY <1>2, <1>3, <1>4, <1>5
-----------------------------------------------------------------------------
(* Detection. *)

\* The two ways DetectPort writes to its server.
LEMMA Marked ==
  ASSUME NEW e \in Port, NEW conf \in {"likely", "unverifiable_protected"},
         NEW scheme \in {"http", "https"}, Typing,
         srv' = [srv EXCEPT ![e].conf = conf, ![e].scheme = scheme]
  PROVE  /\ srv' \in [Port -> Server] /\ \A f \in Port : srv'[f].port = f
         /\ \A f \in Port \ {e} : srv'[f] = srv[f]
         /\ srv'[e].conf = conf /\ srv'[e].scheme = scheme
         /\ srv'[e].hash = srv[e].hash
<1> DEFINE s == srv[e]
           t == [s EXCEPT !.conf = conf, !.scheme = scheme]
<1>1. srv' = [srv EXCEPT ![e] = t]
  BY DEF Typing
<1>2. s \in Server /\ s.port = e
  BY DEF Typing
<1>3. t \in Server
  BY <1>2 DEF Server
<1>4. t.port = e /\ t.conf = conf /\ t.scheme = scheme /\ t.hash = s.hash
  BY <1>2 DEF Server
<1>5. srv'[e] = t
  BY <1>1 DEF Typing
<1>6. \A f \in Port \ {e} : srv'[f] = srv[f]
  BY <1>1 DEF Typing
<1>7. srv' \in [Port -> Server]
  BY <1>1, <1>3 DEF Typing
<1>8. \A f \in Port : srv'[f].port = f
  BY <1>4, <1>5, <1>6 DEF Typing
<1> HIDE DEF t
<1>. QED BY <1>4, <1>5, <1>6, <1>7, <1>8

LEMMA Unsure == \A e : Fresh(e).conf = "none" /\ ~ Fresh(e).hash
  BY Zenon DEF Fresh

LEMMA Confirmed ==
  ASSUME NEW e \in Port, NEW hash \in BOOLEAN, Typing,
         srv' = [srv EXCEPT ![e].conf = "confirmed", ![e].hash = hash]
  PROVE  /\ srv' \in [Port -> Server] /\ \A f \in Port : srv'[f].port = f
         /\ \A f \in Port \ {e} : srv'[f] = srv[f]
         /\ srv'[e].conf = "confirmed" /\ srv'[e].scheme = srv[e].scheme
         /\ srv'[e].hash = hash
<1> DEFINE s == srv[e]
           t == [s EXCEPT !.conf = "confirmed", !.hash = hash]
<1>1. srv' = [srv EXCEPT ![e] = t]
  BY DEF Typing
<1>2. s \in Server /\ s.port = e
  BY DEF Typing
<1>3. t \in Server
  BY <1>2 DEF Server
<1>4. t.port = e /\ t.conf = "confirmed" /\ t.scheme = s.scheme /\ t.hash = hash
  BY <1>2 DEF Server
<1>5. srv'[e] = t
  BY <1>1 DEF Typing
<1>6. \A f \in Port \ {e} : srv'[f] = srv[f]
  BY <1>1 DEF Typing
<1>7. srv' \in [Port -> Server]
  BY <1>1, <1>3 DEF Typing
<1>8. \A f \in Port : srv'[f].port = f
  BY <1>4, <1>5, <1>6 DEF Typing
<1> HIDE DEF t
<1>. QED BY <1>4, <1>5, <1>6, <1>7, <1>8

LEMMA InitReplyStep == ASSUME NEW e \in Port PROVE IInv /\ InitReply(e) => IInv'
<1> SUFFICES ASSUME IInv, InitReply(e) PROVE IInv'
  OBVIOUS
<1> USE DEF IInv
<1>1. /\ g[e] \in {"http", "https"} /\ phase = "detect" /\ phase' = phase
      /\ next' = next /\ wg' = wg /\ results' = results
      /\ calls' = calls /\ e < next /\ ~ (e >= next)
  BY DEF InitReply, PortInv, DetectInv, AuditInv, Typing, Port
<1>2. PICK reply \in InitReplies :
        /\ heard' = [heard EXCEPT ![e][g[e]] = reply]
        /\ \/ /\ reply = "mcp" /\ Become(e, "tools")
              /\ srv' = [srv EXCEPT ![e].conf = "likely", ![e].scheme = g[e]]
           \/ /\ reply = "challenge" /\ Become(e, "finish")
              /\ srv' = [srv EXCEPT ![e].conf = "unverifiable_protected",
                                    ![e].scheme = g[e]]
           \/ /\ reply \notin {"mcp", "challenge"} /\ srv' = srv
              /\ Become(e, IF g[e] = "http" THEN "https" ELSE "finish")
  BY DEF InitReply, Hear
<1>3. PICK state \in {"https", "tools", "finish"} : g' = [g EXCEPT ![e] = state]
  BY <1>2 DEF Become
<1>4. Typing'
  <2>1. heard' \in [Port -> [Request -> Reply]]
    BY <1>1, <1>2 DEF Typing, Request, Reply
  <2>2. srv' \in [Port -> Server] /\ \A f \in Port : srv'[f].port = f
    BY <1>1, <1>2, Marked DEF Typing
  <2>3. call' \in [Port -> InHand]
    BY <1>1, Calling DEF InitReply, Call, Place
  <2>4. from' \in [Port -> Place \cup {"none"}]
    BY DEF InitReply, Typing, InHand
  <2>. QED BY <1>1, <1>3, <2>1, <2>2, <2>3, <2>4 DEF Typing
<1>5. WgInv' /\ ResultInv'
  <2>1. \A f \in Port \ {e} : srv'[f] = srv[f]
    BY <1>2 DEF Typing
  <2>. QED BY <1>1, <1>3, <2>1, GoesOn
<1>6. ASSUME NEW f \in Port PROVE PortInv(f)'
  <2>1. CASE f # e
    BY <2>1, <1>1, <1>2, <1>3, Frame DEF Typing
  <2>2. CASE f = e
    <3> DEFINE h == heard[e]
    <3>1. Unasked(e)' /\ heard'[e].tools = "none" /\ DetectInv(e)
      BY <1>1, <1>2 DEF PortInv, DetectInv, Unasked, Typing, Request
    <3>2. g[e] = "http" => /\ heard'[e].http = reply /\ heard'[e].https = "none"
                           /\ srv[e] = Fresh(e)
      BY <1>1, <1>2, <3>1 DEF DetectInv, Typing, Request
    <3>3. g[e] = "https" => /\ heard'[e].https = reply /\ heard'[e].http = heard[e].http
                            /\ heard[e].http \notin {"none", "mcp", "challenge"}
                            /\ srv[e] = Fresh(e)
      BY <1>1, <1>2, <3>1 DEF DetectInv, Typing, Request
    <3>4. reply # "none" /\ heard'[e][g[e]] = reply
      BY <1>1, <1>2 DEF InitReplies, Typing, Request
    <3>9. srv[e] = Fresh(e) /\ ~ srv[e].hash
      <4>1. srv[e] = Fresh(e)
        BY <1>1, <3>2, <3>3
      <4>. QED BY <4>1, Unsure
    <3>5. CASE reply = "mcp"
      <4>1. /\ g'[e] = "tools" /\ srv'[e].conf = "likely"
            /\ srv'[e].scheme = g[e] /\ srv'[e].hash = srv[e].hash
        BY <1>1, <1>2, <3>5, Marked DEF Become, Typing
      <4>2. ~ srv'[e].hash
        BY <4>1, <3>9
      <4>. QED BY <4>1, <4>2, <3>1, <3>2, <3>3, <3>5, <1>1, <2>2 DEF PortInv, DetectInv
    <3>6. CASE reply = "challenge"
      <4>1. /\ g'[e] = "finish" /\ srv'[e].conf = "unverifiable_protected"
            /\ srv'[e].scheme = g[e] /\ srv'[e].hash = srv[e].hash
        BY <1>1, <1>2, <3>6, Marked DEF Become, Typing
      <4>2. ~ srv'[e].hash
        BY <4>1, <3>9
      <4>3. Earned(e)'
        BY <4>1, <4>2, <3>1, <3>2, <3>3, <3>4, <3>6, <1>1 DEF Earned
      <4>. QED BY <4>1, <4>3, <3>1, <1>1, <2>2 DEF PortInv, DetectInv
    <3>7. CASE reply \notin {"mcp", "challenge"} /\ g[e] = "http"
      <4>1. g'[e] = "https" /\ srv'[e] = Fresh(e)
        BY <1>2, <3>2, <3>7 DEF Become, Typing
      <4>. QED BY <4>1, <3>1, <3>2, <3>4, <3>7, <1>1, <2>2 DEF PortInv, DetectInv, Fresh
    <3>8. CASE reply \notin {"mcp", "challenge"} /\ g[e] = "https"
      <4>1. g'[e] = "finish" /\ srv'[e] = Fresh(e)
        BY <1>2, <3>3, <3>8 DEF Become, Typing
      <4>2. srv'[e].conf = "none" /\ ~ srv'[e].hash
        BY <4>1, Unsure
      <4>3. Earned(e)'
        BY <4>2, <3>1, <3>3, <3>4, <3>8 DEF Earned
      <4>. QED BY <4>1, <4>3, <3>1, <1>1, <2>2 DEF PortInv, DetectInv
    <3>. QED BY <3>5, <3>6, <3>7, <3>8, <1>1
  <2>. QED BY <2>1, <2>2
<1>. QED BY <1>4, <1>5, <1>6

LEMMA ToolsReplyStep == ASSUME NEW e \in Port PROVE IInv /\ ToolsReply(e) => IInv'
<1> SUFFICES ASSUME IInv, ToolsReply(e) PROVE IInv'
  OBVIOUS
<1> USE DEF IInv
<1>1. /\ g[e] = "tools" /\ phase = "detect" /\ phase' = phase
      /\ next' = next /\ wg' = wg /\ results' = results
      /\ calls' = calls /\ from' = from /\ e < next /\ ~ (e >= next)
  BY DEF ToolsReply, PortInv, DetectInv, AuditInv, Typing, Port
<1>2. PICK reply \in ToolsReplies :
        /\ heard' = [heard EXCEPT ![e].tools = reply]
        /\ srv' = IF reply = "fail" THEN srv
                  ELSE [srv EXCEPT ![e].conf = "confirmed",
                                   ![e].hash = reply = "tools"]
  BY DEF ToolsReply, Hear
<1>3. g' = [g EXCEPT ![e] = "finish"]
  BY DEF ToolsReply, Become
<1>4. Typing'
  <2>1. heard' \in [Port -> [Request -> Reply]]
    BY <1>2 DEF Typing, Request, Reply
  <2>2. srv' \in [Port -> Server] /\ \A f \in Port : srv'[f].port = f
    BY <1>2, Confirmed DEF Typing
  <2>3. call' \in [Port -> InHand]
    BY Calling DEF ToolsReply, Call
  <2>. QED BY <1>1, <1>3, <2>1, <2>2, <2>3 DEF Typing
<1>5. WgInv' /\ ResultInv'
  <2>1. \A f \in Port \ {e} : srv'[f] = srv[f]
    BY <1>2 DEF Typing
  <2>. QED BY <1>1, <1>3, <2>1, GoesOn
<1>6. ASSUME NEW f \in Port PROVE PortInv(f)'
  <2>1. CASE f # e
    BY <2>1, <1>1, <1>2, <1>3, Frame DEF Typing
  <2>2. CASE f = e
    <3>1. /\ Unasked(e)' /\ DetectInv(e) /\ g'[e] = "finish"
          /\ heard'[e].tools = reply /\ heard'[e].http = heard[e].http
          /\ heard'[e].https = heard[e].https
      BY <1>1, <1>2, <1>3 DEF PortInv, DetectInv, Unasked, Typing, Request
    <3>2. /\ srv'[e].scheme = srv[e].scheme
          /\ reply = "fail" => srv'[e] = srv[e]
          /\ reply # "fail" => srv'[e].conf = "confirmed" /\ (srv'[e].hash <=> reply = "tools")
      BY <1>2, Confirmed
    <3>3. heard'[e][srv[e].scheme] = "mcp"
      BY <1>1, <3>1 DEF DetectInv
    <3>4. Earned(e)'
      BY <3>1, <3>2, <3>3, <1>1 DEF Earned, DetectInv, ToolsReplies
    <3>. QED BY <3>1, <3>4, <1>1, <2>2 DEF PortInv, DetectInv
  <2>. QED BY <2>1, <2>2
<1>. QED BY <1>4, <1>5, <1>6
-----------------------------------------------------------------------------
(* The audit. *)

\* Writing a verdict leaves the findings of phase 2 alone.
LEMMA VerdictWritten ==
  ASSUME NEW e \in Port, NEW auth \in {"unknown", "protected", "unprotected"},
         NEW conf \in {"low", "medium", "high"}, NEW risk \in {"low", "medium", "high"},
         Typing, srv' = [srv EXCEPT ![e] = Verdict(srv[e], auth, conf, risk)]
  PROVE  /\ srv' \in [Port -> Server] /\ \A f \in Port : srv'[f].port = f
         /\ \A f \in Port \ {e} : srv'[f] = srv[f]
         /\ srv'[e].auth = auth /\ srv'[e].risk = risk
         /\ srv'[e].conf = srv[e].conf /\ srv'[e].scheme = srv[e].scheme
         /\ srv'[e].hash = srv[e].hash
<1> DEFINE s == srv[e]
           t == Verdict(s, auth, conf, risk)
<1>1. s \in Server /\ s.port = e
  BY DEF Typing
<1>2. t \in Server
  BY <1>1 DEF Server, Verdict
<1>3. /\ t.port = e /\ t.auth = auth /\ t.risk = risk
      /\ t.conf = s.conf /\ t.scheme = s.scheme /\ t.hash = s.hash
  BY <1>1 DEF Server, Verdict
<1>4. srv'[e] = t
  BY DEF Typing
<1>5. \A f \in Port \ {e} : srv'[f] = srv[f]
  BY DEF Typing
<1>6. srv' \in [Port -> Server]
  BY <1>2 DEF Typing
<1>7. \A f \in Port : srv'[f].port = f
  BY <1>3, <1>4, <1>5 DEF Typing
<1> HIDE DEF t
<1>. QED BY <1>3, <1>4, <1>5, <1>6, <1>7

\* What phase 2 earned stays earned.
LEMMA StaysEarned ==
  ASSUME NEW e \in Port, Earned(e),
         srv'[e].conf = srv[e].conf, srv'[e].scheme = srv[e].scheme,
         srv'[e].hash = srv[e].hash, heard'[e].http = heard[e].http,
         heard'[e].https = heard[e].https, heard'[e].tools = heard[e].tools,
         srv[e].conf # "none" => heard'[e][srv[e].scheme] = heard[e][srv[e].scheme]
  PROVE  Earned(e)'
  BY DEF Earned

LEMMA CheckStep == ASSUME NEW e \in Port PROVE IInv /\ Check(e) => IInv'
<1> SUFFICES ASSUME IInv, Check(e) PROVE IInv'
  OBVIOUS
<1> USE DEF IInv
<1>1. /\ g[e] = "check" /\ phase = "audit" /\ phase' = phase
      /\ next' = next /\ wg' = wg /\ results' = results /\ heard' = heard
      /\ e < next /\ ~ (e >= next) /\ Earned(e) /\ Unasked(e)
  BY DEF Check, PortInv, DetectInv, AuditInv, Typing, Port
<1>2. PICK auth \in {"unknown", "protected"}, conf \in {"low", "medium"},
           risk \in {"low", "medium"} :
        /\ srv' = [srv EXCEPT ![e] = Verdict(srv[e], auth, conf, risk)]
        /\ srv[e].conf = "unverifiable_protected" => auth = "protected" /\ risk = "medium"
        /\ srv[e].conf = "none" => auth = "unknown" /\ risk = "low"
        /\ NeedsAudit(srv[e]) => auth = "unknown" /\ risk = "medium"
  <2>1. CASE srv[e].conf = "unverifiable_protected"
    BY <2>1 DEF Check, NeedsAudit
  <2>2. CASE srv[e].conf = "none"
    BY <2>2 DEF Check, NeedsAudit
  <2>3. CASE srv[e].conf \notin {"unverifiable_protected", "none"}
    BY <2>3 DEF Check
  <2>. QED BY <2>1, <2>2, <2>3
<1>3. /\ srv' \in [Port -> Server] /\ \A f \in Port : srv'[f].port = f
      /\ \A f \in Port \ {e} : srv'[f] = srv[f]
      /\ srv'[e].auth = auth /\ srv'[e].risk = risk
      /\ srv'[e].conf = srv[e].conf /\ srv'[e].scheme = srv[e].scheme
      /\ srv'[e].hash = srv[e].hash
  BY <1>2, VerdictWritten
<1>4. /\ g' = [g EXCEPT ![e] = IF NeedsAudit(srv[e]) THEN "audit" ELSE "finish"]
      /\ calls' = [calls EXCEPT ![e] = @ + IF NeedsAudit(srv[e]) THEN 1 ELSE 0]
      /\ from' = from
  BY DEF Check, Become
<1>5. Typing'
  <2>1. call' \in [Port -> InHand]
    <3>1. AuditScheme(srv[e]) \in Place
      BY DEF AuditScheme, Place
    <3>2. Call(e, IF NeedsAudit(srv[e]) THEN To(AuditScheme(srv[e])) ELSE NoCall)
      BY DEF Check
    <3>. QED BY <3>1, <3>2, Calling DEF Call
  <2>2. calls' \in [Port -> Nat]
    BY <1>4 DEF Typing
  <2>3. g' \in [Port -> {"idle", "http", "https", "tools", "check", "audit", "finish"}]
    BY <1>4 DEF Typing
  <2>. QED BY <1>1, <1>3, <1>4, <2>1, <2>2, <2>3 DEF Typing
<1>6. WgInv' /\ ResultInv'
  BY <1>1, <1>3, <1>4, GoesOn
<1>7. ASSUME NEW f \in Port PROVE PortInv(f)'
  <2>1. CASE f # e
    BY <2>1, <1>1, <1>3, <1>4, Frame DEF Typing
  <2>2. CASE f = e
    <3>1. Earned(e)'
      BY <1>1, <1>3, StaysEarned
    <3>2. CASE NeedsAudit(srv[e])
      <4>1. g'[e] = "audit" /\ calls'[e] = 1 /\ heard'[e].audit = "none"
        BY <1>1, <1>4, <3>2 DEF Unasked, Typing
      <4>2. NeedsAudit(srv[e])' /\ srv'[e].auth = "unknown" /\ srv'[e].risk = "medium"
        BY <1>2, <1>3, <3>2 DEF NeedsAudit
      <4>. QED BY <4>1, <4>2, <3>1, <1>1, <2>2, BatchAssumption DEF PortInv, AuditInv
    <3>3. CASE ~ NeedsAudit(srv[e])
      <4>1. g'[e] = "finish" /\ calls'[e] = 0 /\ heard'[e].audit = "none"
        BY <1>1, <1>4, <3>3 DEF Unasked, Typing
      <4>2. ~ NeedsAudit(srv[e])' /\ srv[e].conf \in {"none", "unverifiable_protected"}
        BY <1>3, <3>3 DEF NeedsAudit, Typing, Server
      <4>3. Judged(e)'
        BY <4>1, <4>2, <1>2, <1>3 DEF Judged
      <4>. QED BY <4>1, <4>3, <3>1, <1>1, <2>2 DEF PortInv, AuditInv
    <3>. QED BY <3>2, <3>3
  <2>. QED BY <2>1, <2>2
<1>. QED BY <1>5, <1>6, <1>7

LEMMA RedirectStep == ASSUME NEW e \in Port PROVE IInv /\ Redirect(e) => IInv'
<1> SUFFICES ASSUME IInv, Redirect(e) PROVE IInv'
  OBVIOUS
<1> USE DEF IInv
<1>1. UNCHANGED <<phase, next, wg, g, srv, results, heard, from, calls>>
  BY DEF Redirect
<1>2. call' \in [Port -> InHand]
  BY Calling DEF Redirect, Call
<1>3. Typing' /\ WgInv' /\ ResultInv'
  BY <1>1, <1>2 DEF Typing, WgInv, Running, ResultInv, Ended
<1>4. \A f \in Port : PortInv(f)'
  BY <1>1, Frame
<1>. QED BY <1>3, <1>4

LEMMA AuditReplyStep == ASSUME NEW e \in Port PROVE IInv /\ AuditReply(e) => IInv'
<1> SUFFICES ASSUME IInv, AuditReply(e) PROVE IInv'
  OBVIOUS
<1> USE DEF IInv
<1>1. /\ g[e] = "audit" /\ phase = "audit" /\ phase' = phase
      /\ next' = next /\ wg' = wg /\ results' = results
      /\ calls' = calls /\ from' = from /\ e < next /\ ~ (e >= next)
      /\ Earned(e) /\ NeedsAudit(srv[e]) /\ srv[e].auth = "unknown"
      /\ srv[e].risk = "medium" /\ calls[e] = 1
  BY DEF AuditReply, PortInv, DetectInv, AuditInv, Typing, Port
<1>2. PICK reply \in AuditReplies :
        /\ heard' = [heard EXCEPT ![e].audit = reply]
        /\ srv' = [srv EXCEPT ![e] = Judge(@, reply)]
  BY DEF AuditReply, Hear
<1>3. g' = [g EXCEPT ![e] = "finish"]
  BY DEF AuditReply, Become
<1>4. /\ srv' \in [Port -> Server] /\ \A f \in Port : srv'[f].port = f
      /\ \A f \in Port \ {e} : srv'[f] = srv[f]
      /\ srv'[e].conf = srv[e].conf /\ srv'[e].scheme = srv[e].scheme
      /\ srv'[e].hash = srv[e].hash
      /\ reply = "denied" => srv'[e].auth = "protected" /\ srv'[e].risk = "low"
      /\ reply \in {"tools", "rpcerror"} =>
           srv'[e].auth = "unprotected" /\ srv'[e].risk = "high"
      /\ reply \notin {"denied", "tools", "rpcerror"} =>
           srv'[e].auth = "unknown" /\ srv'[e].risk = "medium"
  <2>1. CASE reply = "denied"
    <3>1. srv' = [srv EXCEPT ![e] = Verdict(srv[e], "protected", "high", "low")]
      BY <1>2, <2>1 DEF Judge
    <3>. QED BY <3>1, <2>1, VerdictWritten
  <2>2. CASE reply \in {"tools", "rpcerror"}
    <3>1. srv' = [srv EXCEPT ![e] = Verdict(srv[e], "unprotected", "high", "high")]
      BY <1>2, <2>2 DEF Judge
    <3>. QED BY <3>1, <2>2, VerdictWritten
  <2>3. CASE reply \notin {"denied", "tools", "rpcerror"}
    <3>1. srv' = srv
      BY <1>2, <2>3 DEF Judge, Typing
    <3>. QED BY <3>1, <2>3, <1>1 DEF Typing
  <2>. QED BY <2>1, <2>2, <2>3
<1>5. heard' \in [Port -> [Request -> Reply]]
  BY <1>2 DEF Typing, Request, Reply
<1>6. Typing'
  <2>1. call' \in [Port -> InHand]
    BY Calling DEF AuditReply, Call
  <2>. QED BY <1>1, <1>3, <1>4, <1>5, <2>1 DEF Typing
<1>7. WgInv' /\ ResultInv'
  BY <1>1, <1>3, <1>4, GoesOn
<1>8. ASSUME NEW f \in Port PROVE PortInv(f)'
  <2>1. CASE f # e
    BY <2>1, <1>1, <1>2, <1>3, <1>4, Frame DEF Typing
  <2>2. CASE f = e
    <3>1. /\ heard'[e].audit = reply /\ heard'[e].http = heard[e].http
          /\ heard'[e].https = heard[e].https /\ heard'[e].tools = heard[e].tools
          /\ \A s \in {"http", "https"} : heard'[e][s] = heard[e][s]
          /\ g'[e] = "finish"
      BY <1>2, <1>3 DEF Typing, Request
    <3>2. Earned(e)'
      <4>1. srv[e].conf # "none" => heard'[e][srv[e].scheme] = heard[e][srv[e].scheme]
        BY <1>1, <3>1 DEF Earned
      <4>. QED BY <4>1, <1>1, <1>4, <3>1, StaysEarned
    <3>3. Judged(e)'
      BY <1>1, <1>4, <3>1, BatchAssumption DEF Judged, NeedsAudit, AuditReplies
    <3>. QED BY <3>1, <3>2, <3>3, <1>1, <2>2 DEF PortInv, AuditInv
  <2>. QED BY <2>1, <2>2
<1>. QED BY <1>6, <1>7, <1>8
-----------------------------------------------------------------------------
(* The theorems. *)

LEMMA NextStep == IInv /\ [Next]_vars => IInv'
<1> SUFFICES ASSUME IInv, [Next]_vars PROVE IInv'
  OBVIOUS
<1>1. CASE Spawn
  BY <1>1, SpawnStep
<1>2. CASE Wait
  BY <1>2, WaitStep
<1>3. ASSUME NEW e \in Port, Goroutine(e) PROVE IInv'
  BY <1>3, InitReplyStep, ToolsReplyStep, CheckStep, AuditReplyStep, FinishStep DEF Goroutine
<1>4. ASSUME NEW e \in Port, Redirect(e) PROVE IInv'
  BY <1>4, RedirectStep
<1>5. CASE Done \/ UNCHANGED vars
  <2>1. UNCHANGED vars
    BY <1>5 DEF Done
  <2>2. Typing' /\ WgInv' /\ ResultInv'
    BY <2>1 DEF IInv, Typing, WgInv, Running, ResultInv, Ended, vars
  <2>3. \A e \in Port : PortInv(e)'
    BY <2>1, Frame DEF IInv, vars
  <2>. QED BY <2>2, <2>3 DEF IInv
<1>. QED BY <1>1, <1>2, <1>3, <1>4, <1>5 DEF Next

\* The invariant behind the theorems below.
THEOREM Invariance == Spec => []IInv
<1>. QED BY InitHolds, NextStep, PTL DEF Spec

\* Type correctness for any number of ports (detector.go:379-509,
\* checker.go:50-170).
THEOREM TypeCorrect == Spec => []TypeOK
<1>1. IInv => TypeOK
  <2> SUFFICES ASSUME IInv PROVE TypeOK
    OBVIOUS
  <2>1. wg \in 0 .. N
    <3>1. Running \subseteq Port /\ Cardinality(Port) = N
      BY FS_Interval, BatchAssumption DEF Running, Port
    <3>. QED BY <3>1, PortFinite, FS_Subset, FS_CardinalityType, BatchAssumption
         DEF IInv, Typing, WgInv
  <2>2. \A e \in Port : results[e].port \in {0, e}
    BY DEF IInv, ResultInv, Typing, Unwritten
  <2>. QED BY <2>1, <2>2 DEF IInv, Typing, TypeOK, InHand
<1>. QED BY <1>1, Invariance, PTL

\* Whatever the servers answer, redirects included, each confidence is the one
\* the answers to this port's own requests call for, and nothing is likely or
\* confirmed unless the request over the scheme reported brought an MCP
\* handshake (detector.go:401-486).
THEOREM ConfidenceIsEarned == Spec => []ConfidenceEarned
<1>1. IInv => ConfidenceEarned
  BY DEF IInv, PortInv, AuditInv, Earned, ConfidenceEarned, Detected, Found
<1>. QED BY <1>1, Invariance, PTL

\* When phase 3 is over the slice holds what the goroutines came to.
LEMMA DoneSlice ==
  ASSUME IInv, phase = "done", NEW e \in Port
  PROVE  results[e] = srv[e] /\ Earned(e) /\ Judged(e)
  BY DEF IInv, ResultInv, Ended, PortInv

\* No verdict that this scan's own audit did not justify (checker.go:50-147).
THEOREM VerdictIsEarned == Spec => []VerdictEarned
<1>1. IInv => VerdictEarned
  BY DoneSlice DEF VerdictEarned, Judged
<1>. QED BY <1>1, Invariance, PTL

\* One audit call per MCP server and none for others (checker.go:57-101).
THEOREM OneCall == Spec => []OneAuditCall
<1>1. IInv => OneAuditCall
  BY DoneSlice DEF OneAuditCall, Judged
<1>. QED BY <1>1, Invariance, PTL

\* Neither batch hands over before every goroutine wrote its own element
\* (detector.go:495-508, checker.go:156-169).
THEOREM BatchesComplete == Spec => []BatchComplete
<1>1. IInv => BatchComplete
  BY DoneSlice DEF IInv, Typing, BatchComplete
<1>. QED BY <1>1, Invariance, PTL
-----------------------------------------------------------------------------
(* The summary. *)

LEMMA TwoParts ==
  ASSUME NEW S, NEW A, NEW B, IsFiniteSet(S), S = A \cup B, A \cap B = {}
  PROVE  Cardinality(S) = Cardinality(A) + Cardinality(B)
<1>1. IsFiniteSet(A) /\ IsFiniteSet(B)
  BY FS_Subset
<1>2. /\ Cardinality(A) \in Nat /\ Cardinality(B) \in Nat
      /\ Cardinality(A \cap B) = 0
  BY <1>1, FS_CardinalityType, FS_EmptySet
<1>3. Cardinality(A \cup B)
        = Cardinality(A) + Cardinality(B) - Cardinality(A \cap B)
  BY <1>1, FS_Union
<1>. QED BY <1>2, <1>3

LEMMA ThreeParts ==
  ASSUME NEW S, NEW A, NEW B, NEW C, IsFiniteSet(S), S = A \cup B \cup C,
         A \cap B = {}, A \cap C = {}, B \cap C = {}
  PROVE  Cardinality(S) = Cardinality(A) + Cardinality(B) + Cardinality(C)
<1>1. IsFiniteSet(A \cup B) /\ (A \cup B) \cap C = {}
  BY FS_Subset
<1>2. Cardinality(S) = Cardinality(A \cup B) + Cardinality(C)
  BY <1>1, TwoParts
<1>3. Cardinality(A \cup B) = Cardinality(A) + Cardinality(B)
  BY <1>1, TwoParts
<1>. QED BY <1>2, <1>3

\* The summary's totals agree for any number of servers, however they
\* behaved (types.go:170-225).
THEOREM SummaryIsConsistent == Spec => []SummaryAddsUp
<1>1. IInv => SummaryAddsUp
  <2> SUFFICES ASSUME IInv, phase = "done" PROVE SummaryAddsUp
    BY DEF SummaryAddsUp
  <2> DEFINE Ev == {e \in Port : Evaluated(results[e])}
             Of(c) == {e \in Port : results[e].conf = c}
             St(a) == {e \in Port : Evaluated(results[e]) /\ results[e].auth = a}
             Ri(r) == {e \in Port : Counted(results[e]) /\ results[e].risk = r}
             PA(r) == {e \in Port : /\ Evaluated(results[e])
                                    /\ results[e].auth = "protected"
                                    /\ results[e].risk = r}
  <2>1. \A e \in Port :
          LET s == results[e]
          IN /\ s.conf \in {"none", "likely", "confirmed", "unverifiable_protected"}
             /\ s.auth \in {"unknown", "protected", "unprotected"}
             /\ s.risk \in {"low", "medium", "high"}
             /\ s.risk = "high" <=> s.auth = "unprotected"
             /\ s.auth = "protected" /\ s.risk = "medium"
                  <=> s.conf = "unverifiable_protected"
    <3> SUFFICES ASSUME NEW e \in Port
                 PROVE  LET s == results[e]
                        IN /\ s.conf \in {"none", "likely", "confirmed", "unverifiable_protected"}
                           /\ s.auth \in {"unknown", "protected", "unprotected"}
                           /\ s.risk \in {"low", "medium", "high"}
                           /\ s.risk = "high" <=> s.auth = "unprotected"
                           /\ s.auth = "protected" /\ s.risk = "medium"
                                <=> s.conf = "unverifiable_protected"
      OBVIOUS
    <3>1. results[e] = srv[e] /\ Judged(e)
      BY DoneSlice
    <3>2. srv[e] \in Server
      BY DEF IInv, Typing
    <3>3. /\ srv[e].conf \in {"none", "likely", "confirmed", "unverifiable_protected"}
          /\ srv[e].auth \in {"unknown", "protected", "unprotected"}
          /\ srv[e].risk \in {"low", "medium", "high"}
      BY <3>2 DEF Server
    <3>4. srv[e].risk = "high" <=> srv[e].auth = "unprotected"
      BY <3>1, <3>3 DEF Judged
    <3>5. srv[e].auth = "protected" /\ srv[e].risk = "medium"
            <=> srv[e].conf = "unverifiable_protected"
      BY <3>1, <3>3 DEF Judged
    <3>. QED BY <3>1, <3>3, <3>4, <3>5
  <2>2. IsFiniteSet(Ev) /\ IsFiniteSet(St("protected"))
    BY PortFinite, FS_Subset
  <2>3. Cardinality(Ev) = Cardinality(Of("confirmed")) + Cardinality(Of("likely"))
                            + Cardinality(Of("unverifiable_protected"))
    <3>1. Ev = Of("confirmed") \cup Of("likely") \cup Of("unverifiable_protected")
      BY <2>1 DEF Evaluated
    <3>. QED BY <3>1, <2>2, ThreeParts
  <2>4. Cardinality(Ev) = Cardinality(St("unprotected")) + Cardinality(St("protected"))
                            + Cardinality(St("unknown"))
    <3>1. Ev = St("unprotected") \cup St("protected") \cup St("unknown")
      BY <2>1
    <3>. QED BY <3>1, <2>2, ThreeParts
  <2>5. Cardinality(Ev) = Cardinality(Ri("high")) + Cardinality(Ri("medium"))
                            + Cardinality(Ri("low"))
    <3>1. Ev = Ri("high") \cup Ri("medium") \cup Ri("low")
      BY <2>1 DEF Counted
    <3>. QED BY <3>1, <2>2, ThreeParts
  <2>6. Ri("high") = St("unprotected")
    BY <2>1 DEF Counted
  <2>7. Cardinality(St("protected")) = Cardinality(PA("low")) + Cardinality(PA("medium"))
    <3>1. St("protected") = PA("low") \cup PA("medium")
      BY <2>1
    <3>. QED BY <3>1, <2>2, TwoParts
  <2>8. PA("medium") = Of("unverifiable_protected")
    BY <2>1 DEF Evaluated
  <2>. QED BY <2>3, <2>4, <2>5, <2>6, <2>7, <2>8
       DEF SummaryAddsUp, Count, Confidences, Statuses, Risks, ProtectedAt
<1>. QED BY <1>1, Invariance, PTL
=============================================================================
