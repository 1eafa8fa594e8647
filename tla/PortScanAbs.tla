---------------------------- MODULE PortScanAbs ----------------------------
(***************************************************************************)
(* What Scanner.ScanPorts (src/internal/scanner/scanner.go) promises its   *)
(* caller: every endpoint is dialed at most once, and the one slice that   *)
(* is handed back lists exactly the endpoints that answered, once each.    *)
(* A scan that ran to its end has dialed every endpoint and its result is  *)
(* in the report's order; a cancelled scan hands back what it has.         *)
(***************************************************************************)
EXTENDS Integers, Sequences

CONSTANTS Job,          \* the (target, port) pairs of the call
          Precedes(_,_) \* the report's order on them

VARIABLES dialed,    \* jobs whose dial has ended
          answered,  \* jobs whose dial succeeded
          result,    \* the returned slice (empty until the call returns)
          status     \* "running", "ok" or "cancelled"

absVars == <<dialed, answered, result, status>>

\* s lists the members of S, each of them once.
Lists(s, S) == /\ {s[i] : i \in DOMAIN s} = S
               /\ \A i, j \in DOMAIN s : s[i] = s[j] => i = j

\* s is in the report's order.
Ordered(s) == \A i, j \in DOMAIN s : i < j => Precedes(s[i], s[j])

AbsInit == /\ dialed = {}
           /\ answered = {}
           /\ result = << >>
           /\ status = "running"

AbsDial(j) == /\ status = "running"
              /\ j \in Job \ dialed
              /\ dialed' = dialed \cup {j}
              /\ answered' \in {answered, answered \cup {j}}
              /\ UNCHANGED <<result, status>>

AbsReturn == /\ status = "running"
             /\ status' = "ok"
             /\ dialed = Job
             /\ Lists(result', answered)
             /\ Ordered(result')
             /\ UNCHANGED <<dialed, answered>>

AbsCancel == /\ status = "running"
             /\ status' = "cancelled"
             /\ Lists(result', answered)
             /\ UNCHANGED <<dialed, answered>>

AbsNext == (\E j \in Job : AbsDial(j)) \/ AbsReturn \/ AbsCancel

AbsSpec == AbsInit /\ [][AbsNext]_absVars
=============================================================================
