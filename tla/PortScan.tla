------------------------------ MODULE PortScan ------------------------------
(***************************************************************************)
(* Scanner.ScanPorts of src/internal/scanner/scanner.go.  One dispatcher   *)
(* walks targets x ports; for each pair it takes a slot of the semaphore   *)
(* channel, takes a tick of the shared ticker, and starts a goroutine that *)
(* dials, appends to the shared slice under a mutex, gives its slot back   *)
(* and signs off at the wait group.  Both waits of the dispatcher also     *)
(* listen to the context, so the caller may cancel at any time.            *)
(***************************************************************************)
EXTENDS Integers, Sequences, FiniteSets, Functions

CONSTANTS NTargets, NPorts,  \* len(targets), len(ports)
          Concurrency,       \* config.Concurrency, any int of the command line
          DefaultWorkers,    \* 100 in the code
          MaxWorkers,        \* 500 in the code
          RateLimit,         \* config.RateLimit, any int of the command line
          DefaultRate,       \* 500 in the code
          MaxRate,           \* 2000 in the code
          Second,            \* time.Second: 10^9 nanoseconds
          IpRank(_)          \* rank of a target's IP among the IP strings

ASSUME SizesAssumption == NTargets \in Nat /\ NPorts \in Nat
ASSUME WorkersAssumption ==
  /\ Concurrency \in Int
  /\ DefaultWorkers \in Nat \ {0} /\ MaxWorkers \in Nat
  /\ DefaultWorkers <= MaxWorkers
ASSUME RateAssumption ==
  /\ RateLimit \in Int
  /\ DefaultRate \in Nat \ {0} /\ MaxRate \in Nat /\ Second \in Nat
  /\ DefaultRate <= MaxRate /\ MaxRate <= Second
ASSUME RankAssumption ==
  /\ \A t \in 1 .. NTargets : IpRank(t) \in Nat
  /\ \A t, u \in 1 .. NTargets : IpRank(t) = IpRank(u) => t = u

\* Bug: no upper bound on what the command line asks for.
ClampBelow(x, default, most) == IF x <= 0 THEN default ELSE x

Clamp(x, default, most) ==
  IF x <= 0 THEN default ELSE IF x > most THEN most ELSE x

Workers  == Clamp(Concurrency, DefaultWorkers, MaxWorkers)
Rate     == Clamp(RateLimit, DefaultRate, MaxRate)
Interval == Second \div Rate

Job == (1 .. NTargets) \X (1 .. NPorts)

\* The less function of the final sort: by IP string, then by port.
Less(a, b) == IF a[1] = b[1] THEN a[2] < b[2] ELSE IpRank(a[1]) < IpRank(b[1])

VARIABLES
  pc,         \* where the dispatcher is
  t, p,       \* its loop indices
  ctxDone,    \* the context is cancelled
  sem,        \* tokens in the semaphore channel
  tickC,      \* ticks in the ticker's channel, whose capacity is 1
  burst,      \* ghost: probes released in excess of the ticker's firings
  wg,         \* wait-group counter
  mu,         \* holder of the mutex, NoJob when free
  g,          \* where each job's goroutine is
  snap,       \* the slice a goroutine's append has read
  openPorts,  \* the shared slice
  answered,   \* ghost: jobs whose dial succeeded
  ret         \* what the call returned: "none", "ok" or "cancelled"

vars == <<pc, t, p, ctxDone, sem, tickC, burst, wg, mu, g, snap,
          openPorts, answered, ret>>
shared == <<sem, tickC, burst, wg, mu, g, snap, openPorts, answered>>
dispatcher == <<pc, t, p, ret>>

NoJob == <<0, 0>>

DispatcherPC == {"start", "slot", "tick", "spawn", "wait", "sort",
                 "drain", "returned", "panic"}
GoroutinePC == {"none", "dial", "open", "append", "unlock", "exit",
                "signoff", "gone"}

Cur == <<t, p>>

Init ==
  /\ pc = "start" /\ t = 1 /\ p = 1 /\ ret = "none"
  /\ ctxDone = FALSE
  /\ sem = 0 /\ tickC = 0 /\ burst = 0 /\ wg = 0 /\ mu = NoJob
  /\ g = [j \in Job |-> "none"]
  /\ snap = [j \in Job |-> << >>]
  /\ openPorts = << >> /\ answered = {}
-----------------------------------------------------------------------------
(* The dispatcher. *)

\* The early return on empty input; time.NewTicker panics unless positive.
Begin ==
  /\ pc = "start"
  /\ LET empty == NTargets = 0 \/ NPorts = 0
     IN /\ pc' = IF empty THEN "returned"
                ELSE IF Interval > 0 THEN "slot" ELSE "panic"
        /\ ret' = IF empty THEN "ok" ELSE ret
  /\ UNCHANGED <<t, p, ctxDone, shared>>

\* Bug: the slot test is off by one.
AcquireSlotOffByOne ==
  /\ pc = "slot"
  /\ sem <= Workers
  /\ sem' = sem + 1
  /\ pc' = "tick"
  /\ UNCHANGED <<t, p, ret, ctxDone, tickC, burst, wg, mu, g, snap,
                 openPorts, answered>>

AcquireSlot ==
  /\ pc = "slot"
  /\ sem < Workers
  /\ sem' = sem + 1
  /\ pc' = "tick"
  /\ UNCHANGED <<t, p, ret, ctxDone, tickC, burst, wg, mu, g, snap,
                 openPorts, answered>>

CancelAtSlot ==
  /\ pc = "slot"
  /\ ctxDone
  /\ pc' = "drain"
  /\ UNCHANGED <<t, p, ret, ctxDone, shared>>

\* Bug: the limiter is asked once per target, outside the loop over ports.
TakeTickPerTarget ==
  /\ pc = "tick"
  /\ p = 1 => tickC > 0
  /\ tickC' = IF p = 1 THEN tickC - 1 ELSE tickC
  /\ pc' = "spawn"
  /\ UNCHANGED <<t, p, ret, ctxDone, sem, burst, wg, mu, g, snap, openPorts,
                 answered>>

TakeTick ==
  /\ pc = "tick"
  /\ tickC > 0
  /\ tickC' = tickC - 1
  /\ pc' = "spawn"
  /\ UNCHANGED <<t, p, ret, ctxDone, sem, burst, wg, mu, g, snap, openPorts,
                 answered>>

\* Bug: the abort keeps its slot.
CancelAtTickLeak ==
  /\ pc = "tick"
  /\ ctxDone
  /\ pc' = "drain"
  /\ UNCHANGED <<t, p, ret, ctxDone, shared>>

CancelAtTick ==
  /\ pc = "tick"
  /\ ctxDone
  /\ sem' = sem - 1
  /\ pc' = "drain"
  /\ UNCHANGED <<t, p, ret, ctxDone, tickC, burst, wg, mu, g, snap,
                 openPorts, answered>>

\* Bug: the goroutine starts without wg.Add(1).
SpawnNoAdd ==
  /\ pc = "spawn"
  /\ burst' = burst + 1
  /\ g' = [g EXCEPT ![Cur] = "dial"]
  /\ p' = IF p < NPorts THEN p + 1 ELSE 1
  /\ t' = IF p < NPorts THEN t ELSE t + 1
  /\ pc' = IF p = NPorts /\ t = NTargets THEN "wait" ELSE "slot"
  /\ UNCHANGED <<ret, ctxDone, sem, tickC, wg, mu, snap, openPorts,
                 answered>>

\* wg.Add(1), the go statement, and the step of the nested loops.
Spawn ==
  /\ pc = "spawn"
  /\ burst' = burst + 1
  /\ wg' = wg + 1
  /\ g' = [g EXCEPT ![Cur] = "dial"]
  /\ p' = IF p < NPorts THEN p + 1 ELSE 1
  /\ t' = IF p < NPorts THEN t ELSE t + 1
  /\ pc' = IF p = NPorts /\ t = NTargets THEN "wait" ELSE "slot"
  /\ UNCHANGED <<ret, ctxDone, sem, tickC, mu, snap, openPorts,
                 answered>>

\* Bug: the scan sorts and returns without wg.Wait().
AwaitNone ==
  /\ pc = "wait"
  /\ pc' = "sort"
  /\ UNCHANGED <<t, p, ret, ctxDone, shared>>

AwaitAll ==
  /\ pc = "wait"
  /\ wg = 0
  /\ pc' = "sort"
  /\ UNCHANGED <<t, p, ret, ctxDone, shared>>

Ordered(s) == \A i, j \in DOMAIN s : i < j => ~ Less(s[j], s[i])

\* What sort.Slice may make of s.
Sortings(s) ==
  {r \in {[i \in DOMAIN s |-> s[f[i]]] : f \in Bijection(DOMAIN s, DOMAIN s)} :
     Ordered(r)}

SortAndReturn ==
  /\ pc = "sort"
  /\ openPorts' \in Sortings(openPorts)
  /\ pc' = "returned" /\ ret' = "ok"
  /\ UNCHANGED <<t, p, ctxDone, sem, tickC, burst, wg, mu, g, snap, answered>>

\* Bug: the cancelled branches return without wg.Wait().
DrainNone ==
  /\ pc = "drain"
  /\ pc' = "returned" /\ ret' = "cancelled"
  /\ UNCHANGED <<t, p, ctxDone, shared>>

\* The cancelled branches wait as well, and return the slice as it is.
DrainAndReturn ==
  /\ pc = "drain"
  /\ wg = 0
  /\ pc' = "returned" /\ ret' = "cancelled"
  /\ UNCHANGED <<t, p, ctxDone, shared>>

Dispatcher == \/ Begin \/ AcquireSlot \/ CancelAtSlot \/ TakeTick
              \/ CancelAtTick \/ Spawn \/ AwaitAll \/ SortAndReturn
              \/ DrainAndReturn
-----------------------------------------------------------------------------
(* The goroutine of job j. *)

DialOpen(j) ==
  /\ g[j] = "dial"
  /\ g' = [g EXCEPT ![j] = "open"]
  /\ answered' = answered \cup {j}
  /\ UNCHANGED <<dispatcher, ctxDone, sem, tickC, burst, wg, mu, snap,
                 openPorts>>

\* Bug: the failure path returns past the deferred release of its slot.
DialFailLeak(j) ==
  /\ g[j] = "dial"
  /\ g' = [g EXCEPT ![j] = "signoff"]
  /\ UNCHANGED <<dispatcher, ctxDone, sem, tickC, burst, wg, mu, snap,
                 openPorts, answered>>

\* Refused, timed out, or any other error: the port counts as closed.
DialFail(j) ==
  /\ g[j] = "dial"
  /\ g' = [g EXCEPT ![j] = "exit"]
  /\ UNCHANGED <<dispatcher, ctxDone, sem, tickC, burst, wg, mu, snap,
                 openPorts, answered>>

\* Bug: the append runs without the mutex.
LockFree(j) ==
  /\ g[j] = "open"
  /\ snap' = [snap EXCEPT ![j] = openPorts]
  /\ g' = [g EXCEPT ![j] = "append"]
  /\ UNCHANGED <<dispatcher, ctxDone, sem, tickC, burst, wg, mu, openPorts,
                 answered>>

\* mu.Lock(), and the read of openPorts that starts the append.
Lock(j) ==
  /\ g[j] = "open"
  /\ mu = NoJob
  /\ mu' = j
  /\ snap' = [snap EXCEPT ![j] = openPorts]
  /\ g' = [g EXCEPT ![j] = "append"]
  /\ UNCHANGED <<dispatcher, ctxDone, sem, tickC, burst, wg, openPorts,
                 answered>>

\* The assignment that ends the append.
AppendPort(j) ==
  /\ g[j] = "append"
  /\ openPorts' = Append(snap[j], j)
  /\ snap' = [snap EXCEPT ![j] = << >>]
  /\ g' = [g EXCEPT ![j] = "unlock"]
  /\ UNCHANGED <<dispatcher, ctxDone, sem, tickC, burst, wg, mu, answered>>

Unlock(j) ==
  /\ g[j] = "unlock"
  /\ mu' = NoJob
  /\ g' = [g EXCEPT ![j] = "exit"]
  /\ UNCHANGED <<dispatcher, ctxDone, sem, tickC, burst, wg, snap,
                 openPorts, answered>>

\* The deferred function: first the slot, then the wait group.
ReleaseSlot(j) ==
  /\ g[j] = "exit"
  /\ sem > 0
  /\ sem' = sem - 1
  /\ g' = [g EXCEPT ![j] = "signoff"]
  /\ UNCHANGED <<dispatcher, ctxDone, tickC, burst, wg, mu, snap,
                 openPorts, answered>>

SignOff(j) ==
  /\ g[j] = "signoff"
  /\ wg' = wg - 1
  /\ g' = [g EXCEPT ![j] = "gone"]
  /\ UNCHANGED <<dispatcher, ctxDone, sem, tickC, burst, mu, snap,
                 openPorts, answered>>

Goroutine(j) == \/ DialOpen(j) \/ DialFail(j) \/ Lock(j) \/ AppendPort(j)
                \/ Unlock(j) \/ ReleaseSlot(j) \/ SignOff(j)
-----------------------------------------------------------------------------
(* The runtime and the caller. *)

\* The ticker fires; a tick that finds the channel full is dropped.
Tick ==
  /\ pc \notin {"start", "returned", "panic"}
  /\ tickC' = 1
  /\ burst' = IF burst > 0 THEN burst - 1 ELSE 0
  /\ UNCHANGED <<dispatcher, ctxDone, sem, wg, mu, g, snap, openPorts, answered>>

Cancel ==
  /\ ~ ctxDone
  /\ ctxDone' = TRUE
  /\ UNCHANGED <<dispatcher, shared>>

\* The call has returned: nothing more to do (not a deadlock).
Returned == pc = "returned" /\ UNCHANGED vars

Next == Dispatcher \/ (\E j \in Job : Goroutine(j)) \/ Tick \/ Cancel \/ Returned

Spec == Init /\ [][Next]_vars

\* Every runnable goroutine runs, dials end by their timeout, the ticker fires.
FairSpec == /\ Spec
            /\ WF_vars(Dispatcher)
            /\ \A j \in Job : WF_vars(Goroutine(j))
            /\ WF_vars(Tick)
-----------------------------------------------------------------------------
(* Properties. *)

\* Type correctness of ScanPorts' state (scanner.go:245-328).
TypeOK ==
  /\ pc \in DispatcherPC
  /\ t \in 1 .. NTargets + 1 /\ p \in Nat \ {0}
  /\ ctxDone \in BOOLEAN
  /\ sem \in 0 .. Workers
  /\ tickC \in 0 .. 1 /\ burst \in Nat
  /\ wg \in Nat
  /\ mu \in Job \cup {NoJob}
  /\ g \in [Job -> GoroutinePC]
  /\ snap \in [Job -> Seq(Job)]
  /\ openPorts \in Seq(Job)
  /\ answered \in SUBSET Job
  /\ ret \in {"none", "ok", "cancelled"}

\* The goroutines that still hold a slot, and those the wait group counts.
Holding == {j \in Job : g[j] \notin {"none", "signoff", "gone"}}
Live    == {j \in Job : g[j] \notin {"none", "gone"}}

\* The semaphore and the wait group count what they stand for through every
\* interleaving, cancellation included: a slot leaked on an abort path, or a
\* missing Add, would show up here (scanner.go:286, 292, 298, 301, 302).
Accounting ==
  /\ sem = Cardinality(Holding) + (IF pc \in {"tick", "spawn"} THEN 1 ELSE 0)
  /\ wg = Cardinality(Live)

\* No more than the clamped concurrency of sockets are ever being dialed.
ConcurrencyBound == Cardinality({j \in Job : g[j] = "dial"}) <= Workers

\* In no stretch of the scan that sees k firings of the shared ticker are more
\* than k + 2 goroutines started: besides one probe per firing only the tick
\* the channel held and the probe already past its tick when the stretch began
\* (scanner.go:267-303).  burst is that excess, maximised over the stretches
\* that end now.
RateBound == burst <= 2

\* The shared slice never loses or repeats an answer: it lists exactly the
\* answers whose append is done (the mutex of scanner.go:309-311).
ResultsExact ==
  /\ {openPorts[i] : i \in DOMAIN openPorts}
       = {j \in answered : g[j] \in {"unlock", "exit", "signoff", "gone"}}
  /\ \A i, k \in DOMAIN openPorts : openPorts[i] = openPorts[k] => i = k

\* On return by either path no goroutine of the call is alive, so nothing can
\* write the slice the caller now reads (wg.Wait at scanner.go:284, 293, 317).
QuietReturn == pc = "returned" => /\ \A j \in Job : g[j] \in {"none", "gone"}
                                  /\ sem = 0 /\ mu = NoJob

\* No value of the flags makes the ticker's interval vanish (scanner.go:258-267).
NoPanic == pc # "panic"

\* The call returns: no lost wake-up, no slot held for ever, cancelled or not.
Termination == <>(pc = "returned")

\* ScanPorts implements what it promises its caller.
Abs == INSTANCE PortScanAbs WITH
         Precedes <- Less,
         dialed <- {j \in Job : g[j] \notin {"none", "dial"}},
         result <- IF pc = "returned" THEN openPorts ELSE << >>,
         status <- IF pc = "returned" THEN ret ELSE "running"
Refinement == Abs!AbsSpec
=============================================================================
