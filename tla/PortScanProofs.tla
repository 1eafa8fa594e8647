--------------------------- MODULE PortScanProofs ---------------------------
(***************************************************************************)
(* Machine-checked proofs about PortScan for every number of targets and   *)
(* ports and every value of the --concurrency and --rate-limit flags.      *)
(***************************************************************************)
EXTENDS PortScan, FiniteSetTheorems, TLAPS

-----------------------------------------------------------------------------
(* The inductive invariant. *)

\* Job j comes before the dispatcher's loop indices.
Passed(j) == j[1] < t \/ (j[1] = t /\ j[2] < p)

\* The dispatcher has started exactly the jobs its loops have passed.
CursorInv ==
  /\ p \in 1 .. NPorts + 1
  /\ pc \in {"slot", "tick", "spawn"} => t <= NTargets /\ p <= NPorts
  /\ pc \in {"slot", "tick", "spawn"} =>
       \A j \in Job : g[j] # "none" <=> Passed(j)
  /\ pc \in {"wait", "sort"} => \A j \in Job : g[j] # "none"
  /\ pc = "start" => t = 1 /\ p = 1 /\ \A j \in Job : g[j] = "none"

\* The mutex holder is the one goroutine between Lock and Unlock, and what
\* its append has read is still the shared slice.
MutexInv ==
  /\ \A j \in Job : g[j] \in {"append", "unlock"} <=> mu = j
  /\ \A j \in Job : g[j] = "append" => snap[j] = openPorts

\* A goroutine past its dial without error has been counted as an answer.
AnswerInv ==
  \A j \in Job : /\ g[j] \in {"none", "dial"} => j \notin answered
                 /\ g[j] \in {"open", "append", "unlock"} => j \in answered

\* What the outcome says about the dispatcher and the goroutines.
ReturnInv ==
  /\ ret # "none" <=> pc = "returned"
  /\ pc = "sort" => wg = 0
  /\ pc = "returned" => wg = 0
  /\ pc = "returned" /\ ret = "ok" => /\ \A j \in Job : g[j] # "none"
                                      /\ Ordered(openPorts)

\* The tick in the channel, and the tick taken for a probe not yet started,
\* are what may still be released without a further firing.
TickInv == burst + tickC + (IF pc = "spawn" THEN 1 ELSE 0) <= 2

IInv == /\ TypeOK /\ Accounting /\ ResultsExact /\ NoPanic
        /\ CursorInv /\ MutexInv /\ AnswerInv /\ ReturnInv /\ TickInv
-----------------------------------------------------------------------------
(* Constants and finite sets. *)

\* The semaphore is never built with capacity 0, which would block the
\* dispatcher for ever, nor above the cap (scanner.go:250-256).
THEOREM WorkersInRange == Workers \in 1 .. MaxWorkers
  BY WorkersAssumption DEF Workers, Clamp

\* The ticker's interval is positive whatever --rate-limit says, so
\* time.NewTicker does not panic (scanner.go:258-268).
LEMMA IntervalPositive == Interval > 0
<1>1. Rate \in 1 .. MaxRate
  BY RateAssumption DEF Rate, Clamp
<1>2. Rate \in Nat \ {0} /\ Rate <= Second /\ Second \in Nat
  BY <1>1, RateAssumption
<1>3. \A a, b \in Nat : b > 0 /\ b <= a => a \div b > 0
  OBVIOUS
<1> QED
  BY <1>2, <1>3 DEF Interval

LEMMA JobFinite == IsFiniteSet(Job)
<1>1. IsFiniteSet(1 .. NTargets) /\ IsFiniteSet(1 .. NPorts)
  BY FS_Interval, SizesAssumption
<1> QED
  BY <1>1, FS_Product, Zenon DEF Job

LEMMA NoJobNotJob == NoJob \notin Job
  BY SizesAssumption DEF NoJob, Job

LEMMA HoldingFinite ==
  /\ IsFiniteSet(Holding) /\ Cardinality(Holding) \in Nat
  /\ IsFiniteSet(Live) /\ Cardinality(Live) \in Nat
  BY JobFinite, FS_Subset, FS_CardinalityType DEF Holding, Live

\* Adding or removing one member moves a cardinality by one.
LEMMA CardinalityAdd ==
  ASSUME NEW S, IsFiniteSet(S), NEW x, x \notin S
  PROVE  Cardinality(S \cup {x}) = Cardinality(S) + 1
  BY FS_AddElement

LEMMA CardinalityRemove ==
  ASSUME NEW S, IsFiniteSet(S), NEW x, x \in S
  PROVE  /\ Cardinality(S \ {x}) = Cardinality(S) - 1
         /\ Cardinality(S) \in Nat \ {0}
  BY FS_RemoveElement, FS_CardinalityType, FS_EmptySet
-----------------------------------------------------------------------------
(* Base case. *)

LEMMA InitIInv == Init => IInv
<1> SUFFICES ASSUME Init PROVE IInv
  OBVIOUS
<1> USE DEF Init
<1>1. TypeOK
  <2>1. << >> \in Seq(Job)
    OBVIOUS
  <2>2. snap \in [Job -> Seq(Job)] /\ g \in [Job -> GoroutinePC]
    BY <2>1 DEF GoroutinePC
  <2>3. sem \in 0 .. Workers /\ tickC \in 0 .. 1 /\ burst \in Nat /\ wg \in Nat
    BY WorkersInRange, WorkersAssumption
  <2>4. t \in 1 .. NTargets + 1 /\ p \in Nat \ {0}
    BY SizesAssumption
  <2>5. pc \in DispatcherPC /\ mu \in Job \cup {NoJob} /\ answered \in SUBSET Job
    BY DEF DispatcherPC
  <2>6. openPorts \in Seq(Job) /\ ctxDone \in BOOLEAN
           /\ ret \in {"none", "ok", "cancelled"}
    BY <2>1
  <2> QED
    BY <2>2, <2>3, <2>4, <2>5, <2>6 DEF TypeOK
<1>2. Accounting
  <2>1. Holding = {} /\ Live = {}
    BY DEF Holding, Live
  <2> QED
    BY <2>1, FS_EmptySet DEF Accounting
<1>3. CursorInv /\ MutexInv /\ AnswerInv /\ ReturnInv /\ TickInv /\ NoPanic
  BY NoJobNotJob, SizesAssumption
  DEF CursorInv, MutexInv, AnswerInv, ReturnInv, TickInv, NoPanic
<1>4. ResultsExact
  BY DEF ResultsExact
<1> QED
  BY <1>1, <1>2, <1>3, <1>4 DEF IInv
-----------------------------------------------------------------------------
(* One lemma per action of the dispatcher. *)

LEMMA BeginStep == IInv /\ Begin => IInv'
<1> SUFFICES ASSUME IInv, Begin PROVE IInv'
  OBVIOUS
<1> USE DEF IInv, Begin, shared
<1>1. TypeOK' /\ NoPanic' /\ TickInv' /\ AnswerInv' /\ MutexInv'
  BY IntervalPositive
  DEF TypeOK, DispatcherPC, NoPanic, TickInv, AnswerInv, MutexInv
<1>2. Holding' = Holding /\ Live' = Live /\ Accounting'
  BY DEF Accounting, Holding, Live
<1>3. ResultsExact'
  BY DEF ResultsExact
<1>4. CursorInv'
  <2>1. \A j \in Job : ~ Passed(j)
    BY DEF CursorInv, Passed, Job
  <2> QED
    BY <2>1, SizesAssumption DEF CursorInv, Passed, TypeOK, Job
<1>5. ReturnInv'
  <2>1. Live = {} /\ wg = 0
    BY FS_EmptySet DEF CursorInv, Live, Accounting
  <2>2. DOMAIN openPorts = {}
    <3>1. \A j \in Job : g[j] = "none"
      BY DEF CursorInv
    <3>2. {openPorts[i] : i \in DOMAIN openPorts} = {}
      BY <3>1 DEF ResultsExact, TypeOK
    <3> QED
      BY <3>2
  <2>3. ret' = "ok" => Job = {}
    BY SizesAssumption DEF Job, ReturnInv
  <2> QED
    BY <2>1, <2>2, <2>3 DEF ReturnInv, Ordered
<1> QED
  BY <1>1, <1>2, <1>3, <1>4, <1>5

\* Actions that touch neither the goroutines nor the slice leave the counted
\* sets, and what they say of the slice, alone.
LEMMA Untouched ==
  ASSUME UNCHANGED <<g, openPorts, answered>>
  PROVE  /\ Holding' = Holding /\ Live' = Live
         /\ ResultsExact => ResultsExact'
         /\ AnswerInv => AnswerInv'
  BY DEF Holding, Live, ResultsExact, AnswerInv

LEMMA AcquireSlotStep == IInv /\ AcquireSlot => IInv'
<1> SUFFICES ASSUME IInv, AcquireSlot PROVE IInv'
  OBVIOUS
<1> USE DEF IInv, AcquireSlot
<1>1. TypeOK'
  BY WorkersInRange, WorkersAssumption DEF TypeOK, DispatcherPC
<1>2. Accounting'
  BY Untouched, HoldingFinite DEF Accounting
<1>3. ResultsExact' /\ AnswerInv'
  BY Untouched
<1>4. NoPanic' /\ MutexInv' /\ ReturnInv' /\ TickInv'
  BY DEF NoPanic, MutexInv, ReturnInv, TickInv
<1>5. CursorInv'
  BY DEF CursorInv, Passed
<1> QED
  BY <1>1, <1>2, <1>3, <1>4, <1>5

LEMMA CancelAtSlotStep == IInv /\ CancelAtSlot => IInv'
<1> SUFFICES ASSUME IInv, CancelAtSlot PROVE IInv'
  OBVIOUS
<1> USE DEF IInv, CancelAtSlot, shared
<1>1. TypeOK'
  BY DEF TypeOK, DispatcherPC
<1>2. Accounting'
  BY Untouched DEF Accounting
<1>3. ResultsExact' /\ AnswerInv'
  BY Untouched
<1>4. NoPanic' /\ MutexInv' /\ ReturnInv' /\ TickInv'
  BY DEF NoPanic, MutexInv, ReturnInv, TickInv
<1>5. CursorInv'
  BY DEF CursorInv, Passed
<1> QED
  BY <1>1, <1>2, <1>3, <1>4, <1>5

LEMMA TakeTickStep == IInv /\ TakeTick => IInv'
<1> SUFFICES ASSUME IInv, TakeTick PROVE IInv'
  OBVIOUS
<1> USE DEF IInv, TakeTick
<1>1. TypeOK'
  BY DEF TypeOK, DispatcherPC
<1>2. Accounting'
  BY Untouched DEF Accounting
<1>3. ResultsExact' /\ AnswerInv'
  BY Untouched
<1>4. NoPanic' /\ MutexInv' /\ ReturnInv' /\ TickInv'
  BY DEF NoPanic, MutexInv, ReturnInv, TickInv, TypeOK
<1>5. CursorInv'
  BY DEF CursorInv, Passed
<1> QED
  BY <1>1, <1>2, <1>3, <1>4, <1>5

LEMMA CancelAtTickStep == IInv /\ CancelAtTick => IInv'
<1> SUFFICES ASSUME IInv, CancelAtTick PROVE IInv'
  OBVIOUS
<1> USE DEF IInv, CancelAtTick
<1>1. sem = Cardinality(Holding) + 1 /\ sem' = Cardinality(Holding)
  BY HoldingFinite DEF Accounting
<1>2. TypeOK'
  <2>1. sem' \in 0 .. Workers
    BY <1>1, HoldingFinite, WorkersInRange, WorkersAssumption DEF TypeOK
  <2> QED
    BY <2>1 DEF TypeOK, DispatcherPC
<1>3. Accounting'
  BY <1>1, Untouched DEF Accounting
<1>4. ResultsExact' /\ AnswerInv'
  BY Untouched
<1>5. NoPanic' /\ MutexInv' /\ ReturnInv' /\ TickInv'
  BY DEF NoPanic, MutexInv, ReturnInv, TickInv
<1>6. CursorInv'
  BY DEF CursorInv, Passed
<1> QED
  BY <1>2, <1>3, <1>4, <1>5, <1>6

LEMMA AwaitAllStep == IInv /\ AwaitAll => IInv'
<1> SUFFICES ASSUME IInv, AwaitAll PROVE IInv'
  OBVIOUS
<1> USE DEF IInv, AwaitAll, shared
<1>1. TypeOK'
  BY DEF TypeOK, DispatcherPC
<1>2. Accounting'
  BY Untouched DEF Accounting
<1>3. ResultsExact' /\ AnswerInv'
  BY Untouched
<1>4. NoPanic' /\ MutexInv' /\ ReturnInv' /\ TickInv'
  BY DEF NoPanic, MutexInv, ReturnInv, TickInv
<1>5. CursorInv'
  BY DEF CursorInv, Passed
<1> QED
  BY <1>1, <1>2, <1>3, <1>4, <1>5

LEMMA DrainStep == IInv /\ DrainAndReturn => IInv'
<1> SUFFICES ASSUME IInv, DrainAndReturn PROVE IInv'
  OBVIOUS
<1> USE DEF IInv, DrainAndReturn, shared
<1>1. TypeOK'
  BY DEF TypeOK, DispatcherPC
<1>2. Accounting'
  BY Untouched DEF Accounting
<1>3. ResultsExact' /\ AnswerInv'
  BY Untouched
<1>4. NoPanic' /\ MutexInv' /\ ReturnInv' /\ TickInv'
  BY DEF NoPanic, MutexInv, ReturnInv, TickInv
<1>5. CursorInv'
  BY DEF CursorInv, Passed
<1> QED
  BY <1>1, <1>2, <1>3, <1>4, <1>5

LEMMA TickStep == IInv /\ Tick => IInv'
<1> SUFFICES ASSUME IInv, Tick PROVE IInv'
  OBVIOUS
<1> USE DEF IInv, Tick, dispatcher
<1>1. TypeOK'
  BY DEF TypeOK
<1>2. Accounting'
  BY Untouched DEF Accounting
<1>3. ResultsExact' /\ AnswerInv'
  BY Untouched
<1>4. NoPanic' /\ MutexInv' /\ ReturnInv' /\ TickInv'
  BY DEF NoPanic, MutexInv, ReturnInv, TickInv, TypeOK
<1>5. CursorInv'
  BY DEF CursorInv, Passed
<1> QED
  BY <1>1, <1>2, <1>3, <1>4, <1>5

LEMMA CancelStep == IInv /\ Cancel => IInv'
<1> SUFFICES ASSUME IInv, Cancel PROVE IInv'
  OBVIOUS
<1> USE DEF IInv, Cancel, dispatcher, shared
<1>1. TypeOK'
  BY DEF TypeOK
<1>2. Accounting'
  BY Untouched DEF Accounting
<1>3. ResultsExact' /\ AnswerInv'
  BY Untouched
<1>4. NoPanic' /\ MutexInv' /\ ReturnInv' /\ TickInv'
  BY DEF NoPanic, MutexInv, ReturnInv, TickInv
<1>5. CursorInv'
  BY DEF CursorInv, Passed
<1> QED
  BY <1>1, <1>2, <1>3, <1>4, <1>5

LEMMA StutterStep == IInv /\ UNCHANGED vars => IInv'
  BY DEF vars, IInv, TypeOK, Accounting, Holding, Live, ResultsExact, NoPanic,
         CursorInv, Passed, MutexInv, AnswerInv, ReturnInv, TickInv

\* The job the dispatcher is about to start has not been started.
LEMMA SpawnsFresh ==
  IInv /\ Spawn => Cur \in Job /\ g[Cur] = "none" /\ Cur[1] = t /\ Cur[2] = p
<1> SUFFICES ASSUME IInv, Spawn
             PROVE  Cur \in Job /\ g[Cur] = "none" /\ Cur[1] = t /\ Cur[2] = p
  OBVIOUS
<1> USE DEF IInv, Spawn
<1>1. t \in 1 .. NTargets /\ p \in 1 .. NPorts
  BY SizesAssumption DEF CursorInv, TypeOK
<1>2. Cur \in Job /\ Cur[1] = t /\ Cur[2] = p
  BY <1>1 DEF Cur, Job
<1>3. ~ Passed(Cur)
  BY <1>1, <1>2 DEF Passed
<1> QED
  BY <1>2, <1>3 DEF CursorInv

LEMMA SpawnStep == IInv /\ Spawn => IInv'
<1> SUFFICES ASSUME IInv, Spawn PROVE IInv'
  OBVIOUS
<1> USE DEF IInv, Spawn
<1>1. Cur \in Job /\ g[Cur] = "none" /\ Cur[1] = t /\ Cur[2] = p
  BY SpawnsFresh
<1>2. g' = [g EXCEPT ![Cur] = "dial"] /\ g \in [Job -> GoroutinePC]
  BY DEF TypeOK
<1>3. Holding' = Holding \cup {Cur} /\ Cur \notin Holding
  BY <1>1, <1>2 DEF Holding
<1>4. Live' = Live \cup {Cur} /\ Cur \notin Live
  BY <1>1, <1>2 DEF Live
<1>5. TypeOK'
  <2>1. g' \in [Job -> GoroutinePC]
    BY <1>1, <1>2 DEF GoroutinePC
  <2>2. t' \in 1 .. NTargets + 1 /\ p' \in Nat \ {0}
    BY SizesAssumption DEF TypeOK, CursorInv
  <2>3. pc' \in DispatcherPC /\ wg' \in Nat
    BY DEF TypeOK, DispatcherPC
  <2> QED
    BY <2>1, <2>2, <2>3 DEF TypeOK
<1>6. Accounting'
  BY <1>3, <1>4, HoldingFinite, CardinalityAdd DEF Accounting
<1>7. ResultsExact'
  <2>1. Cur \notin answered
    BY <1>1 DEF AnswerInv
  <2>2. {j \in answered : g[j] \in {"unlock", "exit", "signoff", "gone"}}
      = {j \in answered : g'[j] \in {"unlock", "exit", "signoff", "gone"}}
    BY <1>1, <1>2, <2>1 DEF TypeOK
  <2> QED
    BY <2>2 DEF ResultsExact
<1>8. AnswerInv' /\ MutexInv'
  BY <1>1, <1>2 DEF AnswerInv, MutexInv
<1>9. NoPanic' /\ ReturnInv' /\ TickInv'
  BY DEF NoPanic, ReturnInv, TickInv, TypeOK
<1>10. CursorInv'
  <2>1. \A j \in Job : g'[j] # "none" <=> Passed(j) \/ j = Cur
    BY <1>1, <1>2 DEF CursorInv
  <2>2. \A j \in Job : /\ j[1] \in 1 .. NTargets /\ j[2] \in 1 .. NPorts
                       /\ j = Cur <=> j[1] = t /\ j[2] = p
    BY DEF Job, Cur
  <2>3. /\ t \in 1 .. NTargets /\ p \in 1 .. NPorts
        /\ NTargets \in Nat /\ NPorts \in Nat
    BY SizesAssumption DEF CursorInv, TypeOK
  <2>4. CASE p < NPorts
    <3>1. t' = t /\ p' = p + 1 /\ pc' = "slot"
      BY <2>3, <2>4
    <3>2. \A j \in Job : Passed(j)' <=> Passed(j) \/ j = Cur
      BY <2>2, <2>3, <3>1 DEF Passed
    <3> QED
      BY <2>1, <2>3, <2>4, <3>1, <3>2 DEF CursorInv
  <2>5. CASE p = NPorts /\ t < NTargets
    <3>1. t' = t + 1 /\ p' = 1 /\ pc' = "slot"
      BY <2>3, <2>5
    <3>2. \A j \in Job : Passed(j)' <=> Passed(j) \/ j = Cur
      BY <2>2, <2>3, <2>5, <3>1 DEF Passed
    <3> QED
      BY <2>1, <2>3, <2>5, <3>1, <3>2 DEF CursorInv
  <2>6. CASE p = NPorts /\ t = NTargets
    <3>1. p' = 1 /\ pc' = "wait"
      BY <2>3, <2>6
    <3>2. \A j \in Job : Passed(j) \/ j = Cur
      BY <2>2, <2>3, <2>6 DEF Passed
    <3> QED
      BY <2>1, <2>3, <3>1, <3>2 DEF CursorInv
  <2> QED
    BY <2>3, <2>4, <2>5, <2>6
<1> QED
  BY <1>5, <1>6, <1>7, <1>8, <1>9, <1>10

\* Sorting permutes: same length, same members, no new repetition.
LEMMA SortingsPermute ==
  ASSUME NEW S, NEW s \in Seq(S), NEW r \in Sortings(s)
  PROVE  /\ r \in Seq(S) /\ Ordered(r)
         /\ {r[i] : i \in DOMAIN r} = {s[i] : i \in DOMAIN s}
         /\ (\A i, k \in DOMAIN s : s[i] = s[k] => i = k)
              => (\A i, k \in DOMAIN r : r[i] = r[k] => i = k)
<1>1. PICK f \in Bijection(DOMAIN s, DOMAIN s) : r = [i \in DOMAIN s |-> s[f[i]]]
  BY DEF Sortings
<1>2. /\ f \in [DOMAIN s -> DOMAIN s]
      /\ \A i, k \in DOMAIN s : f[i] = f[k] => i = k
      /\ \A k \in DOMAIN s : \E i \in DOMAIN s : f[i] = k
  BY DEF Bijection, Injection, Surjection, IsInjective
<1>3. DOMAIN s = 1 .. Len(s) /\ Len(s) \in Nat
      /\ \A i \in DOMAIN s : s[i] \in S
  OBVIOUS
<1>4. DOMAIN r = DOMAIN s
  BY <1>1
<1>5. \A i \in DOMAIN s : r[i] = s[f[i]]
  BY <1>1
<1>6. r \in Seq(S)
  <2>1. r \in [1 .. Len(s) -> S]
    BY <1>1, <1>2, <1>3
  <2> QED
    BY <2>1, <1>3
<1>7. Ordered(r)
  BY DEF Sortings
<1>8. {r[i] : i \in DOMAIN r} = {s[i] : i \in DOMAIN s}
  BY <1>2, <1>4, <1>5
<1>9. ASSUME \A i, k \in DOMAIN s : s[i] = s[k] => i = k
      PROVE  \A i, k \in DOMAIN r : r[i] = r[k] => i = k
  BY <1>9, <1>2, <1>4, <1>5
<1> QED
  BY <1>6, <1>7, <1>8, <1>9

LEMMA SortStep == IInv /\ SortAndReturn => IInv'
<1> SUFFICES ASSUME IInv, SortAndReturn PROVE IInv'
  OBVIOUS
<1> USE DEF IInv, SortAndReturn
<1>1. openPorts \in Seq(Job) /\ openPorts' \in Sortings(openPorts)
  BY DEF TypeOK
<1>r. PICK r \in Sortings(openPorts) : openPorts' = r
  BY <1>1
<1>s. /\ r \in Seq(Job) /\ Ordered(r)
      /\ {r[i] : i \in DOMAIN r} = {openPorts[i] : i \in DOMAIN openPorts}
      /\ (\A i, k \in DOMAIN openPorts : openPorts[i] = openPorts[k] => i = k)
           => (\A i, k \in DOMAIN r : r[i] = r[k] => i = k)
  BY <1>1, SortingsPermute
<1>2. /\ openPorts' \in Seq(Job) /\ Ordered(openPorts')
      /\ {openPorts'[i] : i \in DOMAIN openPorts'}
           = {openPorts[i] : i \in DOMAIN openPorts}
      /\ \A i, k \in DOMAIN openPorts' : openPorts'[i] = openPorts'[k] => i = k
  BY <1>r, <1>s DEF ResultsExact
<1>3. TypeOK'
  BY <1>2 DEF TypeOK, DispatcherPC
<1>4. Live = {} /\ \A j \in Job : g[j] = "gone"
  <2>1. Live = {}
    BY HoldingFinite, FS_EmptySet DEF Accounting, ReturnInv
  <2> QED
    BY <2>1 DEF Live, CursorInv
<1>5. Accounting'
  BY DEF Accounting, Holding, Live
<1>6. ResultsExact'
  BY <1>2 DEF ResultsExact
<1>7. MutexInv' /\ AnswerInv'
  BY <1>4 DEF MutexInv, AnswerInv
<1>8. NoPanic' /\ ReturnInv' /\ TickInv'
  BY <1>2, <1>4 DEF NoPanic, ReturnInv, TickInv, Ordered
<1>9. CursorInv'
  BY DEF CursorInv, Passed
<1> QED
  BY <1>3, <1>5, <1>6, <1>7, <1>8, <1>9
-----------------------------------------------------------------------------
(* One lemma per action of a goroutine. *)

LEMMA DialOpenStep == ASSUME NEW j \in Job, IInv, DialOpen(j) PROVE IInv'
<1> USE DEF IInv, DialOpen, dispatcher
<1>1. /\ g[j] = "dial" /\ g' = [g EXCEPT ![j] = "open"]
      /\ g \in [Job -> GoroutinePC] /\ answered' = answered \cup {j}
  BY DEF TypeOK
<1>2. g' \in [Job -> GoroutinePC]
  BY <1>1 DEF GoroutinePC
<1>3. TypeOK'
  BY <1>1, <1>2 DEF TypeOK
<1>4. Holding' = Holding /\ Live' = Live
  BY <1>1 DEF Holding, Live
<1>5. Accounting'
  BY <1>4 DEF Accounting
<1>6. ResultsExact'
  <2>1. {k \in answered : g[k] \in {"unlock", "exit", "signoff", "gone"}}
      = {k \in answered' : g'[k] \in {"unlock", "exit", "signoff", "gone"}}
    BY <1>1 DEF TypeOK
  <2> QED
    BY <2>1 DEF ResultsExact
<1>7. AnswerInv' /\ MutexInv'
  BY <1>1 DEF AnswerInv, MutexInv
<1>8. NoPanic' /\ ReturnInv' /\ TickInv' /\ CursorInv'
  BY <1>1 DEF NoPanic, ReturnInv, TickInv, CursorInv, Passed
<1> QED
  BY <1>3, <1>5, <1>6, <1>7, <1>8

LEMMA DialFailStep == ASSUME NEW j \in Job, IInv, DialFail(j) PROVE IInv'
<1> USE DEF IInv, DialFail, dispatcher
<1>1. /\ g[j] = "dial" /\ g' = [g EXCEPT ![j] = "exit"]
      /\ g \in [Job -> GoroutinePC] /\ answered' = answered
  BY DEF TypeOK
<1>2. g' \in [Job -> GoroutinePC]
  BY <1>1 DEF GoroutinePC
<1>3. TypeOK'
  BY <1>1, <1>2 DEF TypeOK
<1>4. Holding' = Holding /\ Live' = Live
  BY <1>1 DEF Holding, Live
<1>5. Accounting'
  BY <1>4 DEF Accounting
<1>6. ResultsExact'
  <2>1. j \notin answered
    BY <1>1 DEF AnswerInv
  <2>2. {k \in answered : g[k] \in {"unlock", "exit", "signoff", "gone"}}
      = {k \in answered' : g'[k] \in {"unlock", "exit", "signoff", "gone"}}
    BY <1>1, <2>1 DEF TypeOK
  <2> QED
    BY <2>2 DEF ResultsExact
<1>7. AnswerInv' /\ MutexInv'
  BY <1>1 DEF AnswerInv, MutexInv
<1>8. NoPanic' /\ ReturnInv' /\ TickInv' /\ CursorInv'
  BY <1>1 DEF NoPanic, ReturnInv, TickInv, CursorInv, Passed
<1> QED
  BY <1>3, <1>5, <1>6, <1>7, <1>8

LEMMA LockStep == ASSUME NEW j \in Job, IInv, Lock(j) PROVE IInv'
<1> USE DEF IInv, Lock, dispatcher
<1>1. /\ g[j] = "open" /\ g' = [g EXCEPT ![j] = "append"]
      /\ g \in [Job -> GoroutinePC] /\ answered' = answered
      /\ snap \in [Job -> Seq(Job)] /\ snap' = [snap EXCEPT ![j] = openPorts]
  BY DEF TypeOK
<1>2. g' \in [Job -> GoroutinePC] /\ snap' \in [Job -> Seq(Job)]
  BY <1>1 DEF GoroutinePC, TypeOK
<1>3. TypeOK'
  BY <1>1, <1>2 DEF TypeOK
<1>4. Holding' = Holding /\ Live' = Live
  BY <1>1 DEF Holding, Live
<1>5. Accounting'
  BY <1>4 DEF Accounting
<1>6. ResultsExact'
  <2>1. {k \in answered : g[k] \in {"unlock", "exit", "signoff", "gone"}}
      = {k \in answered' : g'[k] \in {"unlock", "exit", "signoff", "gone"}}
    BY <1>1 DEF TypeOK
  <2> QED
    BY <2>1 DEF ResultsExact
<1>7. AnswerInv'
  BY <1>1 DEF AnswerInv
<1>8. MutexInv'
  <2>1. \A k \in Job : g[k] \notin {"append", "unlock"}
    BY NoJobNotJob DEF MutexInv
  <2>2. \A k \in Job : g'[k] = IF k = j THEN "append" ELSE g[k]
    BY <1>1
  <2> QED
    BY <1>1, <2>1, <2>2 DEF MutexInv
<1>9. NoPanic' /\ ReturnInv' /\ TickInv' /\ CursorInv'
  BY <1>1 DEF NoPanic, ReturnInv, TickInv, CursorInv, Passed
<1> QED
  BY <1>3, <1>5, <1>6, <1>7, <1>8, <1>9

LEMMA AppendPortStep == ASSUME NEW j \in Job, IInv, AppendPort(j) PROVE IInv'
<1> USE DEF IInv, AppendPort, dispatcher
<1>1. /\ g[j] = "append" /\ g' = [g EXCEPT ![j] = "unlock"]
      /\ g \in [Job -> GoroutinePC] /\ answered' = answered
      /\ snap \in [Job -> Seq(Job)] /\ snap' = [snap EXCEPT ![j] = << >>]
      /\ openPorts \in Seq(Job)
  BY DEF TypeOK
<1>2. /\ mu = j /\ openPorts' = Append(openPorts, j)
      /\ \A k \in Job : g[k] = "append" => k = j
  BY <1>1 DEF MutexInv
<1>3. g' \in [Job -> GoroutinePC] /\ snap' \in [Job -> Seq(Job)]
  <2>1. << >> \in Seq(Job)
    OBVIOUS
  <2> QED
    BY <1>1, <2>1 DEF GoroutinePC
<1>4. TypeOK'
  <2>1. openPorts' \in Seq(Job)
    BY <1>1, <1>2
  <2> QED
    BY <1>1, <1>3, <2>1 DEF TypeOK
<1>5. Holding' = Holding /\ Live' = Live
  BY <1>1 DEF Holding, Live
<1>6. Accounting'
  BY <1>5 DEF Accounting
<1>7. ResultsExact'
  <2> DEFINE Done == {"unlock", "exit", "signoff", "gone"}
  <2>1. {k \in answered' : g'[k] \in Done}
      = {k \in answered : g[k] \in Done} \cup {j}
    BY <1>1 DEF TypeOK, AnswerInv
  <2>2. /\ DOMAIN openPorts = 1 .. Len(openPorts) /\ Len(openPorts) \in Nat
        /\ DOMAIN openPorts' = 1 .. Len(openPorts) + 1
        /\ openPorts'[Len(openPorts) + 1] = j
        /\ \A i \in DOMAIN openPorts : openPorts'[i] = openPorts[i]
    BY <1>1, <1>2
  <2>3. {openPorts'[i] : i \in DOMAIN openPorts'}
      = {openPorts[i] : i \in DOMAIN openPorts} \cup {j}
    BY <2>2
  <2>4. \A i \in DOMAIN openPorts : openPorts[i] # j
    <3>1. j \notin {k \in answered : g[k] \in Done}
      BY <1>1
    <3> QED
      BY <3>1 DEF ResultsExact
  <2>5. \A i, k \in DOMAIN openPorts' : openPorts'[i] = openPorts'[k] => i = k
    BY <2>2, <2>4 DEF ResultsExact
  <2> QED
    BY <2>1, <2>3, <2>5 DEF ResultsExact
<1>8. AnswerInv'
  BY <1>1 DEF AnswerInv
<1>9. MutexInv'
  BY <1>1, <1>2 DEF MutexInv
<1>10. NoPanic' /\ TickInv' /\ CursorInv'
  BY <1>1 DEF NoPanic, TickInv, CursorInv, Passed
<1>11. ReturnInv'
  <2>1. wg # 0
    <3>1. j \in Live
      BY <1>1 DEF Live
    <3> QED
      BY <3>1, HoldingFinite, CardinalityRemove DEF Accounting
  <2> QED
    BY <1>1, <2>1 DEF ReturnInv
<1> QED
  BY <1>4, <1>6, <1>7, <1>8, <1>9, <1>10, <1>11

LEMMA UnlockStep == ASSUME NEW j \in Job, IInv, Unlock(j) PROVE IInv'
<1> USE DEF IInv, Unlock, dispatcher
<1>1. /\ g[j] = "unlock" /\ g' = [g EXCEPT ![j] = "exit"]
      /\ g \in [Job -> GoroutinePC] /\ answered' = answered
  BY DEF TypeOK
<1>2. g' \in [Job -> GoroutinePC]
  BY <1>1 DEF GoroutinePC
<1>3. TypeOK'
  BY <1>1, <1>2 DEF TypeOK
<1>4. Holding' = Holding /\ Live' = Live
  BY <1>1 DEF Holding, Live
<1>5. Accounting'
  BY <1>4 DEF Accounting
<1>6. ResultsExact'
  <2>1. {k \in answered : g[k] \in {"unlock", "exit", "signoff", "gone"}}
      = {k \in answered' : g'[k] \in {"unlock", "exit", "signoff", "gone"}}
    BY <1>1 DEF TypeOK
  <2> QED
    BY <2>1 DEF ResultsExact
<1>7. AnswerInv'
  BY <1>1 DEF AnswerInv
<1>8. MutexInv'
  BY <1>1, NoJobNotJob DEF MutexInv
<1>9. NoPanic' /\ ReturnInv' /\ TickInv' /\ CursorInv'
  BY <1>1 DEF NoPanic, ReturnInv, TickInv, CursorInv, Passed
<1> QED
  BY <1>3, <1>5, <1>6, <1>7, <1>8, <1>9

LEMMA ReleaseSlotStep == ASSUME NEW j \in Job, IInv, ReleaseSlot(j) PROVE IInv'
<1> USE DEF IInv, ReleaseSlot, dispatcher
<1>1. /\ g[j] = "exit" /\ g' = [g EXCEPT ![j] = "signoff"]
      /\ g \in [Job -> GoroutinePC] /\ answered' = answered
  BY DEF TypeOK
<1>2. g' \in [Job -> GoroutinePC]
  BY <1>1 DEF GoroutinePC
<1>3. TypeOK'
  <2>1. sem' \in 0 .. Workers
    BY WorkersInRange, WorkersAssumption DEF TypeOK
  <2> QED
    BY <1>1, <1>2, <2>1 DEF TypeOK
<1>4. Holding' = Holding \ {j} /\ j \in Holding /\ Live' = Live
  BY <1>1 DEF Holding, Live
<1>5. Accounting'
  BY <1>4, HoldingFinite, CardinalityRemove DEF Accounting
<1>6. ResultsExact'
  <2>1. {k \in answered : g[k] \in {"unlock", "exit", "signoff", "gone"}}
      = {k \in answered' : g'[k] \in {"unlock", "exit", "signoff", "gone"}}
    BY <1>1 DEF TypeOK
  <2> QED
    BY <2>1 DEF ResultsExact
<1>7. AnswerInv' /\ MutexInv'
  BY <1>1 DEF AnswerInv, MutexInv
<1>8. NoPanic' /\ ReturnInv' /\ TickInv' /\ CursorInv'
  BY <1>1 DEF NoPanic, ReturnInv, TickInv, CursorInv, Passed
<1> QED
  BY <1>3, <1>5, <1>6, <1>7, <1>8

LEMMA SignOffStep == ASSUME NEW j \in Job, IInv, SignOff(j) PROVE IInv'
<1> USE DEF IInv, SignOff, dispatcher
<1>1. /\ g[j] = "signoff" /\ g' = [g EXCEPT ![j] = "gone"]
      /\ g \in [Job -> GoroutinePC] /\ answered' = answered
  BY DEF TypeOK
<1>2. g' \in [Job -> GoroutinePC]
  BY <1>1 DEF GoroutinePC
<1>3. Holding' = Holding /\ Live' = Live \ {j} /\ j \in Live
  BY <1>1 DEF Holding, Live
<1>4. wg \in Nat \ {0} /\ wg' = Cardinality(Live')
  BY <1>3, HoldingFinite, CardinalityRemove DEF Accounting
<1>5. TypeOK'
  BY <1>1, <1>2, <1>4 DEF TypeOK
<1>6. Accounting'
  BY <1>3, <1>4 DEF Accounting
<1>7. ResultsExact'
  <2>1. {k \in answered : g[k] \in {"unlock", "exit", "signoff", "gone"}}
      = {k \in answered' : g'[k] \in {"unlock", "exit", "signoff", "gone"}}
    BY <1>1 DEF TypeOK
  <2> QED
    BY <2>1 DEF ResultsExact
<1>8. AnswerInv' /\ MutexInv'
  BY <1>1 DEF AnswerInv, MutexInv
<1>9. NoPanic' /\ ReturnInv' /\ TickInv' /\ CursorInv'
  BY <1>1, <1>4 DEF NoPanic, ReturnInv, TickInv, CursorInv, Passed
<1> QED
  BY <1>5, <1>6, <1>7, <1>8, <1>9
-----------------------------------------------------------------------------
(* The theorems. *)

\* Every step, of whichever goroutine, keeps the inductive invariant.
LEMMA Inductive == IInv /\ [Next]_vars => IInv'
<1> SUFFICES ASSUME IInv, [Next]_vars PROVE IInv'
  OBVIOUS
<1>1. CASE Dispatcher
  BY <1>1, BeginStep, AcquireSlotStep, CancelAtSlotStep, TakeTickStep,
     CancelAtTickStep, SpawnStep, AwaitAllStep, SortStep, DrainStep
  DEF Dispatcher
<1>2. ASSUME NEW j \in Job, Goroutine(j) PROVE IInv'
  BY <1>2, DialOpenStep, DialFailStep, LockStep, AppendPortStep, UnlockStep,
     ReleaseSlotStep, SignOffStep
  DEF Goroutine
<1>3. CASE Tick
  BY <1>3, TickStep
<1>4. CASE Cancel
  BY <1>4, CancelStep
<1>5. CASE Returned \/ UNCHANGED vars
  BY <1>5, StutterStep DEF Returned
<1> QED
  BY <1>1, <1>2, <1>3, <1>4, <1>5 DEF Next

\* The inductive invariant holds throughout every scan (scanner.go:245-328).
THEOREM Invariance == Spec => []IInv
  BY InitIInv, Inductive, PTL DEF Spec

\* ScanPorts keeps the types of its state: the semaphore within its capacity,
\* the wait group never negative, the ticker's channel within 1.
THEOREM TypeCorrect == Spec => []TypeOK
<1>1. IInv => TypeOK
  BY DEF IInv
<1> QED
  BY <1>1, Invariance, PTL

\* Slots and wait-group counts are exact on every path, aborts included.
THEOREM AccountingCorrect == Spec => []Accounting
<1>1. IInv => Accounting
  BY DEF IInv
<1> QED
  BY <1>1, Invariance, PTL

\* Sockets being dialed never exceed the clamped --concurrency.
THEOREM ConcurrencyBounded == Spec => []ConcurrencyBound
<1>1. IInv => ConcurrencyBound
  <2> SUFFICES ASSUME IInv PROVE ConcurrencyBound
    OBVIOUS
  <2> DEFINE D == {j \in Job : g[j] = "dial"}
  <2>1. D \in SUBSET Holding
    BY DEF Holding
  <2>2. Cardinality(D) <= Cardinality(Holding) /\ Cardinality(D) \in Nat
    BY <2>1, HoldingFinite, FS_Subset, FS_CardinalityType
  <2>3. Cardinality(Holding) <= Workers
    BY HoldingFinite, WorkersInRange, WorkersAssumption
    DEF IInv, Accounting, TypeOK
  <2> QED
    BY <2>2, <2>3, HoldingFinite, WorkersInRange, WorkersAssumption
    DEF ConcurrencyBound
<1> QED
  BY <1>1, Invariance, PTL

\* Whatever the flags, the dispatcher never releases more than two probes in
\* excess of the shared ticker's firings, in any stretch of the scan.
THEOREM RateIsBounded == Spec => []RateBound
<1>1. IInv => RateBound
  BY DEF IInv, TickInv, RateBound, TypeOK
<1> QED
  BY <1>1, Invariance, PTL

\* No interleaving of appends loses or repeats an answer.
THEOREM ResultsAreExact == Spec => []ResultsExact
<1>1. IInv => ResultsExact
  BY DEF IInv
<1> QED
  BY <1>1, Invariance, PTL

\* No flag value makes time.NewTicker panic.
THEOREM NeverPanics == Spec => []NoPanic
<1>1. IInv => NoPanic
  BY DEF IInv
<1> QED
  BY <1>1, Invariance, PTL

\* When the call has returned, every goroutine it started is gone.
LEMMA ReturnedIsQuiet == IInv => QuietReturn
<1> SUFFICES ASSUME IInv, pc = "returned" PROVE QuietReturn
  BY DEF QuietReturn
<1>1. Live = {}
  BY HoldingFinite, FS_EmptySet DEF IInv, Accounting, ReturnInv
<1>2. \A j \in Job : g[j] \in {"none", "gone"}
  BY <1>1 DEF Live
<1>3. Holding = {}
  BY <1>2 DEF Holding
<1>4. sem = 0
  BY <1>3, FS_EmptySet DEF IInv, Accounting
<1>5. mu = NoJob
  BY <1>2 DEF IInv, MutexInv, TypeOK
<1> QED
  BY <1>2, <1>4, <1>5 DEF QuietReturn

\* On return by either path nothing of the call is left running that could
\* write the slice the caller reads.
THEOREM ReturnIsQuiet == Spec => []QuietReturn
  BY ReturnedIsQuiet, Invariance, PTL
-----------------------------------------------------------------------------
(* ScanPorts implements PortScanAbs. *)

DialedSet == {j \in Job : g[j] \notin {"none", "dial"}}

\* Less orders any two different jobs one way or the other.
LEMMA LessTotal ==
  ASSUME NEW a \in Job, NEW b \in Job, a # b, ~ Less(b, a)
  PROVE  Less(a, b)
<1>1. /\ a[1] \in 1 .. NTargets /\ b[1] \in 1 .. NTargets
      /\ a[2] \in Nat /\ b[2] \in Nat
      /\ a[1] = b[1] => a[2] # b[2]
  BY SizesAssumption DEF Job
<1>2. /\ IpRank(a[1]) \in Nat /\ IpRank(b[1]) \in Nat
      /\ a[1] # b[1] => IpRank(a[1]) # IpRank(b[1])
  BY <1>1, RankAssumption
<1> QED
  BY <1>1, <1>2 DEF Less

\* What is returned lists the answers; after a full scan, in order.
ReturnedResult ==
  pc = "returned" => /\ Abs!Lists(openPorts, answered)
                     /\ ret = "ok" => DialedSet = Job /\ Abs!Ordered(openPorts)

LEMMA ReturnedLists == IInv => ReturnedResult
<1> SUFFICES ASSUME IInv, pc = "returned"
             PROVE  /\ Abs!Lists(openPorts, answered)
                    /\ ret = "ok" => DialedSet = Job /\ Abs!Ordered(openPorts)
  BY DEF ReturnedResult
<1>1. \A j \in Job : g[j] \in {"none", "gone"}
  BY ReturnedIsQuiet DEF QuietReturn
<1>2. answered = {j \in answered : g[j] \in {"unlock", "exit", "signoff", "gone"}}
  BY <1>1 DEF IInv, AnswerInv, TypeOK
<1>3. Abs!Lists(openPorts, answered)
  BY <1>2 DEF IInv, ResultsExact, Abs!Lists
<1>4. ASSUME ret = "ok" PROVE DialedSet = Job
  BY <1>1, <1>4 DEF IInv, ReturnInv, DialedSet
<1>5. ASSUME ret = "ok" PROVE Abs!Ordered(openPorts)
  <2>1. Ordered(openPorts)
    BY <1>5 DEF IInv, ReturnInv
  <2>2. ASSUME NEW i \in DOMAIN openPorts, NEW k \in DOMAIN openPorts, i < k
        PROVE  Less(openPorts[i], openPorts[k])
    <3>1. openPorts[i] \in Job /\ openPorts[k] \in Job
      BY DEF IInv, TypeOK
    <3>2. openPorts[i] # openPorts[k]
      <4>1. DOMAIN openPorts = 1 .. Len(openPorts) /\ Len(openPorts) \in Nat
        BY DEF IInv, TypeOK
      <4>2. i # k
        BY <2>2, <4>1
      <4> QED
        BY <4>2 DEF IInv, ResultsExact
    <3>3. ~ Less(openPorts[k], openPorts[i])
      BY <2>1, <2>2 DEF Ordered
    <3> QED
      BY <3>1, <3>2, <3>3, LessTotal
  <2> QED
    BY <2>2 DEF Abs!Ordered
<1> QED
  BY <1>3, <1>4, <1>5

\* ScanPorts implements its promise: each endpoint is dialed at most once, and
\* the one value returned lists exactly the answers (scanner.go:245-328).
THEOREM RefinementCorrect == Spec => Refinement
<1>1. Init => Abs!AbsInit
  BY DEF Init, Abs!AbsInit
<1>2. (IInv => ReturnedResult)'
  BY ReturnedLists, PTL
<1>3. IInv /\ IInv' /\ [Next]_vars => [Abs!AbsNext]_(Abs!absVars)
  <2> SUFFICES ASSUME IInv, IInv', [Next]_vars
               PROVE  [Abs!AbsNext]_(Abs!absVars)
    OBVIOUS
  <2> USE DEF Abs!absVars
  <2>1. pc # "returned" => ret = "none"
    BY DEF IInv, ReturnInv
  <2>2. ASSUME pc # "returned", pc' = "returned", UNCHANGED <<g, answered>>,
               ret' \in {"ok", "cancelled"}
        PROVE  Abs!AbsReturn \/ Abs!AbsCancel
    <3>1. Abs!Lists(openPorts', answered)
      BY <1>2, <2>2 DEF ReturnedResult, Abs!Lists
    <3>2. ret' = "ok" => /\ {j \in Job : g[j] \notin {"none", "dial"}} = Job
                         /\ Abs!Ordered(openPorts')
      BY <1>2, <2>2 DEF ReturnedResult, DialedSet, Abs!Ordered
    <3> QED
      BY <2>2, <3>1, <3>2 DEF Abs!AbsReturn, Abs!AbsCancel
  <2>3. ASSUME NEW j \in Job, g[j] = "dial", g' = [g EXCEPT ![j] = "open"] \/
                                              g' = [g EXCEPT ![j] = "exit"],
               answered' \in {answered, answered \cup {j}},
               UNCHANGED <<pc, ret, openPorts>>
        PROVE  Abs!AbsDial(j)
    <3>1. pc # "returned"
      BY <2>3, ReturnedIsQuiet DEF QuietReturn
    <3>2. {k \in Job : g'[k] \notin {"none", "dial"}}
        = {k \in Job : g[k] \notin {"none", "dial"}} \cup {j}
      BY <2>3 DEF IInv, TypeOK
    <3> QED
      BY <2>3, <3>1, <3>2 DEF Abs!AbsDial
  <2>4. ASSUME \A j \in Job : g'[j] \in {"none", "dial"} <=> g[j] \in {"none", "dial"},
               UNCHANGED <<ret, answered>>, 
               pc' = "returned" <=> pc = "returned",
               pc = "returned" => UNCHANGED openPorts
        PROVE  UNCHANGED Abs!absVars
    BY <2>4
  <2>5. CASE Begin
    <3>1. CASE pc' = "returned"
      <4>1. ret' = "ok"
        BY <2>5, <3>1, IntervalPositive DEF Begin
      <4> QED
        BY <2>2, <2>5, <3>1, <4>1 DEF Begin, shared, Abs!AbsNext
    <3>2. CASE pc' # "returned"
      BY <2>4, <2>5, <3>2, IntervalPositive DEF Begin, shared
    <3> QED
      BY <3>1, <3>2
  <2>6. CASE AcquireSlot \/ CancelAtSlot \/ TakeTick \/ CancelAtTick \/ AwaitAll
    BY <2>4, <2>6
    DEF AcquireSlot, CancelAtSlot, TakeTick, CancelAtTick, AwaitAll, shared
  <2>7. CASE Spawn
    <3>1. g \in [Job -> GoroutinePC] /\ g' = [g EXCEPT ![Cur] = "dial"]
      BY <2>7 DEF Spawn, IInv, TypeOK
    <3>2. \A j \in Job : g'[j] \in {"none", "dial"} <=> g[j] \in {"none", "dial"}
      BY <2>7, <3>1, SpawnsFresh
    <3>3. UNCHANGED <<ret, answered>> /\ pc # "returned" /\ pc' # "returned"
      BY <2>7 DEF Spawn
    <3> QED
      BY <2>4, <3>2, <3>3
  <2>8. CASE SortAndReturn \/ DrainAndReturn
    BY <2>2, <2>8 DEF SortAndReturn, DrainAndReturn, shared, Abs!AbsNext
  <2>9. ASSUME NEW j \in Job, DialOpen(j) \/ DialFail(j)
        PROVE  Abs!AbsNext
    BY <2>3, <2>9 DEF DialOpen, DialFail, dispatcher, Abs!AbsNext
  <2>10. ASSUME NEW j \in Job, Lock(j) \/ AppendPort(j) \/ Unlock(j)
                                \/ ReleaseSlot(j) \/ SignOff(j)
         PROVE  UNCHANGED Abs!absVars
    <3>1. pc # "returned"
      BY <2>10, ReturnedIsQuiet
      DEF QuietReturn, Lock, AppendPort, Unlock, ReleaseSlot, SignOff
    <3>2. g \in [Job -> GoroutinePC]
      BY DEF IInv, TypeOK
    <3>3. /\ UNCHANGED <<pc, ret, answered>>
          /\ g[j] \notin {"none", "dial"} /\ g'[j] \notin {"none", "dial"}
          /\ \A k \in Job \ {j} : g'[k] = g[k]
      BY <2>10, <3>2
      DEF Lock, AppendPort, Unlock, ReleaseSlot, SignOff, dispatcher
    <3> QED
      BY <2>4, <3>1, <3>3
  <2>11. CASE Tick \/ Cancel \/ Returned \/ UNCHANGED vars
    BY <2>4, <2>11 DEF Tick, Cancel, Returned, vars, dispatcher, shared
  <2> QED
    BY <2>5, <2>6, <2>7, <2>8, <2>9, <2>10, <2>11
    DEF Next, Dispatcher, Goroutine
<1> QED
  BY <1>1, <1>3, Invariance, PTL DEF Spec, Refinement, Abs!AbsSpec
=============================================================================
