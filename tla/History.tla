------------------------------ MODULE History ------------------------------
(***************************************************************************)
(* What the database of mcpscan promises (src/internal/storage/sqlite.go,  *)
(* the integrity levels of src/README.md:149-154): a history of scans that *)
(* only grows, one whole scan at a time, in which every verdict is the     *)
(* truth about the scans before it.  Store implements it with rows, locks  *)
(* and transactions; Pipeline stores its scans in it.                      *)
(***************************************************************************)
EXTENDS Integers, Sequences

CONSTANTS Endpoint,
          Seen,    \* what a scan may have seen: functions of Endpoint to
                   \* Absent or a record with at least [name, hash]
          Absent, Empty

VARIABLE log       \* records [seen, status], both functions of Endpoint

Alarm == {"modified", "replaced"}

\* The scans of history h that saw tool definitions at e.
Observed(h, e) ==
  {n \in DOMAIN h : h[n].seen[e] # Absent /\ h[n].seen[e].hash # Empty}

\* The verdict on row, seen at e after the scans of h.
Verdict(h, e, row) ==
  LET past == Observed(h, e)
      last == CHOOSE n \in past : \A m \in past : m <= n
      prev == h[last].seen[e]
  IN IF row.hash = Empty THEN "not evaluated"
     ELSE IF past = {} THEN "new"
     ELSE IF Empty \notin {prev.name, row.name} /\ prev.name # row.name
     THEN "replaced"
     ELSE IF prev.hash = row.hash THEN "unchanged" ELSE "modified"

Verdicts(h, seen) ==
  [e \in Endpoint |-> IF seen[e] = Absent THEN Absent ELSE Verdict(h, e, seen[e])]

HistInit == log = << >>

Record(seen) == log' = Append(log, [seen |-> seen, status |-> Verdicts(log, seen)])

HistNext == \E seen \in Seen : Record(seen)

HistSpec == HistInit /\ [][HistNext]_log
=============================================================================
