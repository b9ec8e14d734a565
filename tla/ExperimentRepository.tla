------------------------ MODULE ExperimentRepository ------------------------
(***************************************************************************)
(* internal/storage/postgres.go: what one statement of the repository does *)
(* to a row, and what one query reads.  A statement is atomic; the columns *)
(* that nothing branches on (target, configuration, metrics, created_at)   *)
(* are left out.                                                           *)
(***************************************************************************)
EXTENDS ExperimentState, Integers, Sequences, FiniteSetsExt

\* NULL, in a column of times and of reasons, and the row of an id that was never
\* inserted.
Never == 0
NoReason == ""
NoRow == [ status |-> "none", stopReason |-> NoReason, startedAt |-> Never, endedAt |-> Never ]

Create == [ NoRow EXCEPT !.status = "CREATED" ]

\* Mutant of UpdateState: the reason of the last update, given or not.
UpdateStateBlank(row, target, reason, at) ==
  [ row EXCEPT !.status = target, !.stopReason = reason,
               !.startedAt = IF target = "RUNNING" /\ @ = Never THEN at ELSE @,
               !.endedAt = IF IsTerminal(target) /\ @ = Never THEN at ELSE @ ]

UpdateState(row, target, reason, at) ==
  [ row EXCEPT !.status = target,
               !.stopReason = IF reason = NoReason THEN @ ELSE reason,
               !.startedAt = IF target = "RUNNING" /\ @ = Never THEN at ELSE @,
               !.endedAt = IF IsTerminal(target) /\ @ = Never THEN at ELSE @ ]

(***************************************************************************)
(* Observations: the timestamps of an experiment's rows in the order of    *)
(* their ids, which is the order they were inserted in.                    *)
(***************************************************************************)
SaveObservation(table, timestamp) == Append(table, timestamp)

\* Mutant of Latest: no ORDER BY, the rows come as they were inserted.
LatestInserted(table) == IF table = << >> THEN Never ELSE table[Len(table)]

\* The last row of GetObservations, which sorts the rows by their timestamps;
\* Never if there is none.
Latest(table) == IF table = << >> THEN Never ELSE Max(Range(table))
=============================================================================
