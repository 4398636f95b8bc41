----------------------------- MODULE AcceptedLog -----------------------------
(***************************************************************************)
(* What `memory accept` promises of the memory file: a log to which a      *)
(* suggestion that a finished run offered is appended, once, and in which  *)
(* nothing else ever changes.  The promise ends with the first crash.      *)
(***************************************************************************)
EXTENDS Sequences, SequencesExt

CONSTANT Runs

VARIABLES
  log,      \* the memory file's entries
  offered,  \* the runs whose suggestion was written
  intact    \* no process was killed yet

logVars == <<log, offered, intact>>

LogInit ==
  /\ ToSet(log) \intersect Runs = {}
  /\ offered = {}
  /\ intact = TRUE

Offer ==
  \E r \in Runs \ offered : offered' = offered \union {r} /\ UNCHANGED <<log, intact>>

AppendEntry ==
  \E r \in offered \ ToSet(log) : log' = Append(log, r) /\ UNCHANGED <<offered, intact>>

Break == intact' = FALSE

LogNext == (intact = TRUE /\ (Offer \/ AppendEntry)) \/ Break

LogSpec == LogInit /\ [][LogNext]_logVars
=============================================================================
