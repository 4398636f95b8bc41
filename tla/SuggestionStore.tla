--------------------------- MODULE SuggestionStore ---------------------------
(***************************************************************************)
(* The files under .ai-cockpit/suggestions and the memory file they are    *)
(* for.  Runs that finish write one suggestion each (generate_and_write),  *)
(* and operators accept them (accept_suggestion), every one in a process   *)
(* of its own and with no lock: the steps of the processes interleave      *)
(* between any two file operations, and a kill may come at any of them.    *)
(*                                                                         *)
(* A suggestion is named by the run it came from; its text, target and     *)
(* rationale are abstracted, as are the blank lines put before it.  Its id *)
(* is the second the run ended, its decision and a slug of its idea, so    *)
(* two runs may well have the same one.                                    *)
(***************************************************************************)
EXTENDS Naturals, Sequences, SequencesExt

CONSTANTS
  Runs,        \* finished runs that may offer a suggestion
  Ids,         \* suggestion ids
  Clerks,      \* `memory accept` processes
  Notes,       \* what the operator wrote into the memory file
  Absent,      \* no such file, no id
  Torn,        \* a file a kill left half written
  SameSecond,  \* whether two runs can end with the same id
  MaxCrashes   \* bound: kills per behaviour

ASSUME StoreConstants ==
  /\ Notes \notin Runs
  /\ Absent \notin Runs \union Ids /\ Torn \notin Runs /\ Absent # Torn
  /\ SameSecond \in BOOLEAN
  /\ MaxCrashes \in Nat

VARIABLES
  pending,  \* suggestions/<id>.json
  archive,  \* suggestions/applied/<id>.json
  memory,   \* the entries of the memory file, oldest first
  run,      \* where each run is on its way to write its suggestion
  clerk,    \* where each `memory accept` is, and what it holds
  crashes   \* kills so far

vars == <<pending, archive, memory, run, clerk, crashes>>

RunStates == [at : {"running", "writing", "reported", "silent"}, id : Ids \union {Absent}]

ClerkStates ==
  [at : {"idle", "loaded", "read", "truncated", "filled"}, id : Ids \union {Absent},
   entry : Runs \union {Absent}, text : Seq(Runs \union {Notes})]

IdleClerk == [at |-> "idle", id |-> Absent, entry |-> Absent, text |-> <<>>]
----------------------------------------------------------------------------
(* run --suggest. *)

(* Nothing worth remembering: no idea, no spec, or a human was asked about *)
(* an empty diff.                                                          *)
SkipSuggestion(r) ==
  /\ run[r].at = "running"
  /\ run' = [run EXCEPT ![r].at = "silent"]
  /\ UNCHANGED <<pending, archive, memory, clerk, crashes>>

(* The check for an earlier file of that id: the run warns and writes      *)
(* nothing, or goes on to write.                                           *)
CheckId(r) ==
  \E id \in Ids :
    /\ run[r].at = "running"
    /\ SameSecond \/ \A s \in Runs : run[s].id # id
    /\ run' = [run EXCEPT ![r] =
                 [at |-> IF pending[id] = Absent THEN "writing" ELSE "silent", id |-> id]]
    /\ UNCHANGED <<pending, archive, memory, clerk, crashes>>

(* The file appears with its whole text: a reader in the middle of the     *)
(* write finds what CrashRun leaves and is refused as on a missing file.   *)
WriteSuggestion(r) ==
  /\ run[r].at = "writing"
  /\ pending' = [pending EXCEPT ![run[r].id] = r]
  /\ run' = [run EXCEPT ![r].at = "reported"]
  /\ UNCHANGED <<archive, memory, clerk, crashes>>
----------------------------------------------------------------------------
(* memory accept ID. *)

(* Fault: no look at whether the file is there.                            *)
LoadUnchecked(c) ==
  \E id \in Ids :
    /\ clerk[c].at = "idle"
    /\ clerk' = [clerk EXCEPT ![c] =
                   [IdleClerk EXCEPT !.at = "loaded", !.id = id, !.entry = pending[id]]]
    /\ UNCHANGED <<pending, archive, memory, run, crashes>>

(* A missing or half-written file ends the command without a change.       *)
LoadSuggestion(c) ==
  \E id \in Ids :
    /\ clerk[c].at = "idle"
    /\ pending[id] \in Runs
    /\ clerk' = [clerk EXCEPT ![c] =
                   [IdleClerk EXCEPT !.at = "loaded", !.id = id, !.entry = pending[id]]]
    /\ UNCHANGED <<pending, archive, memory, run, crashes>>

ReadMemory(c) ==
  /\ clerk[c].at = "loaded"
  /\ clerk' = [clerk EXCEPT ![c].at = "read", ![c].text = memory]
  /\ UNCHANGED <<pending, archive, memory, run, crashes>>

(* write_text opens the file, which empties it, and then writes.           *)
TruncateMemory(c) ==
  /\ clerk[c].at = "read"
  /\ memory' = <<>>
  /\ clerk' = [clerk EXCEPT ![c].at = "truncated"]
  /\ UNCHANGED <<pending, archive, run, crashes>>

(* Fault: the new text is the suggestion alone, not what was read and it.  *)
NewTextOnly(text, entry) == <<entry>>

(* Fault: the suggestion goes to the top of the file.                      *)
NewTextFirst(text, entry) == <<entry>> \o text

NewText(text, entry) == Append(text, entry)

(* Of two clerks that have both truncated, the later write covers the      *)
(* earlier; the tail that a longer earlier text leaves is left out.        *)
FillMemory(c) ==
  /\ clerk[c].at = "truncated"
  /\ memory' = NewText(clerk[c].text, clerk[c].entry)
  /\ clerk' = [clerk EXCEPT ![c].at = "filled"]
  /\ UNCHANGED <<pending, archive, run, crashes>>

(* Fault: the suggestion is deleted instead of moved.                      *)
Discard(c) ==
  /\ clerk[c].at = "filled"
  /\ pending' = [pending EXCEPT ![clerk[c].id] = Absent]
  /\ clerk' = [clerk EXCEPT ![c] = IdleClerk]
  /\ UNCHANGED <<archive, memory, run, crashes>>

(* The rename: whatever has that name now replaces what the archive had,   *)
(* and where another accept was first it raises.                           *)
Archive(c) ==
  /\ clerk[c].at = "filled"
  /\ LET id == clerk[c].id IN
     IF pending[id] = Absent THEN UNCHANGED <<pending, archive>>
     ELSE /\ archive' = [archive EXCEPT ![id] = pending[id]]
          /\ pending' = [pending EXCEPT ![id] = Absent]
  /\ clerk' = [clerk EXCEPT ![c] = IdleClerk]
  /\ UNCHANGED <<memory, run, crashes>>
----------------------------------------------------------------------------
(* Kills. *)

(* A run that is killed writing its suggestion leaves none, or part of it. *)
CrashRun(r) ==
  /\ crashes < MaxCrashes
  /\ run[r].at = "writing"
  /\ \/ UNCHANGED pending
     \/ pending' = [pending EXCEPT ![run[r].id] = Torn]
  /\ run' = [run EXCEPT ![r].at = "silent"]
  /\ crashes' = crashes + 1
  /\ UNCHANGED <<archive, memory, clerk>>

CrashClerk(c) ==
  /\ crashes < MaxCrashes
  /\ clerk[c].at # "idle"
  /\ clerk' = [clerk EXCEPT ![c] = IdleClerk]
  /\ crashes' = crashes + 1
  /\ UNCHANGED <<pending, archive, memory, run>>
----------------------------------------------------------------------------
Init ==
  /\ pending = [id \in Ids |-> Absent]
  /\ archive = [id \in Ids |-> Absent]
  /\ memory \in {<<>>, <<Notes>>}
  /\ run = [r \in Runs |-> [at |-> "running", id |-> Absent]]
  /\ clerk = [c \in Clerks |-> IdleClerk]
  /\ crashes = 0

Next ==
  \/ \E r \in Runs :
       SkipSuggestion(r) \/ CheckId(r) \/ WriteSuggestion(r) \/ CrashRun(r)
  \/ \E c \in Clerks :
       \/ LoadSuggestion(c) \/ ReadMemory(c) \/ TruncateMemory(c)
       \/ FillMemory(c) \/ Archive(c) \/ CrashClerk(c)

Spec == Init /\ [][Next]_vars
----------------------------------------------------------------------------
(* Properties. *)

(* Files hold suggestions, a clerk beyond the first step holds one.        *)
TypeOK ==
  /\ pending \in [Ids -> Runs \union {Absent, Torn}]
  /\ archive \in [Ids -> Runs \union {Absent, Torn}]
  /\ memory \in Seq(Runs \union {Notes})
  /\ run \in [Runs -> RunStates]
  /\ clerk \in [Clerks -> ClerkStates]
  /\ crashes \in Nat
  /\ \A r \in Runs : run[r].at \in {"writing", "reported"} => run[r].id \in Ids
  /\ \A c \in Clerks : clerk[c].at # "idle" => clerk[c].id \in Ids /\ clerk[c].entry \in Runs

(* A suggestion a run reported as written stays on disk, pending or        *)
(* archived, through every kill and however accepts interleave: only a run *)
(* that ended with the same id, within the same second, can replace it.    *)
SuggestionsSurvive ==
  \A r \in Runs : run[r].at = "reported" =>
    \/ \E id \in Ids : r \in {pending[id], archive[id]}
    \/ \E s \in Runs \ {r} : run[s].id = run[r].id

(* With nobody halfway, every suggestion in the archive is in the memory   *)
(* file: accept appends the text to its target and archives the JSON.      *)
ArchivedIsRecorded ==
  (\A c \in Clerks : clerk[c].at = "idle") =>
    \A id \in Ids : archive[id] # Absent => archive[id] \in ToSet(memory)

(* What AcceptedLog sees while a clerk rewrites the file: the old text.    *)
Rewriting == {c \in Clerks : clerk[c].at = "truncated"}

LogOf ==
  IF Rewriting = {} THEN memory ELSE clerk[CHOOSE c \in Rewriting : TRUE].text
=============================================================================
