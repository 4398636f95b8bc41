------------------------------ MODULE PlanRuns ------------------------------
(***************************************************************************)
(* The life of plan artifacts: drafted in the interactive planner, saved   *)
(* under docs/plans, run slice by slice with `plans run`, and committed by *)
(* the operator with the marker that later dependency checks look for in   *)
(* git log.  Planner sessions and runs are separate processes, and the     *)
(* operator may edit plans, commit and revert while any of them is going.  *)
(* A session saves through a temporary file that it shares with every      *)
(* other session saving a plan of that name.                               *)
(*                                                                         *)
(* The project root is in a git work tree, where git may fail all the same *)
(* when it is asked.  What a run does inside the graph is CockpitRun's;    *)
(* here its worker may leave edits in the tree, or none, and may outlive   *)
(* the run.  Paths of the runtime allow-list are nobody's work.            *)
(***************************************************************************)
EXTENDS PlanSchema, FiniteSets

CONSTANTS
  Texts,        \* contents the planner's model, or the operator, writes
  FixtureSlice, \* "slice-1", of the draft made without a model
  Models,       \* FALSE in it: a session may have no model and use the fixture
  Caps,         \* values of --max-slices, NoCap among them
  OwnNames,     \* plans are saved under the default path only
  Absent,       \* no draft, no file
  Torn,         \* an empty file, or the pieces of two texts in one
  Planners,     \* `plan` sessions
  Runners,      \* `plans run` processes
  MaxCommits,   \* bound: commits in git log, reverts among them
  MaxOrphans    \* bound: workers at work at once without a run

ASSUME RunsConstants ==
  /\ Texts \subseteq PlanTexts
  /\ FixtureSlice \in SliceIds
  /\ Models \subseteq BOOLEAN
  /\ NoCap \in Caps /\ Caps \subseteq (Nat \ {0}) \union {NoCap}
  /\ OwnNames \in BOOLEAN
  /\ Absent \notin PlanTexts \union PlanIds /\ Torn \notin PlanTexts /\ Absent # Torn
  /\ {MaxCommits, MaxOrphans} \subseteq Nat

VARIABLES
  repl,     \* per planner session: where it is, its draft and its cap
  file,     \* docs/plans/<name>.plan.yaml, for every name
  temp,     \* docs/plans/.<name>.plan.yaml.tmp, for every name
  unsaved,  \* git status lists a change under docs/plans
  run,      \* per `plans run` process: what it runs, and with which flags
  orphans,  \* slices whose workers outlived their runs
  edits,    \* slices whose work is in the tree, uncommitted
  log,      \* the commits of git log, oldest first
  excused,  \* history: since the last commit the precheck was waived, or git
            \* failed in it, or two workers were at work at once
  amended,  \* history: merged work was reverted, or a plan file replaced
  collided  \* history: two sessions saved one plan at the same time

vars == <<repl, file, temp, unsaved, run, orphans, edits, log, excused, amended,
          collided>>
planVars == <<repl, file, temp, unsaved, amended, collided>>
treeVars == <<run, orphans, edits, log, excused>>
----------------------------------------------------------------------------
Fixture(p) ==
  [plan |-> p, criteria |-> 1,
   slices |-> <<[id |-> FixtureSlice, deps |-> {}, guarded |-> TRUE, filled |-> TRUE]>>]

Contents == Texts \union {Fixture(p) : p \in PlanIds}

(* Work of a slice, as the plan described it when it was run.              *)
Work == [plan : Contents, slice : SliceIds]

(* A session opens the temporary file ("emptied"), fills it and renames    *)
(* it; on is the file its handle is at, which another session may have     *)
(* renamed in the meantime, or replaced.                                   *)
Sessions ==
  [at : {"closed", "open", "emptied", "filled"}, draft : Contents \union {Absent},
   cap : Caps, model : BOOLEAN, name : PlanIds \union {Absent},
   on : {"none", "temp", "plan", "gone"}]

NoSession == [at |-> "closed", draft |-> Absent, cap |-> NoCap, model |-> FALSE,
              name |-> Absent, on |-> "none"]

Commits == [markers : SUBSET (PlanIds \X SliceIds), work : SUBSET Work,
            excused : BOOLEAN, undoes : Nat]

NoRun == [active |-> FALSE]

(* The slices of a plan id whose marker stands anywhere in git log.        *)
Markers(id) ==
  {s \in SliceIds : \E n \in DOMAIN log : <<id, s>> \in log[n].markers}

(* The work the branch holds: what was committed and not reverted.         *)
Landed ==
  UNION {log[n].work : n \in {k \in DOMAIN log : \A m \in DOMAIN log : log[m].undoes # k}}
----------------------------------------------------------------------------
(* The interactive planner. *)

(* What one turn may bring: the reply of an LLM, or of a Cursor subprocess *)
(* that came back in time, with exit code 0 and no error in its envelope,  *)
(* if it holds a plan that validates.  Any other turn keeps the draft.     *)
Replies(cap) == {c \in Texts : DraftValid(c, cap)}

(* Without a model the draft is the fixture; with one there is a first     *)
(* turn, after which there may still be no draft.  Where there is no       *)
(* Cursor executable the session ends before it starts.                    *)
StartPlanner(k) ==
  \E cap \in Caps, model \in Models :
    /\ repl[k].at = "closed"
    /\ \E d \in IF model THEN Replies(cap) \union {Absent} ELSE {Fixture(p) : p \in PlanIds} :
         repl' = [repl EXCEPT ![k] =
           [NoSession EXCEPT !.at = "open", !.draft = d, !.cap = cap, !.model = model]]
    /\ UNCHANGED <<file, temp, unsaved, amended, collided>> /\ UNCHANGED treeVars

(* Fault: a reply becomes the draft before it is validated.                *)
AnswerUnchecked(k) ==
  /\ repl[k].at = "open" /\ repl[k].model
  /\ \E d \in Texts : repl' = [repl EXCEPT ![k].draft = d]
  /\ UNCHANGED <<file, temp, unsaved, amended, collided>> /\ UNCHANGED treeVars

(* max_turns only warns.                                                   *)
AnswerFeedback(k) ==
  /\ repl[k].at = "open" /\ repl[k].model
  /\ \E d \in Replies(repl[k].cap) : repl' = [repl EXCEPT ![k].draft = d]
  /\ UNCHANGED <<file, temp, unsaved, amended, collided>> /\ UNCHANGED treeVars

(* Sessions, k apart, with a save of that plan under way.                  *)
SavingToo(k, name) ==
  {j \in Planners \ {k} : repl[j].at \in {"emptied", "filled"} /\ repl[j].name = name}

(* Fault: the plan file itself is opened, and emptied, for the write.      *)
BeginSaveInPlace(k) ==
  \E name \in PlanIds :
    /\ repl[k].at = "open" /\ repl[k].draft # Absent
    /\ OwnNames => name = repl[k].draft.plan
    /\ DraftValid(repl[k].draft, repl[k].cap)
    /\ file' = [file EXCEPT ![name] = Torn]
    /\ repl' = [repl EXCEPT ![k].at = "emptied", ![k].name = name, ![k].on = "plan"]
    /\ unsaved' = TRUE
    /\ collided' = (collided \/ SavingToo(k, name) # {})
    /\ UNCHANGED <<temp, amended>> /\ UNCHANGED treeVars

(* The default path has the name of the draft's plan id; with --output or  *)
(* /save PATH it has any name.  Opening the temporary file empties it.     *)
BeginSave(k) ==
  \E name \in PlanIds :
    /\ repl[k].at = "open" /\ repl[k].draft # Absent
    /\ OwnNames => name = repl[k].draft.plan
    /\ DraftValid(repl[k].draft, repl[k].cap)
    /\ temp' = [temp EXCEPT ![name] = Torn]
    /\ repl' = [repl EXCEPT ![k].at = "emptied", ![k].name = name, ![k].on = "temp"]
    /\ unsaved' = TRUE
    /\ collided' = (collided \/ SavingToo(k, name) # {})
    /\ UNCHANGED <<file, amended>> /\ UNCHANGED treeVars

(* What a write leaves in a file: the text, or, where another text is in   *)
(* it since it was opened, perhaps a mixture.                              *)
Written(old, d) == IF old \in {Torn, d} THEN {d} ELSE {d, Torn}

(* The write goes to the file that was opened, wherever that is by now.    *)
FillTemp(k) ==
  LET name == repl[k].name IN
  /\ repl[k].at = "emptied"
  /\ temp' \in IF repl[k].on = "temp"
               THEN {[temp EXCEPT ![name] = d] : d \in Written(temp[name], repl[k].draft)}
               ELSE {temp}
  /\ file' \in IF repl[k].on = "plan"
               THEN {[file EXCEPT ![name] = d] : d \in Written(file[name], repl[k].draft)}
               ELSE {file}
  /\ amended' = (amended \/ file'[name] # file[name])
  /\ repl' = [repl EXCEPT ![k].at = "filled"]
  /\ UNCHANGED <<unsaved, collided>> /\ UNCHANGED treeVars

(* Where a handle on the temporary file, or on the plan file, is once the  *)
(* one has been renamed over the other.                                    *)
HandleAfterRename(on) == IF on = "temp" THEN "plan" ELSE "gone"

(* Whatever has the temporary name now becomes the plan; where another     *)
(* session was first there is none, and the session ends with the error.   *)
RenameTemp(k) ==
  LET name == repl[k].name IN
  /\ repl[k].at = "filled"
  /\ IF temp[name] = Absent
     THEN /\ repl' = [repl EXCEPT ![k] = NoSession]
          /\ UNCHANGED <<file, temp, unsaved, amended>>
     ELSE /\ file' = [file EXCEPT ![name] = temp[name]]
          /\ temp' = [temp EXCEPT ![name] = Absent]
          /\ unsaved' = TRUE
          /\ amended' = (amended \/ file[name] \notin {Absent, temp[name]})
          /\ repl' = [j \in Planners |->
               IF j = k THEN NoSession
               ELSE IF j \in SavingToo(k, name)
                    THEN [repl[j] EXCEPT !.on = HandleAfterRename(@)]
                    ELSE repl[j]]
  /\ UNCHANGED collided /\ UNCHANGED treeVars

(* /abort, end of input, Ctrl-C, a kill, or a save to a path no plan is    *)
(* looked for at.                                                          *)
AbandonPlanner(k) ==
  /\ repl[k].at = "open"
  /\ repl' = [repl EXCEPT ![k] = NoSession]
  /\ unsaved' \in IF repl[k].draft = Absent THEN {unsaved} ELSE {unsaved, TRUE}
  /\ UNCHANGED <<file, temp, amended, collided>> /\ UNCHANGED treeVars

(* A kill inside /save; the temporary file stays as it is.                 *)
KillSave(k) ==
  /\ repl[k].at \in {"emptied", "filled"}
  /\ repl' = [repl EXCEPT ![k] = NoSession]
  /\ UNCHANGED <<file, temp, unsaved, amended, collided>> /\ UNCHANGED treeVars

HandEdit ==
  \E name \in PlanIds, d \in Texts :
    /\ file[name] \notin {Absent, d}
    /\ OwnNames => d.plan \in {name, BadId}
    /\ file' = [file EXCEPT ![name] = d]
    /\ unsaved' = TRUE
    /\ amended' = TRUE
    /\ UNCHANGED <<repl, temp, collided>> /\ UNCHANGED treeVars
----------------------------------------------------------------------------
(* plans run NAME SLICE. *)

(* Fault: the dirty-tree precheck of `run` is missing on `plans run`.      *)
NoPrecheck(apply, allowDirty, answered) == TRUE

PrecheckDue(apply, allowDirty) == apply /\ ~allowDirty

(* The precheck sees what a run left and what the planner saved, unless    *)
(* git does not answer: it is best-effort, and then objects to nothing.    *)
Prechecked(apply, allowDirty, answered) ==
  PrecheckDue(apply, allowDirty) /\ answered => edits = {} /\ ~unsaved

(* A missing, torn or invalid file is refused.                             *)
Readable(d) == d \notin {Absent, Torn} /\ Loads(d)

(* The plan is found by its file name, and its markers are looked up under *)
(* that name; the run itself goes by the plan id inside.                   *)
PlansRun(r) ==
  /\ ~run[r].active
  /\ \E name \in PlanIds, apply, allowDirty \in BOOLEAN :
       LET d == file[name] IN
       /\ allowDirty => apply
       /\ Readable(d)
       /\ \E i \in DOMAIN d.slices :
            /\ DependenciesMet(Markers(name), d.slices[i].deps)
            /\ run' = [run EXCEPT ![r] =
                 [active |-> TRUE, apply |-> apply,
                  work |-> [plan |-> d, slice |-> d.slices[i].id]]]
       /\ \E answered \in IF PrecheckDue(apply, allowDirty) THEN BOOLEAN ELSE {TRUE} :
            /\ Prechecked(apply, allowDirty, answered)
            /\ excused' = (excused \/ allowDirty \/ ~answered)
  /\ UNCHANGED planVars /\ UNCHANGED <<orphans, edits, log>>

(* The slices that have a worker, of a run under --apply or of its own.    *)
AtWork == {run[r].work : r \in {t \in Runners : run[t].active /\ run[t].apply}} \union orphans

EditFor(w) ==
  /\ edits' = edits \union {w}
  /\ excused' = (excused \/ AtWork \ {w} # {})
  /\ UNCHANGED planVars /\ UNCHANGED <<run, orphans, log>>

(* Only a worker under --apply edits; it may well change nothing.          *)
WorkerEdits(r) ==
  /\ run[r].active
  /\ run[r].apply
  /\ EditFor(run[r].work)

(* The run ends, with whatever verdict, or is killed: then its worker, a   *)
(* process of its own, may run on.                                         *)
RunEnds(r) ==
  /\ run[r].active
  /\ run' = [run EXCEPT ![r] = NoRun]
  /\ orphans' \in IF run[r].apply /\ Cardinality(orphans) < MaxOrphans
                  THEN {orphans, orphans \union {run[r].work}}
                  ELSE {orphans}
  /\ UNCHANGED planVars /\ UNCHANGED <<edits, log, excused>>

OrphanEdits == \E w \in orphans : EditFor(w)

OrphanExits ==
  /\ \E w \in orphans : orphans' = orphans \ {w}
  /\ UNCHANGED planVars /\ UNCHANGED <<run, edits, log, excused>>
----------------------------------------------------------------------------
(* The operator's commits. *)

(* What make_commit_marker asks to put into the commit, word for word.     *)
CommitMarkers(works) == {<<w.plan.plan, w.slice>> : w \in works}

(* Everything is committed, with the markers of what is in it or without.  *)
Commit ==
  /\ edits # {} \/ unsaved
  /\ Len(log) < MaxCommits
  /\ \E markers \in {{}, CommitMarkers(edits)} :
       log' = Append(log, [markers |-> markers, work |-> edits,
                           excused |-> excused, undoes |-> 0])
  /\ edits' = {}
  /\ unsaved' = FALSE
  /\ excused' = FALSE
  /\ UNCHANGED <<repl, file, temp, run, orphans, amended, collided>>

(* A revert undoes the work; the message it reverts stays in git log.      *)
Revert ==
  /\ Len(log) < MaxCommits
  /\ \E n \in DOMAIN log :
       /\ log[n].work # {}
       /\ \A m \in DOMAIN log : log[m].undoes # n
       /\ log' = Append(log, [markers |-> {}, work |-> {}, excused |-> FALSE, undoes |-> n])
  /\ amended' = TRUE
  /\ UNCHANGED <<repl, file, temp, unsaved, run, orphans, edits, excused, collided>>
----------------------------------------------------------------------------
Init ==
  /\ repl = [k \in Planners |-> NoSession]
  /\ file = [name \in PlanIds |-> Absent]
  /\ temp = [name \in PlanIds |-> Absent]
  /\ unsaved = FALSE
  /\ run = [r \in Runners |-> NoRun]
  /\ orphans = {}
  /\ edits = {}
  /\ log = <<>>
  /\ excused = FALSE
  /\ amended = FALSE
  /\ collided = FALSE

Next ==
  \/ \E k \in Planners :
       \/ StartPlanner(k) \/ AnswerFeedback(k) \/ BeginSave(k) \/ FillTemp(k)
       \/ RenameTemp(k) \/ AbandonPlanner(k) \/ KillSave(k)
  \/ HandEdit
  \/ \E r \in Runners : PlansRun(r) \/ WorkerEdits(r) \/ RunEnds(r)
  \/ OrphanEdits \/ OrphanExits
  \/ Commit \/ Revert

Spec == Init /\ [][Next]_vars
----------------------------------------------------------------------------
(* Properties. *)

(* Files and drafts hold plans, a draft is always one that could be saved, *)
(* and what runs, is edited or committed is a slice of a plan that loads.  *)
TypeOK ==
  /\ repl \in [Planners -> Sessions]
  /\ \A k \in Planners :
       /\ repl[k].draft # Absent => DraftValid(repl[k].draft, repl[k].cap)
       /\ repl[k].at \in {"emptied", "filled"} => repl[k].name \in PlanIds
  /\ file \in [PlanIds -> Contents \union {Absent, Torn}]
  /\ temp \in [PlanIds -> Contents \union {Absent, Torn}]
  /\ unsaved \in BOOLEAN
  /\ run \in [Runners -> {NoRun} \union [active : {TRUE}, apply : BOOLEAN, work : Work]]
  /\ orphans \subseteq Work
  /\ edits \subseteq Work
  /\ log \in Seq(Commits)
  /\ excused \in BOOLEAN
  /\ {amended, collided} \subseteq BOOLEAN
  /\ \A r \in Runners : run[r].active => Loads(run[r].work.plan)
  /\ \A w \in orphans \union edits \union Landed : Loads(w.plan)

(* What `plans list` shows as next can be run: its dependencies have the   *)
(* markers `plans run` will ask for.                                       *)
ListedNextIsRunnable ==
  \A name \in PlanIds :
    LET d == file[name] IN
    Readable(d) =>
      \A i \in DOMAIN d.slices :
        IsNextUndone(d, Markers(d.plan), i) =>
          DependenciesMet(Markers(name), d.slices[i].deps)

(* What slice s of plan d declares to depend on.                           *)
DepsOf(d, s) == UNION {d.slices[i].deps : i \in {k \in DOMAIN d.slices : d.slices[k].id = s}}

(* The slices that slice s of plan d builds on, directly or not: the least *)
(* set that has its dependencies and those of whatever is in it.           *)
BuildsOn(d, s) ==
  {t \in SliceIds : \A C \in SUBSET SliceIds :
     DepsOf(d, s) \subseteq C /\ (\A u \in C : DepsOf(d, u) \subseteq C) => t \in C}

(* A slice runs on a branch that holds the work of every slice it builds   *)
(* on, directly or not, as long as nobody replaced the plan or reverted    *)
(* merged work: both leave the old markers in git log.                     *)
DependenciesLanded ==
  ~amended =>
    \A r \in Runners : run[r].active =>
      \A s \in BuildsOn(run[r].work.plan, run[r].work.slice) :
        [plan |-> run[r].work.plan, slice |-> s] \in Landed

(* One slice per commit: the precheck keeps a run off the work of another  *)
(* that was not committed, so that a commit never mixes the work of two.   *)
(* It is out of force where the operator waives it or git fails, and it    *)
(* says nothing of workers at work at the same time, an orphan among them. *)
CommitsHoldOneSlice ==
  \A n \in DOMAIN log : ~log[n].excused => Cardinality(log[n].work) <= 1

(* A plan file is always a whole text: no kill of a session that saves     *)
(* leaves half of one under the plan's name, as long as no two sessions    *)
(* ever saved the same plan at the same time.                              *)
PlanFilesWhole ==
  ~collided => \A name \in PlanIds : file[name] # Torn

(* What the planner saved, `plans run` can load.                           *)
SavedPlansLoad ==
  [][\A k \in Planners, name \in PlanIds :
       repl[k].at = "filled" /\ repl'[k] = NoSession /\ file'[name] # file[name] =>
         Readable(file'[name])]_vars
=============================================================================
