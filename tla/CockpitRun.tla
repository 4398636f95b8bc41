----------------------------- MODULE CockpitRun -----------------------------
(***************************************************************************)
(* One project root, one checkpoint thread and the sequence of             *)
(* `ai-cockpit run` invocations an operator makes on it.                   *)
(*                                                                         *)
(* An invocation starts fresh (with a new thread id, with the id of a      *)
(* thread that has checkpoints already, or without checkpointing) or       *)
(* resumes the thread.  It then walks the graph                            *)
(*   intake -> planner -> coder -> verifier -> reviewer -> decision        *)
(* with a retry edge back to coder and a last node, summary.  The channel  *)
(* values the nodes write (chan) reach the thread's checkpoint when the    *)
(* node returns, so a kill inside a node loses what that node did not      *)
(* return, but not what it did to the working tree (tree): a worker        *)
(* process, or a test command of the verifier's, edits the tree while the  *)
(* operator may be editing it too, and may outlive a killed cockpit; what  *)
(* a timed-out test command started outlives the command.                  *)
(***************************************************************************)
EXTENDS EvidenceGate, FiniteSets

CONSTANTS
  Workers,          \* values of --worker the operator uses
  LoopChoices,      \* values of --max-loops (0..10 on the command line)
  ReviewerModels,   \* {FALSE}: rules only; TRUE in it: a model may be wired
  UserKinds,        \* kinds of change the operator makes to the tree
  WorkerKinds,      \* kinds of change a worker, or a test command, makes
  RootsInGit,       \* whether the project root is a git work tree
  LimitFloor,       \* 25, the least recursion limit
  LimitPerLoop,     \* 8, the supersteps granted per loop
  MaxCrashes        \* bound: crashes per behaviour

AllWorkers == {"stub", "aider", "cursor"}

(* "tracked": an unstaged edit of a tracked file.  "hidden": a new or      *)
(* staged file, which git status lists and git diff does not print.        *)
(* "exempt": an unstaged edit of a tracked path of the runtime allow-list, *)
(* .gitignore for one, which only git diff shows.                          *)
ChangeKinds == {"tracked", "hidden", "exempt"}

ASSUME ConstantsOK ==
  /\ Workers \subseteq AllWorkers
  /\ LoopChoices \subseteq Nat
  /\ ReviewerModels \subseteq BOOLEAN
  /\ UserKinds \subseteq ChangeKinds
  /\ WorkerKinds \subseteq ChangeKinds
  /\ RootsInGit \subseteq BOOLEAN
  /\ LimitFloor \in Nat \ {0}
  /\ LimitPerLoop \in Nat
  /\ MaxCrashes \in Nat

VARIABLES
  isGit,      \* the project root is inside a git work tree
  tree,       \* uncommitted changes in the working tree
  proc,       \* "idle", "node" (the graph runs), "worker" (a worker runs)
              \* or "testing" (the verifier is at the test commands)
  opts,       \* the options of the current or the last invocation
  fuel,       \* supersteps left before LangGraph raises GraphRecursionError
  chan,       \* the thread's channel values, as of its latest checkpoint
  seen,       \* what the verifier has gathered before it returns
  orphan,     \* a process an earlier node started is still running
  crashes,    \* crashes so far
  repeats,    \* history: attempts of this run a crash cut short
  spawns,     \* history: worker processes since the last fresh invocation
  unchecked,  \* history: git failed at this invocation's precheck, or the
              \* operator touched the tree after it
  disturbed   \* history: what the evidence is about may have changed

vars == <<isGit, tree, proc, opts, fuel, chan, seen, orphan, crashes, repeats,
          spawns, unchecked, disturbed>>
----------------------------------------------------------------------------
(* The working tree as git shows it; changes by "worker" are those of any  *)
(* process the graph starts.                                               *)

Change == [by : {"user", "worker"}, kind : ChangeKinds]
UserChanges == [by : {"user"}, kind : UserKinds]
WorkerChanges == [by : {"worker"}, kind : WorkerKinds]

(* Whether git answers when it is asked: never outside a work tree, and    *)
(* within one any call may fail or run into its timeout.                   *)
GitAnswers == IF isGit THEN BOOLEAN ELSE {FALSE}

(* What git_diff returns: unstaged edits of tracked files, or the sentence *)
(* that says git failed.                                                   *)
GitDiff(answered) ==
  IF ~answered THEN "failure"
  ELSE IF \E c \in tree : c.kind # "hidden" THEN "changes" ELSE "empty"

(* Fault: the precheck asks git diff, which knows no untracked file.       *)
DirtyPathsOfDiff(answered) == {c \in tree : answered /\ c.kind = "tracked"}

(* The paths the dirty-tree precheck objects to: none where git fails.     *)
DirtyPaths(answered) == {c \in tree : answered /\ c.kind # "exempt"}

ApplyCapable == {"aider", "cursor"}
----------------------------------------------------------------------------
(* Channel values.  next is the node LangGraph schedules; "end" follows    *)
(* summary and "none" marks a thread without a checkpoint.                 *)

Nodes == {"intake", "planner", "coder", "verifier", "reviewer", "decision", "summary"}

Channels ==
  [next : Nodes \union {"none", "end"}, dryRun : BOOLEAN, tests : BOOLEAN,
   maxLoops : Nat, loopCount : Nat, coderResult : CoderResults,
   evidence : Evidence \union {NoEvidence}, passed : BOOLEAN, decision : Decisions]

(* What git_diff holds, and whether a test command ran into its timeout.   *)
Sightings == [diff : DiffTexts, overrun : BOOLEAN]

Unseen == [diff |-> "empty", overrun |-> FALSE]

NoThread ==
  [next |-> "none", dryRun |-> FALSE, tests |-> FALSE, maxLoops |-> 0,
   loopCount |-> 0, coderResult |-> "unset",
   evidence |-> NoEvidence, passed |-> FALSE, decision |-> "unset"]

(* Fault: initial_state without its loop_count of zero.                    *)
WithStaleCount(c, dryRun, tests, maxLoops) ==
  [c EXCEPT !.next = "intake", !.dryRun = dryRun, !.tests = tests,
            !.maxLoops = maxLoops]

(* initial_state merged over the channels the thread has already: what it  *)
(* does not name survives from the earlier run.                            *)
WithInitialState(c, dryRun, tests, maxLoops) ==
  [c EXCEPT !.next = "intake", !.dryRun = dryRun, !.tests = tests,
            !.maxLoops = maxLoops, !.loopCount = 0]
----------------------------------------------------------------------------
(* Invocations. *)

(* --allow-dirty-tree without --apply is ignored, so it is not enumerated.  *)
Options ==
  {o \in [worker : Workers, apply : BOOLEAN, allowDirty : BOOLEAN,
           llm : ReviewerModels, resume : BOOLEAN, persist : BOOLEAN] :
     o.allowDirty => o.apply}

NoOptions ==
  [worker |-> "none", apply |-> FALSE, allowDirty |-> FALSE, llm |-> FALSE,
   resume |-> FALSE, persist |-> FALSE]

(* Fault: LangGraph's default limit, whatever max_loops is.                *)
LimitFixed(maxLoops) == LimitFloor

(* max(25, (max_loops + 1) * 8) supersteps.                                *)
RecursionLimit(maxLoops) ==
  LET granted == (maxLoops + 1) * LimitPerLoop
  IN IF granted > LimitFloor THEN granted ELSE LimitFloor

PrecheckDue(o) == o.worker \in ApplyCapable /\ o.apply /\ ~o.allowDirty

(* Flag validation and the dirty-tree precheck, common to fresh and        *)
(* resumed invocations: one that fails changes nothing.                    *)
Accepted(o, dryRun, answered) ==
  /\ o.apply => o.worker \in ApplyCapable
  /\ ~(o.apply /\ dryRun)
  /\ PrecheckDue(o) => DirtyPaths(answered) = {}

(* Without --apply a worker that can edit gets a dry run.                  *)
EffectiveDryRun(o, dryRun) == dryRun \/ (o.worker \in ApplyCapable /\ ~o.apply)

Launch(o, c, maxLoops, answered) ==
  /\ proc = "idle"
  /\ proc' = "node"
  /\ opts' = o
  /\ fuel' = RecursionLimit(maxLoops)
  /\ chan' = c
  /\ unchecked' = (PrecheckDue(o) /\ ~answered)
  /\ UNCHANGED <<isGit, tree, seen, orphan>>

(* run IDEA: on a fresh thread id, on the id of a thread that has          *)
(* checkpoints, or with --no-checkpoint.  The model follows the thread of  *)
(* the latest fresh invocation.                                            *)
StartRun ==
  \E o \in Options, dryRun \in BOOLEAN, tests \in BOOLEAN, maxLoops \in LoopChoices,
     base \in {NoThread, chan}, answered \in GitAnswers :
    LET c == WithInitialState(base, EffectiveDryRun(o, dryRun), tests, maxLoops) IN
    /\ ~o.resume
    /\ base # NoThread => o.persist
    /\ Accepted(o, dryRun, answered)
    /\ Launch(o, c, maxLoops, answered)
    /\ repeats' = 0
    /\ spawns' = 0
    /\ disturbed' = FALSE
    /\ UNCHANGED crashes

(* Fault: resuming invokes the graph with an initial state again.          *)
ResumeFromStart ==
  \E o \in Options, dryRun \in BOOLEAN, maxLoops \in LoopChoices,
     answered \in GitAnswers :
    /\ chan # NoThread
    /\ o.resume
    /\ o.persist
    /\ Accepted(o, dryRun, answered)
    /\ Launch(o, [chan EXCEPT !.next = "intake", !.loopCount = 0], maxLoops, answered)
    /\ UNCHANGED <<crashes, repeats, spawns, disturbed>>

(* run --resume --thread-id: invoke(None) takes every channel from the     *)
(* checkpoint; the worker, the reviewer and the recursion limit come from  *)
(* this invocation.                                                        *)
Resume ==
  \E o \in Options, dryRun \in BOOLEAN, maxLoops \in LoopChoices,
     answered \in GitAnswers :
    /\ chan # NoThread
    /\ o.resume
    /\ o.persist
    /\ Accepted(o, dryRun, answered)
    /\ Launch(o, chan, maxLoops, answered)
    /\ UNCHANGED <<crashes, repeats, spawns, disturbed>>
----------------------------------------------------------------------------
(* Nodes.  A node that returns writes its channels and uses up one         *)
(* superstep; LangGraph then schedules the next one.                       *)

NodeReturns(node, c) ==
  /\ chan.next = node
  /\ fuel > 0
  /\ fuel' = fuel - 1
  /\ chan' = c
  /\ seen' = Unseen
  /\ UNCHANGED <<isGit, tree, opts, orphan, crashes, repeats, unchecked>>

Intake ==
  /\ proc = "node"
  /\ NodeReturns("intake",
       [chan EXCEPT !.next = "planner", !.maxLoops = OrOne(chan.maxLoops)])
  /\ UNCHANGED <<proc, spawns, disturbed>>

Planner ==
  /\ proc = "node"
  /\ NodeReturns("planner", [chan EXCEPT !.next = "coder"])
  /\ UNCHANGED <<proc, spawns, disturbed>>

(* Fault: the edge from coder to verifier leads to the reviewer.           *)
AfterCoderToReviewer(result) ==
  [chan EXCEPT !.next = "reviewer", !.loopCount = @ + 1, !.coderResult = result]

(* What the coder node writes once its worker is back.                     *)
AfterCoder(result) ==
  [chan EXCEPT !.next = "verifier", !.loopCount = @ + 1, !.coderResult = result]

(* The stub never edits, and a dry run only prints a preview.              *)
CoderWithoutWorker ==
  /\ proc = "node"
  /\ opts.worker = "stub" \/ chan.dryRun
  /\ NodeReturns("coder",
       AfterCoder(IF opts.worker = "stub" THEN "stub" ELSE "preview"))
  /\ UNCHANGED <<proc, spawns, disturbed>>

(* The executable is missing: an error report, nothing spawned.            *)
WorkerMissing ==
  /\ proc = "node"
  /\ opts.worker # "stub" /\ ~chan.dryRun
  /\ NodeReturns("coder", AfterCoder("report"))
  /\ UNCHANGED <<proc, spawns, disturbed>>

SpawnWorker ==
  /\ proc = "node"
  /\ chan.next = "coder"
  /\ fuel > 0
  /\ opts.worker # "stub" /\ ~chan.dryRun
  /\ proc' = "worker"
  /\ spawns' = spawns + 1
  /\ UNCHANGED <<isGit, tree, opts, fuel, chan, seen, orphan, crashes, repeats,
                 unchecked, disturbed>>

(* An edit adds a change of the worker's or undoes one.                    *)
EditBy(changes) ==
  \E c \in changes : tree' = IF c \in tree THEN tree \ {c} ELSE tree \union {c}

WorkerEdit ==
  /\ proc = "worker"
  /\ EditBy(WorkerChanges)
  /\ UNCHANGED <<isGit, proc, opts, fuel, chan, seen, orphan, crashes, repeats,
                 spawns, unchecked, disturbed>>

(* The worker exits or is killed at its timeout: a report either way.      *)
WorkerReturns ==
  /\ proc = "worker"
  /\ NodeReturns("coder", AfterCoder("report"))
  /\ proc' = "node"
  /\ UNCHANGED <<spawns, disturbed>>

(* The verifier asks git first and runs the test commands after.           *)
LookAtTree ==
  /\ proc = "node"
  /\ chan.next = "verifier"
  /\ fuel > 0
  /\ proc' = "testing"
  /\ \E answered \in GitAnswers : seen' = [diff |-> GitDiff(answered), overrun |-> FALSE]
  /\ disturbed' = FALSE
  /\ UNCHANGED <<isGit, tree, opts, fuel, chan, orphan, crashes, repeats, spawns,
                 unchecked>>

(* A dry run collects no command results.                                  *)
CommandsDue == chan.tests /\ ~chan.dryRun

(* A test command may write files, after git was asked.                    *)
CommandEdit ==
  /\ proc = "testing" /\ CommandsDue
  /\ EditBy(WorkerChanges)
  /\ disturbed' = TRUE
  /\ UNCHANGED <<isGit, proc, opts, fuel, chan, seen, orphan, crashes, repeats,
                 spawns, unchecked>>

(* The timeout kills the shell, not what the command started.              *)
CommandOverruns ==
  /\ proc = "testing" /\ CommandsDue
  /\ seen' = [seen EXCEPT !.overrun = TRUE]
  /\ orphan' \in {orphan, TRUE}
  /\ UNCHANGED <<isGit, tree, proc, opts, fuel, chan, crashes, repeats, spawns,
                 unchecked, disturbed>>

(* How the command results can read: a timeout is exit code 124.           *)
Outcomes ==
  IF ~CommandsDue THEN {"none"} ELSE IF seen.overrun THEN {"fail"} ELSE {"pass", "fail"}

Verifier ==
  /\ proc = "testing"
  /\ \E outcome \in Outcomes :
       NodeReturns("verifier",
         [chan EXCEPT !.next = "reviewer",
                      !.evidence = [diff |-> seen.diff, commands |-> outcome]])
  /\ proc' = "node"
  /\ UNCHANGED <<spawns, disturbed>>

Reviewer ==
  /\ proc = "node"
  /\ \E passed \in Reviews(opts.llm, chan.evidence, chan.dryRun, chan.coderResult) :
       NodeReturns("reviewer", [chan EXCEPT !.next = "decision", !.passed = passed])
  /\ UNCHANGED <<proc, spawns, disturbed>>

Decision ==
  LET d == Decide(chan.passed, chan.loopCount, chan.maxLoops) IN
  /\ proc = "node"
  /\ NodeReturns("decision",
       [chan EXCEPT !.decision = d, !.next = RouteAfterDecision(d)])
  /\ UNCHANGED <<proc, spawns, disturbed>>

Summary ==
  /\ proc = "node"
  /\ NodeReturns("summary", [chan EXCEPT !.next = "end"])
  /\ UNCHANGED <<proc, spawns, disturbed>>
----------------------------------------------------------------------------
(* The end of an invocation. *)

GoIdle ==
  /\ proc' = "idle"
  /\ opts' = NoOptions
  /\ fuel' = 0
  /\ seen' = Unseen
  /\ chan' = IF opts.persist THEN chan ELSE NoThread
  /\ unchecked' = FALSE

(* An invocation ends with the summary or with GraphRecursionError.        *)
Exit ==
  /\ proc = "node"
  /\ chan.next = "end" \/ fuel = 0
  /\ GoIdle
  /\ UNCHANGED <<isGit, tree, orphan, crashes, repeats, spawns, disturbed>>

(* A kill, a power cut or an exception out of a node.  The checkpoint      *)
(* stays, and a worker or test command that was not killed too runs on.    *)
Crash ==
  /\ proc # "idle"
  /\ crashes < MaxCrashes
  /\ crashes' = crashes + 1
  /\ repeats' = IF proc = "worker" THEN repeats + 1 ELSE repeats
  /\ GoIdle
  /\ orphan' \in IF proc = "worker" \/ (proc = "testing" /\ CommandsDue)
                 THEN {orphan, TRUE} ELSE {orphan}
  /\ UNCHANGED <<isGit, tree, spawns, disturbed>>
----------------------------------------------------------------------------
(* The surroundings: an orphaned process and the operator. *)

OrphanEdit ==
  /\ orphan
  /\ EditBy(WorkerChanges)
  /\ disturbed' = TRUE
  /\ UNCHANGED <<isGit, proc, opts, fuel, chan, seen, orphan, crashes, repeats,
                 spawns, unchecked>>

OrphanExits ==
  /\ orphan
  /\ orphan' = FALSE
  /\ UNCHANGED <<isGit, tree, proc, opts, fuel, chan, seen, crashes, repeats,
                 spawns, unchecked, disturbed>>

(* The operator edits, or commits or stashes everything, at any time.      *)
OperatorTouchesTree ==
  /\ \/ EditBy(UserChanges)
     \/ isGit /\ tree # {} /\ tree' = {}
  /\ unchecked' = (proc # "idle")
  /\ disturbed' = TRUE
  /\ UNCHANGED <<isGit, proc, opts, fuel, chan, seen, orphan, crashes, repeats, spawns>>
----------------------------------------------------------------------------
Init ==
  /\ isGit \in RootsInGit
  /\ tree \in SUBSET UserChanges
  /\ proc = "idle"
  /\ opts = NoOptions
  /\ fuel = 0
  /\ chan = NoThread
  /\ seen = Unseen
  /\ orphan = FALSE
  /\ crashes = 0
  /\ repeats = 0
  /\ spawns = 0
  /\ unchecked = FALSE
  /\ disturbed = FALSE

GraphStep ==
  Intake \/ Planner \/ CoderWithoutWorker \/ WorkerMissing \/ SpawnWorker
    \/ WorkerReturns \/ LookAtTree \/ Verifier \/ Reviewer \/ Decision \/ Summary

Next ==
  \/ StartRun \/ Resume
  \/ GraphStep \/ WorkerEdit \/ CommandEdit \/ CommandOverruns
  \/ Exit \/ Crash
  \/ OrphanEdit \/ OrphanExits \/ OperatorTouchesTree

Spec == Init /\ [][Next]_vars

(* A running invocation moves on: every worker and every test command has  *)
(* a timeout.  The operator resumes a run that ended without a verdict.    *)
Fairness ==
  /\ WF_vars(GraphStep)
  /\ WF_vars(Exit)
  /\ WF_vars(Resume /\ chan.next # "end")

FairSpec == Spec /\ Fairness
----------------------------------------------------------------------------
(* Properties. *)

(* Every variable keeps its type; a running graph has its options and a    *)
(* place in the graph, which a thread without a checkpoint has not.        *)
TypeOK ==
  /\ isGit \in BOOLEAN
  /\ tree \subseteq Change
  /\ proc \in {"idle", "node", "worker", "testing"}
  /\ opts \in Options \union {NoOptions}
  /\ fuel \in Nat
  /\ chan \in Channels
  /\ seen \in Sightings
  /\ orphan \in BOOLEAN
  /\ crashes \in Nat
  /\ repeats \in Nat
  /\ spawns \in Nat
  /\ unchecked \in BOOLEAN
  /\ disturbed \in BOOLEAN
  /\ proc # "idle" => opts \in Options /\ chan.next # "none"
  /\ chan.next = "none" => chan = NoThread

Judging == {"reviewer", "decision", "summary", "end"}
Concluded == {"summary", "end"}

(* A run spawns at most max_loops workers, zero counting as one, plus one  *)
(* for every worker a crash cut short: a crash elsewhere in the graph      *)
(* never repeats an attempt whose checkpoint was written.                  *)
AttemptsBounded ==
  chan # NoThread => spawns <= OrOne(chan.maxLoops) + repeats

(* "done" is never reached past a failed command, whatever a model says    *)
(* and however often the run was killed and resumed; a run that has test   *)
(* commands and is not dry is done only when every one of them passed.     *)
DoneIsEvidenced ==
  chan.next \in Concluded /\ chan.decision = "done" =>
    /\ chan.evidence \in Evidence
    /\ chan.evidence.commands # "fail"
    /\ chan.tests /\ ~chan.dryRun => chan.evidence.commands = "pass"

(* What the reviewer and the decision go by is the tree as it stands after *)
(* the last attempt, unless git diff failed, or the operator, a test       *)
(* command or a process that outlived its node changed the tree since git  *)
(* was asked: no attempt comes between evidence and verdict, in one        *)
(* invocation or over several.                                             *)
EvidenceDescribesTree ==
  chan.next \in Judging /\ ~disturbed /\ chan.evidence.diff # "failure" =>
    chan.evidence.diff = GitDiff(TRUE)

(* A fresh run has a worker process only under --apply, and unless the     *)
(* operator waived the check, git failed to answer it (as it does outside  *)
(* a work tree), or files were edited during the run, the worker never     *)
(* finds uncommitted work of the operator's outside the allow-list.        *)
FreshWorkerAuthorised ==
  proc = "worker" /\ ~opts.resume =>
    /\ opts.apply
    /\ ~opts.allowDirty /\ ~unchecked =>
         \A c \in tree : c.by = "user" => c.kind = "exempt"

(* The recursion limit is wide enough for every loop a fresh run may take: *)
(* LangGraph never stops one before its summary.                           *)
FreshRunNeverExhausted ==
  proc = "node" /\ ~opts.resume /\ fuel = 0 => chan.next = "end"

(* A thread that has its verdict keeps it: resuming it repeats no node;    *)
(* only a fresh run on the same thread id, or the end of a run that was    *)
(* not checkpointed, replaces what it holds.                               *)
VerdictSticks ==
  [][chan.next = "end" /\ chan' # chan =>
       \/ proc = "idle" /\ ~opts'.resume
       \/ proc # "idle" /\ ~opts.persist]_vars

(* What VerdictGate sees of a thread. *)
GateVerdict ==
  IF chan = NoThread THEN "none"
  ELSE IF chan.next \in Concluded THEN chan.decision ELSE "open"

GateStage ==
  IF chan.next \in {"none", "intake", "planner", "coder"} THEN "work"
  ELSE IF chan.next = "verifier" THEN "verify"
  ELSE IF chan.evidence.commands = "fail" THEN "broken" ELSE "clean"

Gate == INSTANCE VerdictGate WITH
  verdict <- GateVerdict, limit <- OrOne(chan.maxLoops),
  attempts <- chan.loopCount, stage <- GateStage

(* The nodes, killed, resumed and restarted as the operator likes,         *)
(* implement the abstract promise of VerdictGate.                          *)
ImplementsGate == Gate!GateSpec

(* A run that is not dry, had a real worker and no command is done, and    *)
(* the tree is as it was when git was asked.                               *)
DoneOnTreeAlone ==
  /\ chan.next \in Concluded /\ chan.decision = "done"
  /\ ~chan.dryRun /\ chan.coderResult # "stub"
  /\ chan.evidence.commands = "none" /\ ~disturbed

(* With the rule-based reviewer, a run that is not dry, used a real worker *)
(* and ran no command is done only when there is a change in the tree.     *)
NoProofNoPass == DoneOnTreeAlone => tree # {}

(* What the code keeps of that: such a run is done only when git diff      *)
(* shows a change in the tree, one the operator or an earlier run left     *)
(* behind included, or when git diff failed; new files alone do not do.    *)
DoneHasDiffOrFailure ==
  DoneOnTreeAlone => GitDiff(TRUE) = "changes" \/ chan.evidence.diff = "failure"

(* Without --apply the worker is never spawned.                            *)
NoApplyNoWorker == proc = "worker" => opts.apply

(* A started run reaches its verdict when the operator keeps resuming it,  *)
(* through crashes and through resumptions whose own recursion limit is    *)
(* too small for the loops the checkpoint still allows.                    *)
StartedRunsConclude ==
  chan.next \in Nodes ~> (chan.next = "end" \/ chan = NoThread)
----------------------------------------------------------------------------
(* The inductive invariant behind the safety properties, by parts. *)

(* A worker runs only inside the coder node of a run that is not dry.      *)
WorkerInCoder ==
  proc = "worker" => chan.next = "coder" /\ opts.worker # "stub" /\ ~chan.dryRun

(* The test commands run inside the verifier, and what it saw is the tree  *)
(* until somebody changes it.                                              *)
LookIsCurrent ==
  proc = "testing" =>
    /\ chan.next = "verifier"
    /\ ~disturbed /\ seen.diff # "failure" => seen.diff = GitDiff(TRUE)

(* From the reviewer on there is evidence, of the commands too if due.     *)
EvidencePresent ==
  chan.next \in Judging =>
    /\ chan.evidence \in Evidence
    /\ chan.tests /\ ~chan.dryRun => chan.evidence.commands # "none"

(* A passing review, or the decision taken on it, never had a failure.     *)
PassIsClean ==
  \/ chan.next = "decision" /\ chan.passed
  \/ chan.next \in Concluded /\ chan.decision = "done"
  => chan.evidence.commands # "fail"

(* Every worker spawned is a counted loop, was cut short or is running,    *)
(* and the graph is at the coder only while a loop is left.                *)
AttemptsAccounted ==
  /\ chan # NoThread =>
       spawns <= chan.loopCount + repeats + (IF proc = "worker" THEN 1 ELSE 0)
  /\ chan.next \in {"none", "intake", "planner"} => chan.loopCount = 0
  /\ chan.next = "coder" => chan.loopCount < OrOne(chan.maxLoops)
  /\ chan.loopCount <= OrOne(chan.maxLoops)

RunInv ==
  /\ TypeOK
  /\ WorkerInCoder
  /\ LookIsCurrent
  /\ EvidencePresent
  /\ PassIsClean
  /\ AttemptsAccounted
  /\ EvidenceDescribesTree

(* The supersteps a thread needs at most until its summary has returned:   *)
(* four for every loop that is left, and what remains of this one.         *)
LoopsLeft(c) == OrOne(c.maxLoops) - c.loopCount

StepsLeft(c) ==
  CASE c.next = "intake"   -> 3 + 4 * LoopsLeft(c)
    [] c.next = "planner"  -> 2 + 4 * LoopsLeft(c)
    [] c.next = "coder"    -> 1 + 4 * LoopsLeft(c)
    [] c.next = "verifier" -> 4 + 4 * LoopsLeft(c)
    [] c.next = "reviewer" -> 3 + 4 * LoopsLeft(c)
    [] c.next = "decision" -> 2 + 4 * LoopsLeft(c)
    [] c.next = "summary"  -> 1
    [] OTHER -> 0

FuelSuffices == proc # "idle" /\ ~opts.resume => fuel >= StepsLeft(chan)

(* A passing review by the rules, or the decision taken on it, had a diff, *)
(* the result of a command, or nothing to expect.                          *)
PassHasSubstance ==
  \/ chan.next = "decision" /\ chan.passed
  \/ chan.next \in Concluded /\ chan.decision = "done"
  => \/ chan.evidence.diff # "empty"
     \/ chan.evidence.commands # "none"
     \/ chan.dryRun
     \/ chan.coderResult = "stub"

(* A fresh run that is not dry and has a real worker was given --apply,    *)
(* and was checked against the operator's uncommitted work.                *)
FreshChecked ==
  proc # "idle" /\ ~opts.resume /\ opts.worker # "stub" /\ ~chan.dryRun =>
    /\ opts.apply
    /\ ~opts.allowDirty /\ ~unchecked =>
         \A c \in tree : c.by = "user" => c.kind = "exempt"
=============================================================================
