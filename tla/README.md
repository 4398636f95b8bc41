# TLA+ models of ai-cockpit

`ai-cockpit` turns an idea into a reviewed change: a LangGraph loop of nodes lets
a worker (aider or Cursor) edit the project, collects evidence from git and from
test commands, and decides whether the work is done or a person is needed. Around
the loop there are persisted threads that can be killed and resumed, plan files
that split an idea into slices, memory suggestions an operator accepts, and a
layered configuration. This directory models what in that program can go wrong
over several steps and several actors, checks it with TLC, and proves the central
results with TLAPS for every value of the parameters.

Paths below are relative to `src/src/ai_cockpit/` (code) and `src/docs/` (documents).

## 1. Inventory

| component | state | operations | works with | hard about it | what makes it correct |
|---|---|---|---|---|---|
| execution loop: `graph.py`, `state.py`, `nodes/` | the channels of `TaskState` | seven nodes, the retry edge | workers, git, shell, LLM; channels are checkpointed | a kill between any two nodes, an old thread reused, a model that reviews | bounded attempts; evidence after every attempt; no "done" past a failure |
| `run` command and checkpoints: `cli.py`, `checkpoint.py` | a sqlite thread per id | fresh run, resume, unpersisted run, dirty-tree precheck | starts and resumes the loop | options of one invocation, state of another; the recursion limit | a verdict sticks; edits only where authorised; a run gets to its end |
| workers: `workers/`, `cursor_adapter/worker.py` | the working tree | spawn, edit, return, fail, time out | subprocess of the coder node | edits while the cockpit dies, the operator editing too | attempts and edits are accounted for |
| evidence tools: `tools/` | none | `git diff`, `git status`, commands | verifier, precheck | failures become text, exit codes or an empty list; commands write files, overrun and leave processes behind | no proof, no pass; evidence and tree belong together |
| memory suggestions: `memory/` | pending and archived JSON, markdown memory files | write at the end of a run, accept, archive | runs, clerks and chats are separate processes | read-modify-write without a lock, truncate then write | nothing offered is lost, nothing accepted twice |
| plan artifacts: `plans/`, `plans run/list/show` in `cli.py` | `docs/plans/*.plan.yaml`, markers in git log | list, check dependencies, run a slice | the operator commits and reverts | two places for the plan's name, markers outliving the work | what is listed as next runs; a slice has what it builds on |
| interactive planner: `planner_interactive/` | the session's draft, a temporary file per plan name | answer, `/save`, `/abort` | LLM or Cursor, plan files | its validation is not the loader's; sessions share the temporary file | what it saves, loads, and is whole |
| configuration: `project_config.py`, `workflow.py`, `run`, `init`, `status` in `cli.py` | `config.yaml`, `config.local.yaml`, `workflows/*.yaml`, `.gitignore` | layer the flags, wizard, report | every run reads it at its start | five layers, files that are torn or malformed, a wizard beside an editor | the first layer that sets a key wins; `init` loses nothing |
| chat: `cursor_adapter/chat.py`, `chat` in `cli.py` | the paths dirty before Cursor's turn | compose the context, spawn, compare, report with revert hints | memory files, git status, Cursor | edits of three actors between two looks; a git that fails | a hint undoes the session's edits only; Cursor is told the memory as it is |
| Cursor adapter: the rest of `cursor_adapter/` | a subprocess session | ask, review, probe | planner, reviewer | time-outs, error envelopes | an unusable answer changes nothing |
| cost report: `cost.py` | none (reads checkpoints) | add up metrics | the coder's metrics channel | channels hold the last attempt only | the latest checkpoint of each thread is counted once |
| prompts, quirks, LLM provider, rendering | none | build text, a client | nodes | none over several steps | not modelled |

Everything that is hard to test in this code is listed, at its line, under
`hazards` in `PROJECT.json`, each with the properties that watch it or the reason
why none does.

## 2. Modules

| module | models | role |
|---|---|---|
| `EvidenceGate` | `nodes/reviewer.py`, `nodes/decision.py`, the types of `state.py` | pure operators: what evidence is, what the rules and a model-backed reviewer may say of it, what is decided |
| `CockpitRun` | `graph.py`, `nodes/`, `run` in `cli.py`, `checkpoint.py`, the workers, git as they see it | the loop, its invocations and its environment; extends `EvidenceGate` |
| `VerdictGate` | | the abstract promise of a run, implemented by `CockpitRun` |
| `CockpitRunProofs` | | theorems about `CockpitRun` |
| `SuggestionStore` | `memory/suggestions.py`, the end of `run` | runs that write suggestions, clerks that accept them, file by file |
| `SuggestionStoreProofs` | | theorems about `SuggestionStore` |
| `AcceptedLog` | | the abstract append-once log, implemented by the store beside chat up to the first kill |
| `MemoryChat` | `cursor_adapter/chat.py`, `chat` in `cli.py`, the operator's edits and commits | a chat session beside the suggestion store; extends `SuggestionStore` and is checked in its place |
| `MemoryChatProofs` | | theorems about `MemoryChat`; extends `SuggestionStoreProofs` |
| `PlanSchema` | `plans/schema.py`, `plans/dependencies.py`, `PlanDraft.validate`, `_next_undone_slice_id` | pure operators: what the planner and the loader accept, what is next, which dependencies are met |
| `PlanRuns` | planner session, plan files, `plans run`, commits, reverts | the life of a plan; extends `PlanSchema` |
| `MCPlanRuns` | | plan texts for TLC |
| `PlanRunsProofs` | | theorems about `PlanSchema` and `PlanRuns` |
| `ConfigLayers` | `project_config.py`, `workflow.py`, flag resolution, `init`, `status` | the layers as operators of the files, the wizard as actions |
| `MCConfigLayers` | | config texts and command lines for TLC |
| `ConfigLayersProofs` | | theorems about `ConfigLayers` |

### CockpitRun

`chan` is the thread's channels as of its latest checkpoint. A node is one action,
`NodeReturns(node, c)`: it needs `chan.next = node`, spends a superstep of `fuel`
and writes the new channels, which is when LangGraph writes its checkpoint. A kill
(`Crash`) therefore loses what the node it hits had not returned, but not what it
did to `tree`. LangGraph's durability, which may put the checkpoint off to the
background, makes a kill look like one in the node before: the same states.

Two nodes are several actions, the ones that start processes. `SpawnWorker` starts
the worker, `WorkerEdit` may change the tree any number of times, `WorkerReturns`
ends the node, with success, failure or a time-out (the same to the loop: a
result that is text). `CoderWithoutWorker` and `WorkerMissing` are its early
returns. The verifier asks git (`LookAtTree`), then runs the commands, which may
write files (`CommandEdit`) or overrun their time-out (`CommandOverruns`: the shell
is killed, what it started may go on), and then returns (`Verifier`) what was seen
first and how the commands went. After a kill the subprocess is an orphan that edits on
(`OrphanEdit`, `OrphanExits`). `OperatorTouchesTree` is edits, commits and stashes.

`StartRun` is a fresh invocation: the option checks of `run_cmd`, the precheck on
`DirtyPaths`, and `initial_state` merged over whatever the thread id already has.
`Resume` invokes the graph on the checkpoint alone. `--no-checkpoint` runs
(`opts.persist = FALSE`) leave nothing behind. Invocations the command line
refuses change nothing and are not actions. Only the thread of the latest fresh
invocation is followed; two processes on one thread are not modelled.

Changes in the tree have an author and a kind, because git tells kinds apart:
`"tracked"` shows in `git diff` and in `git status`, `"hidden"` (new or staged) in
the latter only, `"exempt"` (an allow-listed path) blocks no worker and still shows
in `git diff`. Any call of git may fail or run into its time-out, inside a work tree
too, and always fails outside one (`GitAnswers`). `git_diff` then returns a sentence
about the failure, and the precheck an empty list (`DirtyPaths`). So the diff
in the evidence is one of three things, `"empty"`, `"changes"` or `"failure"`, and the
rest of the evidence is how the commands went. The history variable `unchecked` says
that git failed at the precheck of this invocation or that the operator touched the
tree after it, `disturbed` that something outside the nodes may have changed the tree
since the verifier asked git. Plans, summaries, prompts and metrics never steer the loop and are left out.

### SuggestionStore

A suggestion is the run that wrote it. `CheckId` and `WriteSuggestion` are the
exists-check and the write of `write_suggestion`; ids have seconds, so with
`SameSecond` two runs may share one. A clerk (`memory accept`) is the steps of
`accept_suggestion`: `LoadSuggestion`, `ReadMemory`, `TruncateMemory`,
`FillMemory` (the two halves of `write_text`) and `Archive` (the rename). Any
number of runs and clerks interleave, and each may be killed anywhere.

### MemoryChat

The store together with `chat`, git and the operator. Two tracked files stand for
the tree: the memory file, whose text is the store's `memory` and whose committed
text is `head`, and a source file, of which `work` says who changed it since the last
commit. A session reads the memory (`ComposeContext`, with the budget of the
context), asks git (`FirstStatus`), hands over to Cursor (`CursorEdit`,
`CursorExits`), asks git again and reports the difference (`LastStatus`); each
reported path comes with `git checkout -- PATH`, which the operator may follow
(`FollowHint`). A git that fails or exceeds its ten seconds reads as a clean tree,
so both looks may come back empty. Meanwhile suggestions are accepted in other
terminals, and the operator edits and commits. `base` remembers what was there at
the first look, and the promise about hints is stated against it. It makes an
exception where that look failed, or came while an accept had emptied the file: in
both cases the hints can throw away the operator's earlier work, and TLC finds how
when the exception is dropped. Untracked files, for which the hint does nothing, and
files staged during a session are left out.

### PlanSchema and PlanRuns

A plan text has a plan id, slices with ids and dependencies, and two flags for the
fields that only the loader demands (`filled`) or that both demand (`guarded`).
A planner session holds a draft that changes by answers, of an LLM or of a Cursor
subprocess; an answer that is late, an error or no valid plan leaves it as it was
(`Replies`). It is saved under a name, the default one or any (`OwnNames = FALSE`),
in three steps: open the temporary file, which empties it (`BeginSave`), write
(`FillTemp`), rename (`RenameTemp`); a kill may come between them. The name of the
temporary file depends on the plan's alone, so `on` follows a session's handle: once
another session has renamed the file, the write goes into the plan itself. `PlansRun` finds a plan by its file's
name, checks dependencies with the markers looked up under that name, asks the
precheck, which git may fail to answer, and runs the slice; what happens inside is
`CockpitRun`'s, here its worker may leave edits (`WorkerEdits`). A run that is killed
may leave the worker itself behind, which then edits on beside whatever is run next
(`OrphanEdits`). The operator commits everything in the tree, with the markers of
what is in it or with none, reverts, and edits plan files by hand. The history
variables record what voids a promise: `amended`, merged work reverted or a plan
replaced; `excused`, that since the last commit the precheck was waived with
`--allow-dirty-tree` or git failed in it, or that a worker edited while the worker of
another slice was at work; `collided`, two sessions saving one plan at
the same time (with that exception dropped TLC finds a torn plan in seven steps). The
project is in a git work tree, and its allow-listed paths are nobody's work.

### ConfigLayers

A run only reads the configuration, at its start. What it would make of it is an
operator of the state, `Values(flags)` or `Refused(flags)`, and an invariant asks
about every command line in every state of the files. A layer is a record whose
fields may be `Unset`; four keys stand for the ten (`mode` goes the way of
`max_loops`, the rest that of `worker`). A file may also be absent, malformed
(which drops the whole file) or hold a credential (which refuses every run). The
`init` wizard asks (`StartInit`), renames and writes (`BackUpConfig`,
`WriteConfig`) and completes `.gitignore` (`EnsureGitignoreEntry`); a kill inside
the write leaves an empty file or a piece that does not validate. Editors and pulls
change every file at any time, except between `init`'s rename and its write. Each
backup gets a name of its own: two forced `init`s within a second are not modelled.
The precheck and `--dry-run`, also reasons to refuse, are `CockpitRun`'s.

## 3. Runs

| run | module | shows | bounds | states |
|---|---|---|---|---|
| `safety` | CockpitRun | types, attempts, evidence = tree, the precheck keeps workers off the operator's work, "done" without commands only on a diff or a failed `git diff`, verdicts stick, refinement of `VerdictGate` | aider, two loops, rules only, new and exempt operator edits, tracked edits by processes, git that fails at any call, one crash | 1,152,272 |
| `live` | CockpitRun | started runs conclude; no "done" past failed commands; fresh runs never run out of fuel; refinement | stub, loops 0 and 10, a reviewing model, one crash | 108,304 |
| `nogit` | CockpitRun | **violation** of `NoProofNoPass` | outside git | |
| `resume` | CockpitRun | **violation** of `NoApplyNoWorker` | one crash | |
| `chat` | MemoryChat | reported suggestions survive; append-once log; Cursor's context stays true; hints keep earlier work | two runs, two ids that may be shared, one clerk, one crash, a budget of one entry | 2,492,698 |
| `chat_watch` | MemoryChat | **violation** of `CursorEditsReported` | one run, no crash | |
| `store_two` | SuggestionStore | **violation** of `ArchivedIsRecorded` | two clerks | |
| `plans` | MCPlanRuns | list and run agree; dependencies have landed; one slice per commit; plan files are whole | one plan id, three slices, two planner sessions (symmetric) with a model, two commits, reverts included, one runner, one worker without a run | 1,673,645 |
| `plans_drafts` | MCPlanRuns | **violation** of `SavedPlansLoad` | | |
| `plans_names` | MCPlanRuns | **violation** of `ListedNextIsRunnable` | two plan ids | |
| `config` | MCConfigLayers | first layer wins; edits are asked for or announced; `init` loses no config | two texts, one answer, thirteen command lines, two backups | 193,600 |
| `config_status` | MCConfigLayers | **violation** of `StatusShowsEffective` | | |

Why the bounds are enough to meet the cases that matter:

* Two loops are the least with a retry from evidence to a second attempt and a
  verdict after it; zero is the boundary that the code turns into one; ten is the
  largest a command line can ask for, and a thread of ten loops resumed under the
  limit for one is where a limit is too small. One crash can hit any node or
  process, and any number of invocations may follow, each fresh or resumed. Rules
  and a model review in different runs: what a model may say includes what the rules
  say, and `DoneHasDiffOrFailure` is about the rules.
* Two runs and two ids give runs that share an id and runs that do not, and an accept
  beside a pending suggestion; one crash may hit any of the writes; the budget of one
  entry is exceeded by the second.
* Three slices in a chain give a dependency that is not direct, and two commits are the
  least with which it matters: the third slice runs only after the first two have been
  committed, one after the other, since the second is refused until the first has its
  marker. Two commits are also the least for the precheck: the first one takes in the
  plan file the planner saved, and only then does an `--apply` run start without
  `--allow-dirty-tree` on an answer of git. A run that ends with its edits uncommitted,
  followed by another, and a worker that outlives its run, are the two ways to mix
  the work of two slices. A revert takes one of the two commits. Two planner sessions are the
  least that share a temporary file; they are alike, so their permutations are a
  symmetry. Sessions without a model, whose draft is a fixture with one slice, are
  explored in `plans_drafts` and `plans_names` and covered by the proofs.
* Two texts that contradict each other on `apply`, one that names a workflow, and
  command lines that set a flag to its default and to another value exercise each
  pair of layers; two backups give a config saved twice.

`MaxCrashes`, `MaxCommits`, `MaxOrphans` and `MaxBackups` are the only bounds in the
guards. `MaxCommits` bounds the length of the git log, reverts included.
In the store runs end once and clerks may find nothing to accept, so the
configurations of `SuggestionStore` and `MemoryChat` switch the deadlock check off;
all others check it.

The violations are disagreements between the code and its documents, comments or
messages; `findings` in `PROJECT.json` quotes both sides. In short: the failure text of
`git diff` passes for a diff, always outside git and in a work tree when the call
fails; a resumed run takes `--apply` from the
checkpoint while the command line says the worker will not be spawned; two accepts
at once lose an entry; chat does not report Cursor's edits of a file that was dirty
before; `/save` stores plans the loader refuses; a plan saved under
another name than its id can never proceed past its first slice; `status` shows
`max_loops` of a config file that no run uses. The last one is the normal case after
`init`: the wizard asks for a workflow and for the number of loops, and the
workflow's own number always wins.

### Fairness

Only `StartedRunsConclude` needs it. `FairSpec` asks for weak fairness of the graph's
steps (a process that is not killed goes on; commands and aider have time-outs of
120 s and 300 s, so no step blocks for ever) and of `Exit`, and of `Resume`: the
operator keeps resuming a thread that has no verdict. The latter is an assumption
about people and the property says so. Nothing is assumed of the operator's edits,
of crashes or of fresh runs.

## 4. Proofs

`CockpitRunProofs` proves, for every set of workers, loop choices, kinds of change
and number of crashes (`ConstantsOK`):

* `TypeCorrect`, `DoneNeedsEvidence`, `AttemptsAreBounded` and `EvidenceIsCurrent`
  from one inductive invariant, `RunInv`. The properties are not inductive alone:
  that "done" has evidence follows from a passing review never having had a
  failure (`PassIsClean`), which needs evidence to be present from the reviewer
  on (`EvidencePresent`); the bound on attempts needs to know, node by node, that
  every spawned worker is counted, was cut short or is running, and that the coder
  is reached with a loop left only (`AttemptsAccounted`); evidence equals the tree
  because workers run inside the coder only (`WorkerInCoder`).
* `EvidenceIsCurrent` excepts evidence that says `git diff` failed: of such evidence the code
  knows nothing about the tree.
* `FreshWorkersAreAuthorised` from `FreshChecked`, which carries the outcome of the
  precheck from the invocation to the moment the worker is spawned. Its exceptions are
  the code's: the check is best-effort, and passes on any tree where git does not
  answer it.
* `DoneNeedsDiffOrFailure`: with the rules as the only reviewer (`RulesOnly`), inside a
  work tree or outside, a run with a real worker and no command is done only on a
  change that `git diff` shows or on the text of its failure. It follows from what
  a passing review went by (`PassHasSubstance`) and from evidence being the tree's. What
  the documentation claims, `NoProofNoPass`, is false for the second case: the run `nogit`.
* `VerdictsStick`, an action property.
* `FreshRunsHaveFuel`, with the code's constants 25 and 8 as hypotheses: `StepsLeft`
  counts the supersteps a thread can still need, and `FuelSuffices` says a fresh
  run never has less. The proof shows four supersteps per loop and three before
  and one after the loops would do, for every number of loops; the 8 of the code
  leaves room.
* `RunImplementsGate`: initial states map to initial states and each step of
  `CockpitRun` to a step of `VerdictGate` or a stutter, crashes, resumptions and
  runs on used thread ids included.

`SuggestionStoreProofs` proves, for any number of runs, ids, clerks and kills
(`StoreConstants`):

* `StoreTyped`, and `ReportedSuggestionsSurvive`. That a reported suggestion stays on
  disk is not inductive, since an accept moves and a run overwrites whatever lies under
  an id. `SurvivalInv` adds who wrote what lies there: what is pending or archived
  under an id is of a run that reported it under that id, half a file is of a run that
  a kill stopped, which owns the id for good (`Owned`), and a reported suggestion is
  under its own id (`UnderOwnId`).
* `ArchivedIsRecordedOneAtATime`: with at most one accept at a time (`OneAtATime`:
  any two clerks are the same) and no two runs ending in one second, what is archived is
  in the memory file, up to the first kill. The run `store_two` shows that a second
  clerk is enough to lose an entry; the theorem says that it takes one, a kill or a
  shared second. `LogInv` says, step by step of the accept, what it holds and what the
  memory file has: the text it read is the file's, its suggestion is not in the log
  before it is filled in, and nothing pending is in the log unless its accept has only
  the file to move. `RecordInv` adds what is archived. "One at a time" is what keeps
  the text current from the read to the write.

`MemoryChatProofs` extends it to the store beside chat, for every budget of the context
(`ChatConstants`):

* `ChatTyped`, `SuggestionsSurviveChat` and the action property `HintsAreSafe`, without
  any hypothesis on clerks. The latter rests on `CleanAtStart`: a path the report may
  come to name was clean at the first look, so that what it had then is committed and a
  hint, which goes back to the commit, cannot lose it.
* `ContextIsTrue` and `StoreImplementsLog`, one accept at a time. `ChatLogInv` joins
  the survival invariant and, up to the first kill or reverted entry, `LogInv` and the
  context being a beginning of the log: the memory file, or between the halves of a
  write the text its clerk holds. Every step of the store, the session, git and the
  operator is then a step of `AcceptedLog` or a stutter.

One accept at a time is what the runs of `MemoryChat` check too. The code has no lock that
would enforce it: an operator who types one command after the other does.

`PlanRunsProofs` proves, for any plan ids, slices, names, caps, sessions, runners and
commits (`PlanConstants`, `RunsConstants`):

* `LoaderIsStricter`: every plan that loads would pass the planner's own check without
  a cap.
* `PlansTyped`. `PlanInv` is the invariant: files hold drafts or a torn text
  (`FilesInv`), what a session has for its draft passes the planner's validation
  (`DraftsValid`), and all work, running, uncommitted or committed, is of plans
  that load (`TreeTyped`). It needs a cap, where there is one, to be positive, as
  `--max-slices` demands (`cli.py:745`): with a cap of zero the model's fixture
  draft could not be saved.
* `ListedNextRuns`: with plans under their own names, `plans list` and `plans run` agree
  for every plan and every git log. A file that loads lists a slice after all it
  depends on, and the file's name and the plan's id being equal makes both commands read
  the same markers.
* `PlanFilesStayWhole`: for any number of sessions, names and kills, no plan file is half
  a text until two sessions save one plan at once. It needs `SavesApart`: as long
  as nobody collided, at most one session per name is between open and rename, its
  handle is at the temporary file, and once it has written, that file is whole.
* `OneSlicePerCommit`, for any number of runs and of workers without one. What the code
  guarantees is what the precheck can see, so the property excepts commits in whose time
  it was waived or not answered, or two slices had workers at once, as with two
  `plans run` started on the same clean tree or an orphan beside the next run.
  `OneSliceInv` says that without such an excuse all edits in the tree are of one
  slice, and that nobody is at work on another while there are any.
* `RunsAfterItsDependencies`, with plans under their own names: a slice runs on a
  branch that holds all it builds on, through any chain of dependencies. The check of
  `plans run` looks at direct dependencies and at markers only. The step from one to the
  other is `LandedInv`: while nothing was reverted or replaced, every marker stands
  for landed work of the plan that the file still holds, and the direct dependencies of
  whatever runs, waits in the tree or has landed have landed. The landed slices are
  then a set closed under dependencies, and `BuildsOn`, the least such set, lies in it.

With `OwnNames = FALSE` `ListedNextIsRunnable` and `DependenciesLanded` both fail, by the
same divergence: a plan that lies under another plan's name is measured by that plan's
markers. The run `plans_names` shows the former; for the latter TLC finds a
slice that runs on what another plan has landed.

`ConfigLayersProofs` proves all four properties of its run for any texts, answers,
flags and workflow names (`LayerConstants`, `MarkersApart`): `PrecedenceHolds` and
`EditsAreAnnounced` follow from the types, since they are about what a run makes of
one state of the files, by cases on which layer is the first to set the key;
`InitKeepsConfigs` needs `InitInv`: between the rename and the write there is no
`config.yaml`, so that neither the write nor a kill in it replaces anything.

So every property of a passing run is proved, but one. Only model-checked is liveness,
`StartedRunsConclude`: the prover has neither fairness nor `ENABLED`. The hypotheses
`OneAtATime`, `OwnNames = TRUE` and `RulesOnly` are
not assumptions on the constants but part of the theorems that need them; the runs of
the other case, where there is one, are the violations of section 3. Nothing is
proved of a recursive definition: `BuildsOn` is stated as a least closed set for that
reason, which TLC evaluates as well.

## 5. Not modelled

* Wording of any kind: prompts, quirks, summaries, hints, rendering. No state depends
  on it.
* The LLM client, and what a model's text says beyond the verdict or draft that is
  taken from it: any answer is allowed, none included.
* The cost report: metrics steer nothing, and that a thread counts with its latest
  checkpoint is what the cost contract asks for.
* Commands that only read, and the probing of executables.
* Two processes on one checkpoint thread: nothing in the code keeps them apart, and no
  document says what they should do.
* Output that is not UTF-8, which ends a run like a kill, and the same bytes met again
  by a resume.
* `.gitignore` as a file with other entries than the one `init` adds; two forced `init`s
  within a second.
* Untracked and staged files in `MemoryChat`, and the interactive session's context file,
  which lies in an ignored directory.

## 6. Plan

Done, in this order: the loop with its gate and proofs; the suggestion store with its
log; plans with the first proofs; configuration with its proofs; the verifier in
steps; chat beside the store; planner sessions that save through a shared temporary
file, with the proof that plan files stay whole.

The store, chat and the rest of `PlanRuns` are proved, too.

Next, proving: under which conditions the properties that the violations refute do
hold, as `ArchivedIsRecordedOneAtATime` does for one of them: Cursor's edits of a file that was
clean are reported; saved plans load when the fields that only the loader demands are
filled; no worker without `--apply` on a thread that was started without it.

Next, extending the model: two `plans run` processes under TLC, which so far checks one
beside a worker that outlived its run, while the proofs cover any number; a file-level
`.gitignore`.

## 7. Using it

`tlc -config CockpitRun_safety.cfg CockpitRun.tla` runs one check (the runs and their
modules are in `PROJECT.json`), `tlapm CockpitRunProofs.tla` the proofs of one module.
For every property of a passing run `PROJECT.json` names a mutant: a faulty variant
of one definition, kept beside it and marked "Fault", with which TLC finds the
property violated.
