-------------------------- MODULE CockpitRunProofs --------------------------
(***************************************************************************)
(* Theorems about CockpitRun for every value of its constants.             *)
(***************************************************************************)
EXTENDS CockpitRun, Integers, TLAPS

(* A review is a Boolean, whoever wrote it.                                *)
LEMMA ReviewsBoolean ==
  ASSUME NEW llm \in BOOLEAN, NEW e, NEW dry \in BOOLEAN, NEW result
  PROVE  Reviews(llm, e, dry, result) \subseteq BOOLEAN
  BY DEF Reviews, EnforceHardRules, DeterministicReview

(* max_loops, zero counting as one, is positive, and counting it so twice  *)
(* changes nothing.                                                        *)
LEMMA OrOneFacts ==
  ASSUME NEW n \in Nat
  PROVE  OrOne(n) \in Nat /\ OrOne(n) >= 1 /\ OrOne(OrOne(n)) = OrOne(n)
  BY DEF OrOne

(* The decision is one the state's type allows.                            *)
LEMMA DecideTyped ==
  ASSUME NEW passed, NEW loopCount, NEW maxLoops
  PROVE  Decide(passed, loopCount, maxLoops) \in {"done", "retry", "ask_human"}
  BY DEF Decide

LEMMA EditTyped ==
  ASSUME TypeOK, NEW changes \in SUBSET Change, EditBy(changes)
  PROVE  tree' \subseteq Change
  BY DEF TypeOK, EditBy

LEMMA LimitTyped ==
  ASSUME NEW m \in Nat
  PROVE  RecursionLimit(m) \in Nat
<1>1. (m + 1) * LimitPerLoop \in Nat
  BY ConstantsOK
<1> QED
  BY <1>1, ConstantsOK DEF RecursionLimit

LEMMA NoThreadTyped == NoThread \in Channels
  BY DEF NoThread, Channels, CoderResults, Decisions

(* A node that writes well-typed channels keeps the types.                 *)
LEMMA NodeTyped ==
  ASSUME TypeOK, NEW node, NEW c \in Channels, NodeReturns(node, c),
         c.next # "none", proc # "idle",
         proc' = "node", spawns' \in Nat, disturbed' \in BOOLEAN
  PROVE  TypeOK'
  BY DEF TypeOK, NodeReturns, Unseen, Sightings, DiffTexts

(* What the coder writes is well typed and counts one loop.                *)
LEMMA AfterCoderFacts ==
  ASSUME chan \in Channels, NEW r \in CoderResults
  PROVE  /\ AfterCoder(r) \in Channels
         /\ AfterCoder(r).next = "verifier"
         /\ AfterCoder(r).loopCount = chan.loopCount + 1
         /\ AfterCoder(r).maxLoops = chan.maxLoops
<1>1. chan.loopCount + 1 \in Nat
  BY DEF Channels
<1> QED
  BY <1>1 DEF AfterCoder, Channels, Nodes

(* What an invocation's precheck leaves behind is a Boolean.               *)
LEMMA LaunchTyped ==
  ASSUME TypeOK, NEW o \in Options, NEW answered \in GitAnswers
  PROVE  /\ answered \in BOOLEAN
         /\ (PrecheckDue(o) /\ ~answered) \in BOOLEAN
  BY DEF TypeOK, GitAnswers, PrecheckDue, Options

(* Type correctness.                                                       *)
LEMMA TypeStep == TypeOK /\ [Next]_vars => TypeOK'
<1> SUFFICES ASSUME TypeOK, [Next]_vars PROVE TypeOK'
  OBVIOUS
<1> USE ConstantsOK
<1>1. CASE StartRun
  <2> PICK o \in Options, dryRun \in BOOLEAN, tests \in BOOLEAN,
           maxLoops \in LoopChoices, base \in {NoThread, chan}, answered \in GitAnswers :
             /\ Launch(o, WithInitialState(base, EffectiveDryRun(o, dryRun), tests, maxLoops),
                       maxLoops, answered)
             /\ repeats' = 0 /\ spawns' = 0 /\ disturbed' = FALSE /\ UNCHANGED crashes
    BY <1>1 DEF StartRun
  <2>1. maxLoops \in Nat
    OBVIOUS
  <2>2. EffectiveDryRun(o, dryRun) \in BOOLEAN
    BY DEF EffectiveDryRun
  <2>3. base \in Channels
    BY NoThreadTyped DEF TypeOK
  <2>4. /\ chan' \in Channels
        /\ chan'.next = "intake"
    BY <2>1, <2>2, <2>3 DEF Launch, WithInitialState, Channels, Nodes
  <2>5. fuel' \in Nat
    BY <2>1, LimitTyped DEF Launch
  <2>6. unchecked' \in BOOLEAN
    BY LaunchTyped DEF Launch
  <2> QED
    BY <2>4, <2>5, <2>6 DEF Launch, TypeOK
<1>2. CASE Resume
  <2> PICK o \in Options, maxLoops \in LoopChoices, answered \in GitAnswers :
             /\ Launch(o, chan, maxLoops, answered)
             /\ chan # NoThread
             /\ UNCHANGED <<crashes, repeats, spawns, disturbed>>
    BY <1>2 DEF Resume
  <2>1. maxLoops \in Nat
    OBVIOUS
  <2>2. fuel' \in Nat
    BY <2>1, LimitTyped DEF Launch
  <2>3. unchecked' \in BOOLEAN
    BY LaunchTyped DEF Launch
  <2> QED
    BY <2>2, <2>3 DEF Launch, TypeOK
<1>3. CASE Intake
  <2> DEFINE c == [chan EXCEPT !.next = "planner", !.maxLoops = OrOne(chan.maxLoops)]
  <2>1. chan.maxLoops \in Nat
    BY DEF TypeOK, Channels
  <2>2. OrOne(chan.maxLoops) \in Nat
    BY <2>1, OrOneFacts
  <2>3. c \in Channels /\ c.next # "none"
    BY <2>2 DEF TypeOK, Channels, Nodes
  <2> QED
    BY <1>3, <2>3, NodeTyped DEF Intake, TypeOK
<1>4. CASE Planner
  <2> DEFINE c == [chan EXCEPT !.next = "coder"]
  <2>1. c \in Channels /\ c.next # "none"
    BY DEF TypeOK, Channels, Nodes
  <2> QED
    BY <1>4, <2>1, NodeTyped DEF Planner, TypeOK
<1>5. \A r \in CoderResults : AfterCoder(r) \in Channels /\ AfterCoder(r).next # "none"
  BY AfterCoderFacts DEF TypeOK
<1>6. CASE CoderWithoutWorker
  <2>1. (IF opts.worker = "stub" THEN "stub" ELSE "preview") \in CoderResults
    BY DEF CoderResults
  <2> QED
    BY <1>5, <1>6, <2>1, NodeTyped DEF CoderWithoutWorker, TypeOK
<1>7. CASE WorkerMissing
  <2>1. "report" \in CoderResults
    BY DEF CoderResults
  <2> QED
    BY <1>5, <1>7, <2>1, NodeTyped DEF WorkerMissing, TypeOK
<1>8. CASE SpawnWorker
  BY <1>8 DEF SpawnWorker, TypeOK
<1>9. CASE WorkerReturns
  <2>1. "report" \in CoderResults
    BY DEF CoderResults
  <2> QED
    BY <1>5, <1>9, <2>1, NodeTyped DEF WorkerReturns, TypeOK
<1>22. CASE LookAtTree
  <2>1. \A answered : GitDiff(answered) \in DiffTexts
    BY DEF GitDiff, DiffTexts
  <2>2. seen' \in Sightings
    BY <1>22, <2>1 DEF LookAtTree, Sightings
  <2> QED
    BY <1>22, <2>2 DEF LookAtTree, TypeOK
<1>23. CASE CommandOverruns
  <2>1. seen' \in Sightings /\ orphan' \in BOOLEAN
    BY <1>23 DEF CommandOverruns, TypeOK, Sightings
  <2> QED
    BY <1>23, <2>1 DEF CommandOverruns, TypeOK
<1>10. CASE Verifier
  <2> PICK outcome \in Outcomes :
        NodeReturns("verifier",
          [chan EXCEPT !.next = "reviewer",
                       !.evidence = [diff |-> seen.diff, commands |-> outcome]])
    BY <1>10 DEF Verifier
  <2> DEFINE c == [chan EXCEPT !.next = "reviewer",
                     !.evidence = [diff |-> seen.diff, commands |-> outcome]]
  <2>1. seen.diff \in DiffTexts
    BY DEF TypeOK, Sightings
  <2>2. [diff |-> seen.diff, commands |-> outcome] \in Evidence
    BY <2>1 DEF Evidence, CommandOutcomes, Outcomes
  <2>3. c \in Channels /\ c.next # "none"
    BY <2>2 DEF TypeOK, Channels, Nodes
  <2> QED
    BY <1>10, <2>3, NodeTyped DEF Verifier, TypeOK
<1>11. CASE Reviewer
  <2> PICK passed \in Reviews(opts.llm, chan.evidence, chan.dryRun, chan.coderResult) :
        NodeReturns("reviewer", [chan EXCEPT !.next = "decision", !.passed = passed])
    BY <1>11 DEF Reviewer
  <2> DEFINE c == [chan EXCEPT !.next = "decision", !.passed = passed]
  <2>1. opts.llm \in BOOLEAN /\ chan.dryRun \in BOOLEAN
    BY <1>11 DEF TypeOK, Reviewer, Options, Channels
  <2>2. passed \in BOOLEAN
    BY <2>1, ReviewsBoolean
  <2>3. c \in Channels /\ c.next # "none"
    BY <2>2 DEF TypeOK, Channels, Nodes
  <2> QED
    BY <1>11, <2>3, NodeTyped DEF Reviewer, TypeOK
<1>12. CASE Decision
  <2> DEFINE d == Decide(chan.passed, chan.loopCount, chan.maxLoops)
             c == [chan EXCEPT !.decision = d, !.next = RouteAfterDecision(d)]
  <2>1. d \in Decisions
    BY DecideTyped DEF Decisions
  <2>2. RouteAfterDecision(d) \in Nodes /\ RouteAfterDecision(d) # "none"
    BY DEF RouteAfterDecision, Nodes
  <2>3. c \in Channels /\ c.next # "none"
    <3> HIDE DEF d
    <3> QED
      BY <2>1, <2>2 DEF TypeOK, Channels
  <2>4. NodeReturns("decision", c) /\ proc = "node" /\ UNCHANGED <<proc, spawns, disturbed>>
    BY <1>12 DEF Decision
  <2> QED
    <3> HIDE DEF c
    <3> QED
      BY <2>3, <2>4, NodeTyped DEF TypeOK
<1>13. CASE Summary
  <2> DEFINE c == [chan EXCEPT !.next = "end"]
  <2>1. c \in Channels /\ c.next # "none"
    BY DEF TypeOK, Channels
  <2> QED
    BY <1>13, <2>1, NodeTyped DEF Summary, TypeOK
<1>14. WorkerChanges \subseteq Change /\ UserChanges \subseteq Change
  BY DEF WorkerChanges, UserChanges, Change
<1>15. CASE WorkerEdit \/ CommandEdit
  <2>1. tree' \subseteq Change
    BY <1>14, <1>15, EditTyped DEF WorkerEdit, CommandEdit
  <2> QED
    BY <1>15, <2>1 DEF WorkerEdit, CommandEdit, TypeOK
<1>16. CASE Exit
  BY <1>16, NoThreadTyped DEF Exit, GoIdle, TypeOK, Unseen, Sightings, DiffTexts
<1>17. CASE Crash
  <2>1. orphan' \in BOOLEAN
    BY <1>17 DEF Crash, TypeOK
  <2>2. crashes' \in Nat /\ repeats' \in Nat
    BY <1>17 DEF Crash, TypeOK
  <2> QED
    BY <1>17, <2>1, <2>2, NoThreadTyped DEF Crash, GoIdle, TypeOK, Unseen, Sightings, DiffTexts
<1>18. CASE OrphanEdit
  <2>1. tree' \subseteq Change
    BY <1>14, <1>18, EditTyped DEF OrphanEdit
  <2> QED
    BY <1>18, <2>1 DEF OrphanEdit, TypeOK
<1>19. CASE OrphanExits
  BY <1>19 DEF OrphanExits, TypeOK
<1>20. CASE OperatorTouchesTree
  <2>1. tree' \subseteq Change
    BY <1>14, <1>20, EditTyped DEF OperatorTouchesTree
  <2> QED
    BY <1>20, <2>1 DEF OperatorTouchesTree, TypeOK
<1>21. CASE UNCHANGED vars
  BY <1>21 DEF vars, TypeOK
<1> QED
  BY <1>1, <1>2, <1>3, <1>4, <1>6, <1>7, <1>8, <1>9, <1>10, <1>11, <1>12, <1>13,
     <1>15, <1>16, <1>17, <1>18, <1>19, <1>20, <1>21, <1>22, <1>23 DEF Next, GraphStep

LEMMA TypeInit == Init => TypeOK
<1> SUFFICES ASSUME Init PROVE TypeOK
  OBVIOUS
<1>1. isGit \in BOOLEAN /\ tree \subseteq Change
  BY ConstantsOK DEF Init, UserChanges, Change
<1>2. Unseen \in Sightings
  BY DEF Unseen, Sightings, DiffTexts
<1> QED
  BY <1>1, <1>2, NoThreadTyped DEF Init, TypeOK

(* Every reachable state has the types of TypeOK: the channels a node      *)
(* reads hold what the nodes before it can have written.                   *)
THEOREM TypeCorrect == Spec => []TypeOK
  BY TypeInit, TypeStep, PTL DEF Spec
----------------------------------------------------------------------------
(* A step that leaves the thread, the run and the worker's state alone and *)
(* either the tree too or marks it disturbed keeps the invariant.          *)
LEMMA InvSurroundings ==
  ASSUME RunInv, TypeOK', UNCHANGED <<proc, opts, chan, repeats, spawns, isGit>>,
         seen'.diff = seen.diff, disturbed' \/ (UNCHANGED <<tree, disturbed>>)
  PROVE  RunInv'
  BY DEF RunInv, WorkerInCoder, LookIsCurrent, EvidencePresent, PassIsClean, AttemptsAccounted,
         EvidenceDescribesTree, GitDiff

(* An invocation that ends keeps what a persisted thread holds.            *)
LEMMA InvGoIdle ==
  ASSUME RunInv, TypeOK', GoIdle, UNCHANGED <<isGit, tree, spawns, disturbed>>,
         repeats' = (IF proc = "worker" THEN repeats + 1 ELSE repeats)
  PROVE  RunInv'
<1>1. chan' = chan \/ chan' = NoThread
  BY DEF GoIdle
<1>2. proc' = "idle" /\ repeats \in Nat /\ spawns \in Nat /\ chan.loopCount \in Nat
  BY DEF GoIdle, RunInv, TypeOK, Channels
<1>3. WorkerInCoder' /\ LookIsCurrent'
  BY <1>2 DEF WorkerInCoder, LookIsCurrent
<1>4. CASE chan' = NoThread
  BY <1>2, <1>3, <1>4 DEF RunInv, EvidencePresent, PassIsClean, AttemptsAccounted,
     EvidenceDescribesTree, NoThread, Judging, Concluded, OrOne
<1>5. CASE chan' = chan
  <2>1. AttemptsAccounted'
    BY <1>2, <1>5 DEF RunInv, AttemptsAccounted
  <2> QED
    BY <1>2, <1>3, <1>5, <2>1 DEF RunInv, EvidencePresent, PassIsClean,
       EvidenceDescribesTree, GitDiff
<1> QED
  BY <1>1, <1>4, <1>5

(* A coder that returns, having spawned a worker or not.                   *)
LEMMA InvCoderReturns ==
  ASSUME RunInv, TypeOK', NEW r \in CoderResults, NodeReturns("coder", AfterCoder(r)),
         proc \in {"node", "worker"}, proc' = "node", UNCHANGED <<spawns, disturbed>>
  PROVE  RunInv'
<1>1. /\ chan \in Channels /\ chan.next = "coder" /\ chan' = AfterCoder(r)
      /\ repeats \in Nat /\ spawns \in Nat /\ repeats' = repeats
  BY DEF NodeReturns, RunInv, TypeOK
<1>2. /\ chan'.next = "verifier" /\ chan'.loopCount = chan.loopCount + 1
      /\ chan'.maxLoops = chan.maxLoops
      /\ chan.maxLoops \in Nat /\ chan.loopCount \in Nat
  BY <1>1 DEF AfterCoder, Channels
<1>3. OrOne(chan.maxLoops) \in Nat
  BY <1>2, OrOneFacts
<1>4. AttemptsAccounted'
  BY <1>1, <1>2, <1>3 DEF RunInv, AttemptsAccounted, NoThread
<1> QED
  BY <1>2, <1>4 DEF RunInv, WorkerInCoder, LookIsCurrent, EvidencePresent, PassIsClean,
     EvidenceDescribesTree, Judging, Concluded

LEMMA InvStep == RunInv /\ TypeOK' /\ [Next]_vars => RunInv'
<1> SUFFICES ASSUME RunInv, TypeOK', [Next]_vars PROVE RunInv'
  OBVIOUS
<1>0. TypeOK /\ chan \in Channels /\ repeats \in Nat /\ spawns \in Nat
      /\ chan.maxLoops \in Nat /\ chan.loopCount \in Nat
  BY DEF RunInv, TypeOK, Channels
<1>1. CASE StartRun
  <2> PICK o \in Options, dryRun \in BOOLEAN, tests \in BOOLEAN,
           maxLoops \in LoopChoices, base \in {NoThread, chan}, answered \in GitAnswers :
             /\ Launch(o, WithInitialState(base, EffectiveDryRun(o, dryRun), tests, maxLoops),
                       maxLoops, answered)
             /\ spawns' = 0 /\ repeats' = 0
    BY <1>1 DEF StartRun
  <2> DEFINE d == EffectiveDryRun(o, dryRun)
  <2>1. /\ base \in Channels /\ proc' = "node"
        /\ chan' = WithInitialState(base, d, tests, maxLoops)
    BY <1>0, NoThreadTyped DEF Launch
  <2>2. chan'.next = "intake" /\ chan'.loopCount = 0 /\ chan'.maxLoops = maxLoops
    BY <2>1 DEF WithInitialState, Channels
  <2>3. OrOne(maxLoops) \in Nat
    BY ConstantsOK, OrOneFacts
  <2> QED
    BY <2>1, <2>2, <2>3 DEF RunInv, WorkerInCoder, LookIsCurrent, EvidencePresent, PassIsClean,
       AttemptsAccounted, EvidenceDescribesTree, Judging, Concluded
<1>2. CASE Resume
  <2>1. proc = "idle" /\ proc' = "node" /\ UNCHANGED <<chan, repeats, spawns, isGit, tree, disturbed>>
    BY <1>2 DEF Resume, Launch
  <2> QED
    BY <2>1 DEF RunInv, WorkerInCoder, LookIsCurrent, EvidencePresent, PassIsClean,
       AttemptsAccounted, EvidenceDescribesTree, GitDiff
<1>3. CASE Intake
  <2>1. /\ chan.next = "intake" /\ chan'.next = "planner"
        /\ chan'.loopCount = chan.loopCount /\ chan'.maxLoops = OrOne(chan.maxLoops)
        /\ proc' = "node" /\ proc = "node" /\ UNCHANGED <<repeats, spawns>>
    BY <1>0, <1>3 DEF Intake, NodeReturns, Channels
  <2>2. OrOne(chan'.maxLoops) = OrOne(chan.maxLoops)
    BY <1>0, <2>1, OrOneFacts
  <2>3. chan # NoThread
    BY <2>1 DEF NoThread
  <2>4. AttemptsAccounted'
    BY <1>0, <2>1, <2>2, <2>3 DEF RunInv, AttemptsAccounted
  <2> QED
    BY <2>1, <2>4 DEF RunInv, WorkerInCoder, LookIsCurrent, EvidencePresent, PassIsClean,
       EvidenceDescribesTree, Judging, Concluded
<1>4. CASE Planner
  <2>1. /\ chan.next = "planner" /\ chan'.next = "coder"
        /\ chan'.loopCount = chan.loopCount /\ chan'.maxLoops = chan.maxLoops
        /\ proc' = "node" /\ proc = "node" /\ UNCHANGED <<repeats, spawns>>
    BY <1>0, <1>4 DEF Planner, NodeReturns, Channels
  <2>2. OrOne(chan.maxLoops) >= 1 /\ OrOne(chan.maxLoops) \in Nat
    BY <1>0, OrOneFacts
  <2>3. chan # NoThread
    BY <2>1 DEF NoThread
  <2>4. AttemptsAccounted'
    BY <1>0, <2>1, <2>2, <2>3 DEF RunInv, AttemptsAccounted
  <2> QED
    BY <2>1, <2>4 DEF RunInv, WorkerInCoder, LookIsCurrent, EvidencePresent, PassIsClean,
       EvidenceDescribesTree, Judging, Concluded
<1>5. CASE CoderWithoutWorker
  <2>1. (IF opts.worker = "stub" THEN "stub" ELSE "preview") \in CoderResults
    BY DEF CoderResults
  <2> QED
    BY <1>5, <2>1, InvCoderReturns DEF CoderWithoutWorker
<1>6. CASE WorkerMissing
  BY <1>6, InvCoderReturns DEF WorkerMissing, CoderResults
<1>7. CASE WorkerReturns
  BY <1>7, InvCoderReturns DEF WorkerReturns, CoderResults
<1>8. CASE SpawnWorker
  <2>1. /\ proc = "node" /\ proc' = "worker" /\ spawns' = spawns + 1
        /\ chan.next = "coder" /\ opts.worker # "stub" /\ ~chan.dryRun
        /\ UNCHANGED <<chan, opts, repeats, isGit, tree, disturbed>>
    BY <1>8 DEF SpawnWorker
  <2>2. AttemptsAccounted'
    BY <1>0, <2>1 DEF RunInv, AttemptsAccounted
  <2> QED
    BY <2>1, <2>2 DEF RunInv, WorkerInCoder, LookIsCurrent, EvidencePresent, PassIsClean,
       EvidenceDescribesTree, GitDiff
<1>20. CASE LookAtTree
  <2>1. /\ proc = "node" /\ proc' = "testing" /\ chan.next = "verifier"
        /\ UNCHANGED <<chan, opts, repeats, spawns, isGit, tree>>
    BY <1>20 DEF LookAtTree
  <2>2. AttemptsAccounted'
    BY <1>0, <2>1 DEF RunInv, AttemptsAccounted
  <2>3. PICK answered \in GitAnswers : seen'.diff = GitDiff(answered)
    BY <1>20 DEF LookAtTree
  <2>4. answered \/ seen'.diff = "failure"
    BY <2>3 DEF GitDiff
  <2>5. answered \in BOOLEAN
    BY DEF GitAnswers
  <2>6. seen'.diff # "failure" => seen'.diff = GitDiff(TRUE)'
    BY <2>1, <2>3, <2>4, <2>5 DEF GitDiff
  <2> QED
    BY <2>1, <2>2, <2>6 DEF RunInv, WorkerInCoder, LookIsCurrent, EvidencePresent, PassIsClean,
       EvidenceDescribesTree, Judging, GitDiff
<1>21. CASE CommandEdit
  BY <1>21, InvSurroundings DEF CommandEdit
<1>22. CASE CommandOverruns
  <2>1. seen'.diff = seen.diff
    BY <1>0, <1>22 DEF CommandOverruns, TypeOK, Sightings
  <2> QED
    BY <1>22, <2>1, InvSurroundings DEF CommandOverruns
<1>9. CASE Verifier
  <2> PICK outcome \in Outcomes :
        NodeReturns("verifier",
          [chan EXCEPT !.next = "reviewer",
                       !.evidence = [diff |-> seen.diff, commands |-> outcome]])
    BY <1>9 DEF Verifier
  <2>1. /\ chan.next = "verifier" /\ chan'.next = "reviewer"
        /\ chan'.evidence = [diff |-> seen.diff, commands |-> outcome]
        /\ chan'.loopCount = chan.loopCount /\ chan'.maxLoops = chan.maxLoops
        /\ chan'.tests = chan.tests /\ chan'.dryRun = chan.dryRun
        /\ proc' = "node" /\ proc = "testing"
        /\ UNCHANGED <<repeats, spawns, isGit, tree, disturbed>>
    BY <1>0, <1>9 DEF Verifier, NodeReturns, Channels
  <2>2. outcome \in CommandOutcomes
        /\ (chan.tests /\ ~chan.dryRun => outcome # "none")
    BY DEF CommandOutcomes, Outcomes, CommandsDue
  <2>3. EvidencePresent'
    BY <1>0, <2>1, <2>2 DEF EvidencePresent, Evidence, TypeOK, Sightings
  <2>4. AttemptsAccounted'
    BY <1>0, <2>1 DEF RunInv, AttemptsAccounted, NoThread
  <2>5. EvidenceDescribesTree'
    BY <2>1 DEF EvidenceDescribesTree, GitDiff, RunInv, LookIsCurrent
  <2> QED
    BY <2>1, <2>3, <2>4, <2>5 DEF RunInv, WorkerInCoder, LookIsCurrent, PassIsClean, Concluded
<1>10. CASE Reviewer
  <2> PICK passed \in Reviews(opts.llm, chan.evidence, chan.dryRun, chan.coderResult) :
        NodeReturns("reviewer", [chan EXCEPT !.next = "decision", !.passed = passed])
    BY <1>10 DEF Reviewer
  <2>1. /\ chan.next = "reviewer" /\ chan'.next = "decision" /\ chan'.passed = passed
        /\ chan'.evidence = chan.evidence
        /\ chan'.loopCount = chan.loopCount /\ chan'.maxLoops = chan.maxLoops
        /\ chan'.tests = chan.tests /\ chan'.dryRun = chan.dryRun
        /\ proc' = "node" /\ proc = "node"
        /\ UNCHANGED <<repeats, spawns, isGit, tree, disturbed>>
    BY <1>0, <1>10 DEF Reviewer, NodeReturns, Channels
  <2>2. passed => chan.evidence.commands # "fail"
    BY DEF Reviews, EnforceHardRules
  <2>3. AttemptsAccounted'
    BY <1>0, <2>1 DEF RunInv, AttemptsAccounted, NoThread
  <2>4. EvidencePresent' /\ EvidenceDescribesTree'
    BY <2>1 DEF RunInv, EvidencePresent, EvidenceDescribesTree, Judging, GitDiff
  <2> QED
    BY <2>1, <2>2, <2>3, <2>4 DEF RunInv, WorkerInCoder, LookIsCurrent, PassIsClean, Concluded
<1>11. CASE Decision
  <2> DEFINE d == Decide(chan.passed, chan.loopCount, chan.maxLoops)
  <2>1. /\ chan.next = "decision" /\ chan'.next = RouteAfterDecision(d)
        /\ chan'.decision = d /\ chan'.evidence = chan.evidence
        /\ chan'.loopCount = chan.loopCount /\ chan'.maxLoops = chan.maxLoops
        /\ chan'.tests = chan.tests /\ chan'.dryRun = chan.dryRun
        /\ proc' = "node" /\ proc = "node"
        /\ UNCHANGED <<repeats, spawns, isGit, tree, disturbed>>
    BY <1>0, <1>11 DEF Decision, NodeReturns, Channels
  <2>2. chan'.next \in {"coder", "summary"}
    BY <2>1 DEF RouteAfterDecision
  <2>3. chan'.next = "coder" => chan.loopCount < OrOne(chan.maxLoops)
    BY <2>1 DEF RouteAfterDecision, Decide
  <2>4. chan'.decision = "done" => chan.passed
    BY <2>1 DEF Decide
  <2>5. AttemptsAccounted'
    BY <1>0, <2>1, <2>2, <2>3 DEF RunInv, AttemptsAccounted, NoThread
  <2>6. EvidencePresent' /\ EvidenceDescribesTree'
    BY <2>1, <2>2 DEF RunInv, EvidencePresent, EvidenceDescribesTree, Judging, GitDiff
  <2> QED
    BY <2>1, <2>2, <2>4, <2>5, <2>6 DEF RunInv, WorkerInCoder, LookIsCurrent, PassIsClean, Concluded
<1>12. CASE Summary
  <2>1. /\ chan.next = "summary" /\ chan'.next = "end"
        /\ chan'.decision = chan.decision /\ chan'.evidence = chan.evidence
        /\ chan'.loopCount = chan.loopCount /\ chan'.maxLoops = chan.maxLoops
        /\ chan'.tests = chan.tests /\ chan'.dryRun = chan.dryRun
        /\ proc' = "node" /\ proc = "node"
        /\ UNCHANGED <<repeats, spawns, isGit, tree, disturbed>>
    BY <1>0, <1>12 DEF Summary, NodeReturns, Channels
  <2>2. AttemptsAccounted'
    BY <1>0, <2>1 DEF RunInv, AttemptsAccounted, NoThread
  <2>3. EvidencePresent' /\ EvidenceDescribesTree'
    BY <2>1 DEF RunInv, EvidencePresent, EvidenceDescribesTree, Judging, GitDiff
  <2> QED
    BY <2>1, <2>2, <2>3 DEF RunInv, WorkerInCoder, LookIsCurrent, PassIsClean, Concluded
<1>13. CASE WorkerEdit
  <2>1. proc = "worker" /\ UNCHANGED <<proc, opts, chan, repeats, spawns, isGit>>
    BY <1>13 DEF WorkerEdit
  <2>2. chan.next = "coder"
    BY <2>1 DEF RunInv, WorkerInCoder
  <2> QED
    BY <2>1, <2>2 DEF RunInv, WorkerInCoder, LookIsCurrent, EvidencePresent, PassIsClean,
       AttemptsAccounted, EvidenceDescribesTree, Judging
<1>14. CASE Exit
  BY <1>14, InvGoIdle DEF Exit
<1>15. CASE Crash
  BY <1>15, InvGoIdle DEF Crash
<1>16. CASE OrphanEdit
  BY <1>16, InvSurroundings DEF OrphanEdit
<1>17. CASE OrphanExits
  BY <1>17, InvSurroundings DEF OrphanExits
<1>18. CASE OperatorTouchesTree
  BY <1>18, InvSurroundings DEF OperatorTouchesTree
<1>19. CASE UNCHANGED vars
  BY <1>19, InvSurroundings DEF vars
<1> QED
  BY <1>1, <1>2, <1>3, <1>4, <1>5, <1>6, <1>7, <1>8, <1>9, <1>10, <1>11, <1>12,
     <1>13, <1>14, <1>15, <1>16, <1>17, <1>18, <1>19, <1>20, <1>21, <1>22 DEF Next, GraphStep

LEMMA InvInit == Init => RunInv
<1> SUFFICES ASSUME Init PROVE RunInv
  OBVIOUS
<1>1. TypeOK
  BY TypeInit
<1> QED
  BY <1>1 DEF Init, RunInv, WorkerInCoder, LookIsCurrent, EvidencePresent, PassIsClean,
     AttemptsAccounted, EvidenceDescribesTree, NoThread, Judging, Concluded, OrOne

LEMMA InvAlways == Spec => []RunInv
<1>1. RunInv => TypeOK
  BY DEF RunInv
<1> QED
  BY <1>1, InvInit, InvStep, TypeStep, PTL DEF Spec

(* A failed test command never ends in "done", whatever a model answers,   *)
(* however often the run is killed, resumed or restarted on its thread,    *)
(* and a run with test commands is done only when they passed.             *)
THEOREM DoneNeedsEvidence == Spec => []DoneIsEvidenced
<1>1. RunInv => DoneIsEvidenced
  <2> SUFFICES ASSUME RunInv, chan.next \in Concluded, chan.decision = "done"
               PROVE  /\ chan.evidence \in Evidence
                      /\ chan.evidence.commands # "fail"
                      /\ chan.tests /\ ~chan.dryRun => chan.evidence.commands = "pass"
    BY DEF DoneIsEvidenced
  <2>1. chan.next \in Judging
    BY DEF Judging, Concluded
  <2>2. chan.evidence \in Evidence
    BY <2>1 DEF RunInv, EvidencePresent
  <2>3. chan.evidence.commands \in {"none", "pass", "fail"}
    BY <2>2 DEF Evidence, CommandOutcomes
  <2> QED
    BY <2>1, <2>2, <2>3 DEF RunInv, EvidencePresent, PassIsClean
<1> QED
  BY <1>1, InvAlways, PTL

(* Over all invocations of a run, no more workers are spawned than its     *)
(* loops allow and crashes cut short.                                      *)
THEOREM AttemptsAreBounded == Spec => []AttemptsBounded
<1>1. RunInv => AttemptsBounded
  <2> SUFFICES ASSUME RunInv, chan # NoThread
               PROVE  spawns <= OrOne(chan.maxLoops) + repeats
    BY DEF AttemptsBounded
  <2>1. /\ spawns \in Nat /\ repeats \in Nat
        /\ chan.loopCount \in Nat /\ chan.maxLoops \in Nat
    BY DEF RunInv, TypeOK, Channels
  <2>2. OrOne(chan.maxLoops) \in Nat
    BY <2>1, OrOneFacts
  <2>3. CASE proc = "worker"
    <3>1. chan.next = "coder"
      BY <2>3 DEF RunInv, WorkerInCoder
    <3> QED
      BY <2>1, <2>2, <2>3, <3>1 DEF RunInv, AttemptsAccounted
  <2>4. CASE proc # "worker"
    BY <2>1, <2>2, <2>4 DEF RunInv, AttemptsAccounted
  <2> QED
    BY <2>3, <2>4
<1> QED
  BY <1>1, InvAlways, PTL

(* The evidence a verdict rests on describes the tree after the last       *)
(* attempt, until something outside the graph's nodes changes the tree,    *)
(* or says that git diff failed, inside a git work tree or outside.        *)
THEOREM EvidenceIsCurrent == Spec => []EvidenceDescribesTree
<1>1. RunInv => EvidenceDescribesTree
  BY DEF RunInv
<1> QED
  BY <1>1, InvAlways, PTL
----------------------------------------------------------------------------
(* The options of a fresh run reach its worker.  *)

LEMMA FreshStep == RunInv /\ FreshChecked /\ TypeOK' /\ [Next]_vars => FreshChecked'
<1> SUFFICES ASSUME RunInv, FreshChecked, TypeOK', [Next]_vars PROVE FreshChecked'
  OBVIOUS
<1>0. TypeOK /\ chan \in Channels
  BY DEF RunInv, TypeOK
<1>1. CASE StartRun
  <2> PICK o \in Options, dryRun \in BOOLEAN, tests \in BOOLEAN,
           maxLoops \in LoopChoices, base \in {NoThread, chan}, answered \in GitAnswers :
             /\ Accepted(o, dryRun, answered)
             /\ Launch(o, WithInitialState(base, EffectiveDryRun(o, dryRun), tests, maxLoops),
                       maxLoops, answered)
    BY <1>1 DEF StartRun
  <2> DEFINE d == EffectiveDryRun(o, dryRun)
  <2>1. /\ base \in Channels /\ opts' = o
        /\ chan' = WithInitialState(base, d, tests, maxLoops)
        /\ tree' = tree /\ unchecked' = (PrecheckDue(o) /\ ~answered)
    BY <1>0, NoThreadTyped DEF Launch
  <2>2. chan'.dryRun = d
    <3> HIDE DEF d
    <3> QED
      BY <2>1 DEF WithInitialState, Channels
  <2>3. SUFFICES ASSUME o.worker # "stub", ~d
                 PROVE  /\ o.apply
                        /\ ~o.allowDirty /\ answered =>
                             \A c \in tree : c.by = "user" => c.kind = "exempt"
    <3>1. o.worker # "stub" => o.worker \in ApplyCapable
      BY ConstantsOK DEF Options, AllWorkers, ApplyCapable
    <3>2. o.worker # "stub" /\ o.apply /\ ~o.allowDirty /\ ~unchecked' => answered
      BY <2>1, <3>1 DEF PrecheckDue
    <3> QED
      BY <2>1, <2>2, <3>2 DEF FreshChecked
  <2>4. o.worker \in ApplyCapable
    BY <2>3, ConstantsOK DEF Options, AllWorkers, ApplyCapable
  <2>5. o.apply
    BY <2>3, <2>4 DEF EffectiveDryRun
  <2>6. ~o.allowDirty => DirtyPaths(answered) = {}
    BY <2>4, <2>5 DEF Accepted, PrecheckDue
  <2> QED
    BY <2>5, <2>6 DEF DirtyPaths
<1>2. CASE Resume
  BY <1>2 DEF Resume, Launch, FreshChecked
<1>4. CASE Intake \/ Planner \/ Summary
  <2>1. proc # "idle" /\ chan'.dryRun = chan.dryRun
    BY <1>0, <1>4 DEF Intake, Planner, Summary, NodeReturns, Channels
  <2> QED
    BY <1>4, <2>1 DEF Intake, Planner, Summary, NodeReturns, FreshChecked
<1>5. CASE CoderWithoutWorker \/ WorkerMissing \/ WorkerReturns
  <2>1. proc # "idle" /\ chan'.dryRun = chan.dryRun
    BY <1>0, <1>5 DEF CoderWithoutWorker, WorkerMissing, WorkerReturns, NodeReturns,
       AfterCoder, Channels
  <2> QED
    BY <1>5, <2>1 DEF CoderWithoutWorker, WorkerMissing, WorkerReturns, NodeReturns, FreshChecked
<1>6. CASE Verifier \/ Reviewer \/ Decision
  <2>1. proc # "idle" /\ chan'.dryRun = chan.dryRun
    BY <1>0, <1>6 DEF Verifier, Reviewer, Decision, NodeReturns, Channels
  <2> QED
    BY <1>6, <2>1 DEF Verifier, Reviewer, Decision, NodeReturns, FreshChecked
<1>7. CASE SpawnWorker \/ LookAtTree \/ CommandOverruns
  BY <1>7 DEF SpawnWorker, LookAtTree, CommandOverruns, FreshChecked
<1>8. CASE EditBy(WorkerChanges) /\ UNCHANGED <<isGit, proc, opts, chan, unchecked>>
  BY <1>8 DEF EditBy, WorkerChanges, FreshChecked
<1>9. CASE WorkerEdit \/ CommandEdit \/ OrphanEdit
  BY <1>8, <1>9 DEF WorkerEdit, CommandEdit, OrphanEdit
<1>10. CASE Exit \/ Crash
  BY <1>10 DEF Exit, Crash, GoIdle, FreshChecked
<1>11. CASE OrphanExits \/ UNCHANGED vars
  BY <1>11 DEF OrphanExits, vars, FreshChecked
<1>12. CASE OperatorTouchesTree
  BY <1>12 DEF OperatorTouchesTree, FreshChecked
<1> QED
  BY <1>1, <1>2, <1>4, <1>5, <1>6, <1>7, <1>9, <1>10, <1>11, <1>12 DEF Next, GraphStep

(* Without --apply a fresh run never has a worker process, and with it the *)
(* worker finds no uncommitted work outside the allow-list, unless the     *)
(* operator waived the check or edits while the run is on, or git failed   *)
(* in the check, which then objects to nothing.                            *)
THEOREM FreshWorkersAreAuthorised == Spec => []FreshWorkerAuthorised
<1>1. Init => FreshChecked
  BY DEF Init, FreshChecked
<1>2. RunInv /\ FreshChecked => FreshWorkerAuthorised
  BY DEF RunInv, WorkerInCoder, FreshChecked, FreshWorkerAuthorised
<1>3. RunInv => TypeOK
  BY DEF RunInv
<1> QED
  BY <1>1, <1>2, <1>3, FreshStep, TypeStep, InvAlways, PTL DEF Spec
----------------------------------------------------------------------------
(* The floor under a review by the rules. *)

RulesOnly == ReviewerModels = {FALSE}

LEMMA SubstanceStep ==
  ASSUME RulesOnly, TypeOK, PassHasSubstance, [Next]_vars
  PROVE  PassHasSubstance'
<1>0. chan \in Channels /\ (proc # "idle" => opts.llm = FALSE)
  BY DEF RulesOnly, TypeOK, Options
<1>1. CASE StartRun
  <2>1. PICK base \in {NoThread, chan} : \E d, tests, maxLoops :
          chan' = WithInitialState(base, d, tests, maxLoops)
    BY <1>1 DEF StartRun, Launch
  <2> QED
    BY <1>0, <2>1, NoThreadTyped DEF WithInitialState, Channels, PassHasSubstance, Concluded
<1>2. CASE Intake \/ Planner \/ Verifier
  BY <1>0, <1>2 DEF Intake, Planner, Verifier, NodeReturns, Channels, PassHasSubstance, Concluded
<1>3. CASE CoderWithoutWorker \/ WorkerMissing \/ WorkerReturns
  BY <1>0, <1>3 DEF CoderWithoutWorker, WorkerMissing, WorkerReturns, NodeReturns, AfterCoder,
     Channels, PassHasSubstance, Concluded
<1>4. CASE Reviewer
  <2>1. PICK passed \in Reviews(FALSE, chan.evidence, chan.dryRun, chan.coderResult) :
          chan' = [chan EXCEPT !.next = "decision", !.passed = passed]
    BY <1>0, <1>4 DEF Reviewer, NodeReturns
  <2>2. passed = TRUE => \/ chan.evidence.diff # "empty" \/ chan.evidence.commands # "none"
                         \/ chan.dryRun \/ chan.coderResult = "stub"
    BY DEF Reviews, EnforceHardRules, DeterministicReview
  <2>3. passed \in BOOLEAN
    BY <1>0, ReviewsBoolean DEF Channels
  <2> QED
    BY <1>0, <2>1, <2>2, <2>3 DEF Channels, PassHasSubstance, Concluded
<1>5. CASE Decision
  <2> DEFINE d == Decide(chan.passed, chan.loopCount, chan.maxLoops)
  <2>1. /\ chan.next = "decision"
        /\ chan' = [chan EXCEPT !.decision = d, !.next = RouteAfterDecision(d)]
    BY <1>5 DEF Decision, NodeReturns
  <2>2. d = "done" => chan.passed
    BY DEF Decide
  <2>3. RouteAfterDecision(d) \in {"coder", "summary"}
    BY DEF RouteAfterDecision
  <2> HIDE DEF d
  <2> QED
    BY <1>0, <2>1, <2>2, <2>3 DEF Channels, PassHasSubstance, Concluded
<1>6. CASE Summary
  BY <1>0, <1>6 DEF Summary, NodeReturns, Channels, PassHasSubstance, Concluded
<1>7. CASE UNCHANGED chan
  BY <1>7 DEF PassHasSubstance
<1>8. CASE Exit \/ Crash
  <2>1. chan' = chan \/ chan' = NoThread
    BY <1>8 DEF Exit, Crash, GoIdle
  <2> QED
    BY <1>7, <2>1 DEF NoThread, PassHasSubstance, Concluded
<1>9. CASE Resume \/ SpawnWorker \/ LookAtTree \/ WorkerEdit \/ CommandEdit
           \/ CommandOverruns \/ OrphanEdit \/ OrphanExits \/ OperatorTouchesTree
           \/ UNCHANGED vars
  BY <1>7, <1>9 DEF Resume, Launch, SpawnWorker, LookAtTree, WorkerEdit, CommandEdit,
     CommandOverruns, OrphanEdit, OrphanExits, OperatorTouchesTree, vars
<1> QED
  BY <1>1, <1>2, <1>3, <1>4, <1>5, <1>6, <1>8, <1>9 DEF Next, GraphStep

(* With the rules as the only reviewer, a run that used a real worker and  *)
(* ran no command is done only when git shows a change in the tree, or git *)
(* diff failed: the failure's text is the one way around the floor, in a   *)
(* git work tree or not.                                                   *)
THEOREM DoneNeedsDiffOrFailure ==
  ASSUME RulesOnly
  PROVE  Spec => []DoneHasDiffOrFailure
<1>1. Init => PassHasSubstance
  BY DEF Init, NoThread, PassHasSubstance, Concluded
<1>2. TypeOK /\ PassHasSubstance /\ [Next]_vars => PassHasSubstance'
  BY SubstanceStep
<1>3. RunInv /\ PassHasSubstance => DoneHasDiffOrFailure
  <2> SUFFICES ASSUME RunInv, PassHasSubstance, DoneOnTreeAlone,
                      chan.evidence.diff # "failure"
               PROVE  GitDiff(TRUE) = "changes"
    BY DEF DoneHasDiffOrFailure
  <2>1. chan.evidence.diff # "empty"
    BY DEF PassHasSubstance, DoneOnTreeAlone
  <2>2. chan.evidence.diff = GitDiff(TRUE)
    BY DEF RunInv, EvidenceDescribesTree, DoneOnTreeAlone, Judging, Concluded
  <2> QED
    BY <2>1, <2>2 DEF GitDiff
<1> QED
  BY <1>1, <1>2, <1>3, TypeCorrect, InvAlways, PTL DEF Spec
----------------------------------------------------------------------------
(* A thread that has ended keeps its channels. *)

(* Nothing changes the channels of a finished thread but a fresh run, or   *)
(* the end of an invocation that was not checkpointed: resuming it again   *)
(* repeats no node and revises no verdict.                                 *)
THEOREM VerdictsStick == Spec => VerdictSticks
<1>1. ASSUME TypeOK, [Next]_vars, chan.next = "end", chan' # chan
      PROVE  \/ proc = "idle" /\ ~opts'.resume
             \/ proc # "idle" /\ ~opts.persist
  <2>2. ~GraphStep
    BY <1>1 DEF GraphStep, Intake, Planner, CoderWithoutWorker, WorkerMissing,
       SpawnWorker, WorkerReturns, LookAtTree, Verifier, Reviewer, Decision, Summary,
       NodeReturns
  <2>3. CASE StartRun
    BY <2>3 DEF StartRun, Launch
  <2>4. CASE Exit \/ Crash
    BY <1>1, <2>4 DEF Exit, Crash, GoIdle
  <2>5. ~Resume /\ ~WorkerEdit /\ ~CommandEdit /\ ~CommandOverruns /\ ~OrphanEdit /\ ~OrphanExits /\ ~OperatorTouchesTree
        /\ ~UNCHANGED vars
    BY <1>1 DEF Resume, Launch, WorkerEdit, CommandEdit, CommandOverruns, OrphanEdit,
       OrphanExits, OperatorTouchesTree, vars
  <2> QED
    BY <1>1, <2>2, <2>3, <2>4, <2>5 DEF Next
<1>2. TypeOK /\ [Next]_vars =>
        [chan.next = "end" /\ chan' # chan =>
           \/ proc = "idle" /\ ~opts'.resume
           \/ proc # "idle" /\ ~opts.persist]_vars
  BY <1>1
<1> QED
  BY <1>2, TypeCorrect, PTL DEF Spec, VerdictSticks
----------------------------------------------------------------------------
(* The recursion limit. *)

(* One superstep of a node pays for itself.                                *)
LEMMA FuelNode ==
  ASSUME RunInv, FuelSuffices, NEW node, NEW c \in Channels, NodeReturns(node, c),
         proc # "idle", StepsLeft(c) <= StepsLeft(chan) - 1, StepsLeft(c) \in Int,
         StepsLeft(chan) \in Int
  PROVE  FuelSuffices'
<1>1. fuel \in Nat /\ fuel' = fuel - 1 /\ opts' = opts /\ chan' = c
  BY DEF NodeReturns, RunInv, TypeOK
<1>2. StepsLeft(chan') = StepsLeft(c)
  BY <1>1
<1> QED
  BY <1>1, <1>2 DEF FuelSuffices

LEMMA FuelStep ==
  ASSUME LimitFloor = 25, LimitPerLoop = 8
  PROVE  RunInv /\ FuelSuffices /\ TypeOK' /\ [Next]_vars => FuelSuffices'
<1> SUFFICES ASSUME RunInv, FuelSuffices, TypeOK', [Next]_vars PROVE FuelSuffices'
  OBVIOUS
<1>0. TypeOK /\ chan \in Channels /\ chan.maxLoops \in Nat /\ chan.loopCount \in Nat
      /\ OrOne(chan.maxLoops) \in Nat /\ fuel \in Nat
  BY OrOneFacts DEF RunInv, TypeOK, Channels
<1>1. CASE StartRun
  <2> PICK o \in Options, dryRun \in BOOLEAN, tests \in BOOLEAN,
           maxLoops \in LoopChoices, base \in {NoThread, chan}, answered \in GitAnswers :
             Launch(o, WithInitialState(base, EffectiveDryRun(o, dryRun), tests, maxLoops),
                    maxLoops, answered)
    BY <1>1 DEF StartRun
  <2>1. base \in Channels /\ maxLoops \in Nat
        /\ chan' = WithInitialState(base, EffectiveDryRun(o, dryRun), tests, maxLoops)
        /\ fuel' = RecursionLimit(maxLoops)
    BY <1>0, NoThreadTyped, ConstantsOK DEF Launch
  <2>2. chan'.next = "intake" /\ chan'.loopCount = 0 /\ chan'.maxLoops = maxLoops
    BY <2>1 DEF WithInitialState, Channels
  <2>3. StepsLeft(chan') = 3 + 4 * OrOne(maxLoops)
    BY <2>1, <2>2, OrOneFacts DEF StepsLeft, LoopsLeft
  <2>4. RecursionLimit(maxLoops) >= 3 + 4 * OrOne(maxLoops)
    BY <2>1 DEF RecursionLimit, OrOne
  <2> QED
    BY <2>1, <2>3, <2>4 DEF FuelSuffices
<1>2. CASE Resume
  BY <1>2 DEF Resume, Launch, FuelSuffices
<1>3. CASE Intake
  <2> DEFINE c == [chan EXCEPT !.next = "planner", !.maxLoops = OrOne(chan.maxLoops)]
  <2>1. c \in Channels /\ c.next = "planner" /\ c.loopCount = chan.loopCount
        /\ c.maxLoops = OrOne(chan.maxLoops) /\ chan.next = "intake"
        /\ NodeReturns("intake", c) /\ proc # "idle"
    BY <1>0, <1>3 DEF Intake, NodeReturns, Channels, Nodes
  <2>2. LoopsLeft(c) = LoopsLeft(chan) /\ LoopsLeft(chan) \in Int
    BY <1>0, <2>1, OrOneFacts DEF LoopsLeft
  <2>3. StepsLeft(chan) = 3 + 4 * LoopsLeft(chan) /\ StepsLeft(c) = 2 + 4 * LoopsLeft(c)
    BY <2>1 DEF StepsLeft
  <2> HIDE DEF c
  <2> QED
    BY <2>1, <2>2, <2>3, FuelNode
<1>4. CASE Planner
  <2> DEFINE c == [chan EXCEPT !.next = "coder"]
  <2>1. c \in Channels /\ c.next = "coder" /\ c.loopCount = chan.loopCount
        /\ c.maxLoops = chan.maxLoops /\ chan.next = "planner"
        /\ NodeReturns("planner", c) /\ proc # "idle"
    BY <1>0, <1>4 DEF Planner, NodeReturns, Channels, Nodes
  <2>2. LoopsLeft(c) = LoopsLeft(chan) /\ LoopsLeft(chan) \in Int
    BY <1>0, <2>1 DEF LoopsLeft
  <2>3. StepsLeft(chan) = 2 + 4 * LoopsLeft(chan) /\ StepsLeft(c) = 1 + 4 * LoopsLeft(c)
    BY <2>1 DEF StepsLeft
  <2> HIDE DEF c
  <2> QED
    BY <2>1, <2>2, <2>3, FuelNode
<1>5. ASSUME NEW r \in CoderResults, NodeReturns("coder", AfterCoder(r)), proc # "idle"
      PROVE  FuelSuffices'
  <2>1. /\ chan.next = "coder" /\ AfterCoder(r) \in Channels
        /\ AfterCoder(r).next = "verifier"
        /\ AfterCoder(r).loopCount = chan.loopCount + 1
        /\ AfterCoder(r).maxLoops = chan.maxLoops
    BY <1>0, <1>5, AfterCoderFacts DEF NodeReturns
  <2>2. LoopsLeft(AfterCoder(r)) = LoopsLeft(chan) - 1 /\ LoopsLeft(chan) \in Int
    BY <1>0, <2>1 DEF LoopsLeft
  <2>3. StepsLeft(chan) = 1 + 4 * LoopsLeft(chan)
        /\ StepsLeft(AfterCoder(r)) = 4 + 4 * LoopsLeft(AfterCoder(r))
    BY <2>1 DEF StepsLeft
  <2> QED
    BY <1>5, <2>1, <2>2, <2>3, FuelNode
<1>6. CASE CoderWithoutWorker \/ WorkerMissing \/ WorkerReturns
  BY <1>5, <1>6 DEF CoderWithoutWorker, WorkerMissing, WorkerReturns, CoderResults
<1>7. CASE SpawnWorker \/ LookAtTree
  BY <1>7 DEF SpawnWorker, LookAtTree, FuelSuffices
<1>8. ASSUME NEW c \in Channels, NEW node \in {"verifier", "reviewer", "decision"},
             NodeReturns(node, c), proc # "idle",
             c.loopCount = chan.loopCount, c.maxLoops = chan.maxLoops,
             \/ node = "verifier" /\ c.next = "reviewer"
             \/ node = "reviewer" /\ c.next = "decision"
             \/ node = "decision" /\ c.next = "summary"
             \/ node = "decision" /\ c.next = "coder"
      PROVE  FuelSuffices'
  <2>1. LoopsLeft(c) = LoopsLeft(chan) /\ LoopsLeft(chan) \in Int /\ LoopsLeft(chan) >= 0
    BY <1>0, <1>8 DEF LoopsLeft, RunInv, AttemptsAccounted
  <2>2. chan.next = node
    BY <1>8 DEF NodeReturns
  <2>3. StepsLeft(c) <= StepsLeft(chan) - 1 /\ StepsLeft(c) \in Int /\ StepsLeft(chan) \in Int
    BY <1>8, <2>1, <2>2 DEF StepsLeft
  <2> QED
    BY <1>8, <2>3, FuelNode
<1>9. chan' \in Channels
  BY DEF TypeOK
<1>10. CASE Verifier
  <2>1. /\ NodeReturns("verifier", chan') /\ chan'.next = "reviewer" /\ proc # "idle"
        /\ chan'.loopCount = chan.loopCount /\ chan'.maxLoops = chan.maxLoops
    BY <1>0, <1>10 DEF Verifier, NodeReturns, Channels
  <2> QED
    BY <1>8, <1>9, <2>1
<1>11. CASE Reviewer
  <2>1. /\ NodeReturns("reviewer", chan') /\ chan'.next = "decision" /\ proc # "idle"
        /\ chan'.loopCount = chan.loopCount /\ chan'.maxLoops = chan.maxLoops
    BY <1>0, <1>11 DEF Reviewer, NodeReturns, Channels
  <2> QED
    BY <1>8, <1>9, <2>1
<1>12. CASE Decision
  <2>1. /\ NodeReturns("decision", chan') /\ chan'.next \in {"coder", "summary"}
        /\ proc # "idle"
        /\ chan'.loopCount = chan.loopCount /\ chan'.maxLoops = chan.maxLoops
    BY <1>0, <1>12 DEF Decision, NodeReturns, Channels, RouteAfterDecision
  <2> QED
    BY <1>8, <1>9, <2>1
<1>13. CASE Summary
  <2>1. /\ NodeReturns("summary", chan') /\ chan'.next = "end" /\ chan.next = "summary"
        /\ proc # "idle"
    BY <1>0, <1>13 DEF Summary, NodeReturns, Channels
  <2>2. StepsLeft(chan) = 1 /\ StepsLeft(chan') = 0
    BY <2>1 DEF StepsLeft
  <2> QED
    BY <1>9, <2>1, <2>2, FuelNode
<1>14. CASE Exit \/ Crash
  BY <1>14 DEF Exit, Crash, GoIdle, FuelSuffices
<1>15. CASE WorkerEdit \/ CommandEdit \/ CommandOverruns \/ OrphanEdit \/ OrphanExits
              \/ OperatorTouchesTree \/ UNCHANGED vars
  BY <1>15 DEF WorkerEdit, CommandEdit, CommandOverruns, OrphanEdit, OrphanExits, OperatorTouchesTree, vars, FuelSuffices
<1> QED
  BY <1>1, <1>2, <1>3, <1>4, <1>6, <1>7, <1>10, <1>11, <1>12, <1>13, <1>14, <1>15
     DEF Next, GraphStep

(* With the limits the code has, 25 and 8 per loop, no fresh run of any    *)
(* number of loops is ever cut off before its summary.                     *)
THEOREM FreshRunsHaveFuel ==
  ASSUME LimitFloor = 25, LimitPerLoop = 8
  PROVE  Spec => []FreshRunNeverExhausted
<1>1. Init => FuelSuffices
  BY DEF Init, FuelSuffices
<1>2. RunInv /\ FuelSuffices => FreshRunNeverExhausted
  <2> SUFFICES ASSUME RunInv, FuelSuffices, proc = "node", ~opts.resume, fuel = 0
               PROVE  chan.next = "end"
    BY DEF FreshRunNeverExhausted
  <2>1. StepsLeft(chan) <= 0
    BY DEF FuelSuffices
  <2>2. /\ chan.next \in Nodes \union {"end"}
        /\ chan.maxLoops \in Nat /\ chan.loopCount \in Nat
    BY DEF RunInv, TypeOK, Channels
  <2>3. OrOne(chan.maxLoops) \in Nat
    BY <2>2, OrOneFacts
  <2>4. LoopsLeft(chan) \in Int /\ LoopsLeft(chan) >= 0
    BY <2>2, <2>3 DEF LoopsLeft, RunInv, AttemptsAccounted
  <2> QED
    BY <2>1, <2>2, <2>4 DEF StepsLeft, Nodes
<1>3. RunInv => TypeOK
  BY DEF RunInv
<1> QED
  BY <1>1, <1>2, <1>3, FuelStep, TypeStep, InvAlways, PTL DEF Spec
----------------------------------------------------------------------------
(* Refinement: what VerdictGate sees of a thread, and every step's image.  *)

(* The gate sees nothing but the thread.                                   *)
LEMMA GateSeesThread ==
  ASSUME chan' = chan
  PROVE  UNCHANGED Gate!gateVars
  BY DEF Gate!gateVars, GateVerdict, GateStage

LEMMA GateForgets ==
  ASSUME chan' = NoThread
  PROVE  Gate!Forget
  BY DEF Gate!Forget, GateVerdict, GateStage, NoThread, OrOne

LEMMA GateAttempts ==
  ASSUME RunInv, NEW r \in CoderResults, NodeReturns("coder", AfterCoder(r))
  PROVE  Gate!Attempt
<1>1. chan \in Channels /\ chan.next = "coder" /\ chan' = AfterCoder(r)
  BY DEF RunInv, TypeOK, NodeReturns
<1>2. /\ chan'.next = "verifier" /\ chan'.loopCount = chan.loopCount + 1
      /\ chan'.maxLoops = chan.maxLoops
  BY <1>1, AfterCoderFacts
<1>3. chan # NoThread /\ chan' # NoThread
  BY <1>1, <1>2 DEF NoThread
<1>4. GateVerdict = "open" /\ GateVerdict' = "open" /\ GateStage = "work" /\ GateStage' = "verify"
  BY <1>1, <1>2, <1>3 DEF GateVerdict, GateStage, Concluded
<1>5. chan.loopCount < OrOne(chan.maxLoops)
  BY <1>1 DEF RunInv, AttemptsAccounted
<1> QED
  BY <1>2, <1>4, <1>5 DEF Gate!Attempt

LEMMA GateStep == RunInv /\ TypeOK' /\ [Next]_vars => [Gate!GateNext]_(Gate!gateVars)
<1> SUFFICES ASSUME RunInv, TypeOK', [Next]_vars
             PROVE  Gate!GateNext \/ UNCHANGED Gate!gateVars
  OBVIOUS
<1>0. TypeOK /\ chan \in Channels /\ chan.maxLoops \in Nat /\ chan.loopCount \in Nat
      /\ OrOne(chan.maxLoops) \in Nat
  BY OrOneFacts DEF RunInv, TypeOK, Channels
<1>1. CASE StartRun
  <2> PICK o \in Options, dryRun \in BOOLEAN, tests \in BOOLEAN,
           maxLoops \in LoopChoices, base \in {NoThread, chan}, answered \in GitAnswers :
             Launch(o, WithInitialState(base, EffectiveDryRun(o, dryRun), tests, maxLoops),
                    maxLoops, answered)
    BY <1>1 DEF StartRun
  <2>1. base \in Channels /\ maxLoops \in Nat
        /\ chan' = WithInitialState(base, EffectiveDryRun(o, dryRun), tests, maxLoops)
    BY <1>0, NoThreadTyped, ConstantsOK DEF Launch
  <2>2. chan'.next = "intake" /\ chan'.loopCount = 0 /\ chan'.maxLoops = maxLoops
    BY <2>1 DEF WithInitialState, Channels
  <2>3. chan' # NoThread
    BY <2>2 DEF NoThread
  <2>4. GateVerdict' = "open" /\ GateStage' = "work"
    BY <2>2, <2>3 DEF GateVerdict, GateStage, Concluded
  <2>5. OrOne(chan'.maxLoops) \in Nat \ {0}
    BY <2>1, <2>2, OrOneFacts
  <2> QED
    BY <2>2, <2>4, <2>5 DEF Gate!GateNext, Gate!Begin
<1>2. CASE Intake
  <2>1. /\ chan.next = "intake" /\ chan'.next = "planner"
        /\ chan'.loopCount = chan.loopCount /\ chan'.maxLoops = OrOne(chan.maxLoops)
    BY <1>0, <1>2 DEF Intake, NodeReturns, Channels
  <2>2. OrOne(chan'.maxLoops) = OrOne(chan.maxLoops)
    BY <1>0, <2>1, OrOneFacts
  <2>3. chan # NoThread /\ chan' # NoThread
    BY <2>1 DEF NoThread
  <2> QED
    BY <2>1, <2>2, <2>3 DEF Gate!gateVars, GateVerdict, GateStage, Concluded
<1>3. CASE Planner
  <2>1. /\ chan.next = "planner" /\ chan'.next = "coder"
        /\ chan'.loopCount = chan.loopCount /\ chan'.maxLoops = chan.maxLoops
    BY <1>0, <1>3 DEF Planner, NodeReturns, Channels
  <2>2. chan # NoThread /\ chan' # NoThread
    BY <2>1 DEF NoThread
  <2> QED
    BY <2>1, <2>2 DEF Gate!gateVars, GateVerdict, GateStage, Concluded
<1>4. CASE CoderWithoutWorker \/ WorkerMissing \/ WorkerReturns
  BY <1>4, GateAttempts DEF CoderWithoutWorker, WorkerMissing, WorkerReturns,
     CoderResults, Gate!GateNext
<1>5. CASE Verifier
  <2>1. /\ chan.next = "verifier" /\ chan'.next = "reviewer"
        /\ chan'.loopCount = chan.loopCount /\ chan'.maxLoops = chan.maxLoops
    BY <1>0, <1>5 DEF Verifier, NodeReturns, Channels
  <2>2. chan # NoThread /\ chan' # NoThread
    BY <2>1 DEF NoThread
  <2> QED
    BY <2>1, <2>2 DEF Gate!GateNext, Gate!Gather, GateVerdict, GateStage, Concluded
<1>6. CASE Reviewer
  <2>1. /\ chan.next = "reviewer" /\ chan'.next = "decision"
        /\ chan'.evidence = chan.evidence
        /\ chan'.loopCount = chan.loopCount /\ chan'.maxLoops = chan.maxLoops
    BY <1>0, <1>6 DEF Reviewer, NodeReturns, Channels
  <2>2. chan # NoThread /\ chan' # NoThread
    BY <2>1 DEF NoThread
  <2> QED
    BY <2>1, <2>2 DEF Gate!gateVars, GateVerdict, GateStage, Concluded
<1>7. CASE Decision
  <2> DEFINE d == Decide(chan.passed, chan.loopCount, chan.maxLoops)
  <2>1. /\ chan.next = "decision" /\ chan'.next = RouteAfterDecision(d)
        /\ chan'.decision = d /\ chan'.evidence = chan.evidence
        /\ chan'.loopCount = chan.loopCount /\ chan'.maxLoops = chan.maxLoops
    BY <1>0, <1>7 DEF Decision, NodeReturns, Channels
  <2>2. chan # NoThread /\ chan'.next \in {"coder", "summary"}
    BY <2>1 DEF NoThread, RouteAfterDecision
  <2>3. chan' # NoThread
    BY <2>2 DEF NoThread
  <2>4. GateVerdict = "open" /\ GateStage \in {"clean", "broken"}
    BY <2>1, <2>2 DEF GateVerdict, GateStage, Concluded
  <2>5. CASE d = "retry"
    <3>1. chan'.next = "coder" /\ chan.loopCount < OrOne(chan.maxLoops)
      BY <2>1, <2>5 DEF RouteAfterDecision, Decide
    <3>2. GateVerdict' = "open" /\ GateStage' = "work"
      BY <2>3, <3>1 DEF GateVerdict, GateStage, Concluded
    <3> QED
      BY <2>1, <2>4, <3>1, <3>2 DEF Gate!GateNext, Gate!Retry
  <2>6. CASE d # "retry"
    <3>1. chan'.next = "summary"
      BY <2>1, <2>6 DEF RouteAfterDecision
    <3>2. GateVerdict' = d
      BY <2>1, <2>3, <3>1 DEF GateVerdict, Concluded
    <3>3. GateStage' = GateStage
      BY <2>1, <3>1 DEF GateStage
    <3>4. \/ d = "done" /\ GateStage = "clean"
          \/ d = "ask_human" /\ chan.loopCount >= OrOne(chan.maxLoops)
      <4>1. CASE chan.passed
        BY <2>1, <4>1 DEF Decide, GateStage, RunInv, PassIsClean
      <4>2. CASE ~chan.passed
        BY <1>0, <2>6, <4>2 DEF Decide
      <4> QED
        BY <4>1, <4>2
    <3> QED
      BY <2>1, <2>4, <3>2, <3>3, <3>4 DEF Gate!GateNext, Gate!Conclude
  <2> QED
    BY <2>5, <2>6
<1>8. CASE Summary
  <2>1. /\ chan.next = "summary" /\ chan'.next = "end"
        /\ chan'.decision = chan.decision /\ chan'.evidence = chan.evidence
        /\ chan'.loopCount = chan.loopCount /\ chan'.maxLoops = chan.maxLoops
    BY <1>0, <1>8 DEF Summary, NodeReturns, Channels
  <2>2. chan # NoThread /\ chan' # NoThread
    BY <2>1 DEF NoThread
  <2> QED
    BY <2>1, <2>2 DEF Gate!gateVars, GateVerdict, GateStage, Concluded
<1>9. CASE Exit \/ Crash
  BY <1>9, GateSeesThread, GateForgets DEF Exit, Crash, GoIdle, Gate!GateNext
<1>10. CASE Resume \/ SpawnWorker \/ LookAtTree \/ CommandEdit \/ CommandOverruns \/ WorkerEdit \/ OrphanEdit \/ OrphanExits
              \/ OperatorTouchesTree \/ UNCHANGED vars
  BY <1>10, GateSeesThread DEF Resume, Launch, SpawnWorker, LookAtTree, CommandEdit,
     CommandOverruns, WorkerEdit, OrphanEdit,
     OrphanExits, OperatorTouchesTree, vars
<1> QED
  BY <1>1, <1>2, <1>3, <1>4, <1>5, <1>6, <1>7, <1>8, <1>9, <1>10 DEF Next, GraphStep

(* The graph, with its kills, resumptions and restarts, implements the     *)
(* abstract promise: bounded attempts, evidence after each, "done" only on *)
(* clean evidence and "ask_human" only when the attempts are spent.        *)
THEOREM RunImplementsGate == Spec => ImplementsGate
<1>1. Init => Gate!NotStarted
  BY DEF Init, Gate!NotStarted, GateVerdict, GateStage, NoThread, OrOne
<1> QED
  BY <1>1, GateStep, InvAlways, TypeCorrect, PTL DEF Spec, ImplementsGate, Gate!GateSpec
=============================================================================
