---------------------------- MODULE EvidenceGate ----------------------------
(***************************************************************************)
(* The judgement of one attempt, as pure operators: what the verifier      *)
(* hands over as evidence, how the reviewer turns it into a verdict, and   *)
(* how the decision node turns the verdict and the loop counters into the  *)
(* next step.  CockpitRun uses these operators inside its node actions.    *)
(*                                                                         *)
(* The issues, risk level, suggested fix and notes of a review are         *)
(* abstracted: no later node reads them, only "passed" steers the graph.   *)
(***************************************************************************)
EXTENDS Naturals

(* How the list of command results reads to the reviewer: empty, every     *)
(* exit code zero, or at least one non-zero (124 for a timeout and 127 for *)
(* a missing shell included).                                              *)
CommandOutcomes == {"none", "pass", "fail"}

(* What git_diff can hold: nothing, a diff, or the sentence that says git  *)
(* diff failed.                                                            *)
DiffTexts == {"empty", "changes", "failure"}

(* A verification_result: git_diff and the command results.  NoEvidence    *)
(* stands for a channel no verifier has written yet.                       *)
Evidence == [diff : DiffTexts, commands : CommandOutcomes]
NoEvidence == [diff |-> "empty", commands |-> "missing"]

(* What coder_result tells the reviewer: unset, the stub's fixed opening   *)
(* words, a preview, or anything else a worker wrote about itself.         *)
CoderResults == {"unset", "stub", "preview", "report"}

(* int(x or 1): a max_loops of zero counts as one, at intake and again in  *)
(* the decision node.                                                      *)
OrOne(n) == IF n = 0 THEN 1 ELSE n

(* Fault: the rules forget that nothing was there to judge.                *)
ReviewWithoutSubstance(evidence, dryRun, coderResult) ==
  evidence # NoEvidence /\ evidence.commands # "fail"

(* The rule-based review: no failed command, and either something to judge *)
(* or a stub or dry run, of which nothing is expected.  Any text that is   *)
(* not blank counts as a diff.                                             *)
DeterministicReview(evidence, dryRun, coderResult) ==
  /\ evidence # NoEvidence
  /\ evidence.commands # "fail"
  /\ \/ evidence.diff # "empty"
     \/ evidence.commands # "none"
     \/ dryRun
     \/ coderResult = "stub"

(* Fault: the verdict is taken as the reviewer gave it.                    *)
TrustReviewer(passed, evidence) == passed

(* The floor under every verdict: a failed command can not pass.           *)
EnforceHardRules(passed, evidence) == passed /\ evidence.commands # "fail"

(* The values review_result.passed may take.  A model's answer can be      *)
(* either; an exception, a reply that is not JSON or a malformed issues    *)
(* list falls back on the rules.                                           *)
Reviews(llm, evidence, dryRun, coderResult) ==
  LET verdicts == (IF llm THEN BOOLEAN ELSE {})
                    \union {DeterministicReview(evidence, dryRun, coderResult)}
  IN {EnforceHardRules(v, evidence) : v \in verdicts}

Decisions == {"unset", "done", "retry", "ask_human"}

(* Fault: one loop more than max_loops.                                    *)
DecideOneMore(passed, loopCount, maxLoops) ==
  IF passed THEN "done"
  ELSE IF loopCount <= OrOne(maxLoops) THEN "retry" ELSE "ask_human"

(* Fault: the Decision literal the state allows and no node ever handles.  *)
DecideStop(passed, loopCount, maxLoops) ==
  IF passed THEN "done"
  ELSE IF loopCount < OrOne(maxLoops) THEN "retry" ELSE "stop"

(* done on a passing review, whatever the counters; otherwise retry while  *)
(* the loop count is below the limit, and then hand over to a human.       *)
Decide(passed, loopCount, maxLoops) ==
  IF passed THEN "done"
  ELSE IF loopCount < OrOne(maxLoops) THEN "retry" ELSE "ask_human"

RouteAfterDecision(decision) == IF decision = "retry" THEN "coder" ELSE "summary"
=============================================================================
