----------------------------- MODULE PlanSchema -----------------------------
(***************************************************************************)
(* A plan artifact and the three judgements the code passes on it: the     *)
(* planner's own check of a draft (PlanDraft.validate), the schema of the  *)
(* loader (parse_plan), and, against the markers in git log, which slice   *)
(* is next (plans list) and which slices may run (check_dependencies).     *)
(*                                                                         *)
(* Texts are abstracted to whether they are there: "guarded" stands for a  *)
(* slice with a scope_out and budgets in range, which both checks demand,  *)
(* "filled" for a title, why, scope_must and dod, of which only the loader *)
(* knows.  Only the number of acceptance criteria is kept.  Field types,   *)
(* created_at and schema_version, which the planner itself fills in, and   *)
(* an empty idea, are abstracted.                                          *)
(***************************************************************************)
EXTENDS Naturals, Sequences

CONSTANTS
  PlanIds,   \* slugs: plan ids, and names of plan files
  BadId,     \* a plan id that is no slug
  SliceIds,  \* slice ids
  NoCap      \* no --max-slices given

ASSUME PlanConstants ==
  /\ BadId \notin PlanIds
  /\ NoCap \notin Nat

Slices == [id : SliceIds, deps : SUBSET SliceIds, guarded : BOOLEAN, filled : BOOLEAN]

PlanTexts == [plan : PlanIds \union {BadId}, criteria : Nat, slices : Seq(Slices)]

IdsBefore(d, i) == {d.slices[j].id : j \in 1 .. i - 1}

(* Fault: a slice may depend on any slice of the plan.                     *)
OrderForgotten(d) ==
  \A i \in DOMAIN d.slices :
    /\ d.slices[i].id \notin IdsBefore(d, i)
    /\ d.slices[i].deps \subseteq {d.slices[j].id : j \in DOMAIN d.slices}

(* Slice ids are unique and a slice depends on earlier slices only: this   *)
(* loop is the same in both checks.                                        *)
WellOrdered(d) ==
  \A i \in DOMAIN d.slices :
    /\ d.slices[i].id \notin IdsBefore(d, i)
    /\ d.slices[i].deps \subseteq IdsBefore(d, i)

(* PlanDraft.validate, with its --max-slices.                              *)
DraftValid(d, cap) ==
  /\ d.plan \in PlanIds
  /\ d.criteria > 0
  /\ d.slices # <<>>
  /\ cap # NoCap => Len(d.slices) <= cap
  /\ WellOrdered(d)
  /\ \A i \in DOMAIN d.slices : d.slices[i].guarded

(* What load_plan demands of a file's contents.                            *)
Loads(d) ==
  /\ d.plan \in PlanIds
  /\ d.criteria \in 1 .. 10
  /\ d.slices # <<>>
  /\ WellOrdered(d)
  /\ \A i \in DOMAIN d.slices : d.slices[i].guarded /\ d.slices[i].filled

(* Slice i is the one `plans list` calls next, given the slices of this    *)
(* plan id that have a marker: the first without one.                      *)
IsNextUndone(d, done, i) ==
  /\ i \in DOMAIN d.slices
  /\ d.slices[i].id \notin done
  /\ IdsBefore(d, i) \subseteq done

(* Fault: any marker of the plan will do.                                  *)
AnyMarkerMet(found, deps) == deps = {} \/ found # {}

(* check_dependencies: every dependency has its marker.                    *)
DependenciesMet(found, deps) == deps \subseteq found
=============================================================================
