----------------------------- MODULE MCPlanRuns -----------------------------
(* PlanRuns with a handful of plan texts, each there for one distinction.  *)
EXTENDS PlanRuns, TLC

CONSTANTS p, q, s1, s2, s3

Slice(id, deps) == [id |-> id, deps |-> deps, guarded |-> TRUE, filled |-> TRUE]

Text(id, criteria, slices) == [plan |-> id, criteria |-> criteria, slices |-> slices]

Chain(id) == Text(id, 1, <<Slice(s1, {}), Slice(s2, {s1}), Slice(s3, {s2})>>)
Swapped(id) == Text(id, 1, <<Slice(s2, {}), Slice(s1, {s2})>>)
Forward(id) == Text(id, 1, <<Slice(s1, {s2}), Slice(s2, {})>>)
Hollow(id) == Text(id, 1, <<[Slice(s1, {}) EXCEPT !.filled = FALSE]>>)
Wordy(id) == Text(id, 11, <<Slice(s1, {})>>)

(* One plan that loads and one that must not; the fixture is a third.      *)
MCTexts == {Chain(p), Forward(p)}

(* Two plans of two slices.                                                *)
MCPlainTexts == {Swapped(p), Swapped(q)}

(* Texts the planner and the loader do not agree about.                    *)
MCDraftTexts == {Swapped(p), Hollow(p), Wordy(p), Forward(p)}

(* Planner sessions differ in nothing but their names. *)
Interchangeable == Permutations(Planners)
=============================================================================
