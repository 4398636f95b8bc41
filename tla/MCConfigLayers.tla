--------------------------- MODULE MCConfigLayers ---------------------------
(***************************************************************************)
(* Values for the constants of ConfigLayers.                               *)
(***************************************************************************)
EXTENDS ConfigLayers

CONSTANTS w

Text(worker, apply, workflow, loops) ==
  [worker |-> worker, apply |-> apply, workflow |-> workflow, max_loops |-> loops]

(* Either file may ask for edits, or opt out of what the other asks for.   *)
MCTexts == {Text("aider", TRUE, Unset, Unset), Text(Unset, FALSE, w, 2)}

MCAnswers == {Text("aider", TRUE, w, 1)}

(* 1 is also the built-in number of loops: given explicitly it still has   *)
(* to win.                                                                 *)
MCFlags ==
  {Text(worker, apply, Unset, loops) :
     worker \in {Unset, "cursor"}, apply \in BOOLEAN \union {Unset}, loops \in {Unset, 1}}
  \union {Text(Unset, Unset, w, Unset)}
=============================================================================
