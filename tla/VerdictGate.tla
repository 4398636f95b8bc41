----------------------------- MODULE VerdictGate -----------------------------
(***************************************************************************)
(* What a run promises, without its nodes: a bounded number of attempts,   *)
(* evidence gathered after every attempt, "done" only on evidence that     *)
(* shows no failed command, "ask_human" only when the attempts are spent,  *)
(* and no step of any kind after the verdict except a fresh run.           *)
(* CockpitRun implements this specification.                               *)
(***************************************************************************)
EXTENDS Naturals

VARIABLES
  verdict,   \* "none" before a run, "open" during one, "done" or "ask_human"
  limit,     \* attempts granted to the run
  attempts,  \* attempts made
  stage      \* "work", "verify" (evidence is due), "clean" or "broken"

gateVars == <<verdict, limit, attempts, stage>>

NotStarted ==
  verdict = "none" /\ limit = 1 /\ attempts = 0 /\ stage = "work"

Begin ==
  /\ verdict' = "open"
  /\ limit' \in Nat \ {0}
  /\ attempts' = 0
  /\ stage' = "work"

Attempt ==
  /\ verdict = "open" /\ stage = "work" /\ attempts < limit
  /\ attempts' = attempts + 1
  /\ stage' = "verify"
  /\ UNCHANGED <<verdict, limit>>

Gather ==
  /\ verdict = "open" /\ stage = "verify"
  /\ stage' \in {"clean", "broken"}
  /\ UNCHANGED <<verdict, limit, attempts>>

Retry ==
  /\ verdict = "open" /\ stage \in {"clean", "broken"} /\ attempts < limit
  /\ stage' = "work"
  /\ UNCHANGED <<verdict, limit, attempts>>

Conclude ==
  /\ verdict = "open"
  /\ \/ stage = "clean" /\ verdict' = "done"
     \/ stage \in {"clean", "broken"} /\ attempts >= limit /\ verdict' = "ask_human"
  /\ UNCHANGED <<limit, attempts, stage>>

(* A run without checkpoints leaves nothing behind, whatever it reached.   *)
Forget ==
  verdict' = "none" /\ limit' = 1 /\ attempts' = 0 /\ stage' = "work"

GateNext == Begin \/ Attempt \/ Gather \/ Retry \/ Conclude \/ Forget

GateSpec == NotStarted /\ [][GateNext]_gateVars
=============================================================================
