---------------------------- MODULE MCAgentBuilder -----------------------------
(* Instances of AgentBuilder for TLC.                                      *)
EXTENDS AgentBuilder, TLC

CONSTANTS ready, other, unclear, k1

\* Two configurations that can be committed and leave a list empty, one that the
\* language model asks to clarify.
Verdicts == (ready :> "complete") @@ (other :> "complete") @@ (unclear :> "clarify")
Suggestions == [g \in Configs |->
  [l \in Tables |-> IF l = "criteria" THEN {} ELSE {k1}]]
Templates == [l \in TemplateTables |-> IF l = "stages" THEN {k1} ELSE {}]

Symmetry == Permutations(Commits) \union Permutations({ready, other})
==============================================================================
