------------------------- MODULE MCSessionRegistry --------------------------
(* A conversation and a subagent, or a second conversation; two requests that
   may overlap or follow one another. *)
EXTENDS SessionRegistry, TLC

CONSTANTS s1, s2, req1, req2, sonnet, llama
MCSessions == {s1, s2}
TwoRequests == {req1, req2}
MCModels == {sonnet, llama}
OneModel == {sonnet}
Symmetry == Permutations(MCSessions) \cup Permutations(TwoRequests)
  \cup Permutations(MCModels)
=============================================================================
