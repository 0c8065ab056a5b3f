------------------------- MODULE MCSubagentLimiter --------------------------
(***************************************************************************)
(* Two parents, one capped and one uncapped provider, and one more         *)
(* admission than any cap allows at once.                                  *)
(***************************************************************************)
EXTENDS SubagentLimiter

CONSTANTS s1, s2, s3, s4, p1, p2, ollama, hosted

MCSlots == {s1, s2, s3, s4}
MCParents == {p1, p2}
MCProviders == {ollama, hosted}
MCCapped == {ollama}
MCProviderCap == [v \in {ollama} |-> 1]
MCDepths == {1, 2}
=============================================================================
