-------------------------- MODULE MCSubagentBatch ---------------------------
(***************************************************************************)
(* Two parents, a call of two units and a call of one, one capped and one  *)
(* uncapped provider.  The caps in the .cfg files make the units of a      *)
(* batch wait for each other and for the other parent.                     *)
(***************************************************************************)
EXTENDS SubagentBatch

CONSTANTS p1, p2, c1, c2, t1, t2, t3, ollama, hosted,
          llama, claude, fuzzy   \* "ollama/llama", "hosted/claude", "llama"

MCParents == {p1, p2}
MCProviders == {ollama, hosted}
MCCapped == {ollama}
MCProviderCap == [v \in {ollama} |-> 1]
MCCalls == {c1, c2}
MCParentOf == [c \in MCCalls |-> IF c = c1 THEN p1 ELSE p2]
MCTasks == {t1, t2, t3}
MCCallOf == [t \in MCTasks |-> IF t = t3 THEN c2 ELSE c1]
MCRefs == {llama, claude, fuzzy}
MCCanonical == {llama, claude}
OneModel == {llama}
OnHosted == {claude}
MCNamed == [r \in MCRefs |-> CASE r = llama -> ollama [] r = claude -> hosted
                               [] r = fuzzy -> NoProvider]
MCResolves == [r \in MCRefs |-> IF r = claude THEN hosted ELSE ollama]
MCOverride == [c \in MCCalls |-> IF c = c2 THEN fuzzy ELSE NoRef]
MCPreset == [t \in MCTasks |-> NoRef]
AllOnLlama == [t \in MCTasks |-> llama]
NoOverride == [c \in MCCalls |-> NoRef]
=============================================================================
