-------------------------- MODULE SubagentLimiter ---------------------------
(***************************************************************************)
(* The limiter of runtime/src/subagent-limits.ts: three counters that      *)
(* `admit` compares with their caps and raises, and the release closure    *)
(* that each admission hands out lowers.  Every operation is synchronous   *)
(* JavaScript, so each is one step.                                        *)
(*                                                                         *)
(* The code keeps perParent and perProvider as Maps that never store a     *)
(* count below 1 (release deletes the key instead).  Here they are total   *)
(* functions in which 0 stands for an absent key.                          *)
(***************************************************************************)
EXTENDS Integers, FiniteSets

CONSTANTS
  Slots, Parents, Providers, NoProvider,
  Global, PerParent, MaxDepth,   \* caps of SubagentLimits
  Capped, ProviderCap,           \* the perProvider map of SubagentLimits
  Depths                         \* depths a caller may pass to admit

\* What limitsFromEnv and parseProviderLimits can return: a provider's cap is
\* positive, the other limits may be zero.
LegalLimits ==
  /\ Global \in Nat /\ PerParent \in Nat /\ MaxDepth \in Nat
  /\ Capped \subseteq Providers
  /\ ProviderCap \in [Capped -> Nat \ {0}]

ASSUME LimitsAssumption ==
  /\ LegalLimits
  /\ NoProvider \notin Providers
  /\ Depths \subseteq Nat

VARIABLES
  total,        \* #total
  perParent,    \* #perParent
  perProvider,  \* #perProvider
  issued,       \* what the release closures captured: one grant each
  released      \* slots whose closure has its `released` flag up

vars == <<total, perParent, perProvider, issued, released>>

Grant == [slot : Slots, parent : Parents, provider : Providers \cup {NoProvider}]

\* The slots that are out: handed out and not given back.
Held == {g \in issued : g.slot \notin released}
HeldBy(p) == {g \in Held : g.parent = p}
ChargedTo(v) == {g \in Held : g.provider = v}

Init ==
  /\ total = 0
  /\ perParent = [p \in Parents |-> 0]
  /\ perProvider = [v \in Providers |-> 0]
  /\ issued = {}
  /\ released = {}

-----------------------------------------------------------------------------
RefusedWithoutProvider(p, depth, v) ==
  depth > MaxDepth \/ total >= Global \/ perParent[p] >= PerParent

\* admit's early returns.  Which of them fires first only words the reason.
Refused(p, depth, v) ==
  \/ depth > MaxDepth
  \/ total >= Global
  \/ v \in Capped /\ perProvider[v] >= ProviderCap[v]
  \/ perParent[p] >= PerParent

Admit(s, p, depth, v) ==
  /\ \A g \in issued : g.slot # s
  /\ ~Refused(p, depth, v)
  /\ total' = total + 1
  /\ perParent' = [perParent EXCEPT ![p] = @ + 1]
  /\ perProvider' = IF v = NoProvider THEN perProvider
                    ELSE [perProvider EXCEPT ![v] = @ + 1]
  /\ issued' = issued \cup {[slot |-> s, parent |-> p, provider |-> v]}
  /\ UNCHANGED released

\* `(map.get(k) ?? 1) - 1`, the key deleted when nothing is left.
Lowered(count) == IF count <= 1 THEN 0 ELSE count - 1

\* What a release closure does to the counters it captured.
Lower(g) ==
  /\ released' = released \cup {g.slot}
  /\ total' = IF total = 0 THEN 0 ELSE total - 1
  /\ perParent' = [perParent EXCEPT ![g.parent] = Lowered(@)]
  /\ perProvider' = IF g.provider = NoProvider THEN perProvider
                    ELSE [perProvider EXCEPT ![g.provider] = Lowered(@)]
  /\ UNCHANGED issued

\* Mutants of Release: no `released` flag; no flag and no Math.max(0, ..); the
\* provider's count never lowered.
ReleaseNotIdempotent(s) == \E g \in issued : g.slot = s /\ Lower(g)

ReleaseUnclamped(s) ==
  \E g \in issued :
    /\ g.slot = s
    /\ released' = released \cup {s}
    /\ total' = total - 1
    /\ UNCHANGED <<issued, perParent, perProvider>>

\* Calling the closure of slot s.  A second call returns early: no step.
Release(s) == \E g \in issued : g.slot = s /\ s \notin released /\ Lower(g)

Next ==
  \E s \in Slots :
    \/ \E p \in Parents, d \in Depths, v \in Providers \cup {NoProvider} :
         Admit(s, p, d, v)
    \/ Release(s)

Spec == Init /\ [][Next]_vars

-----------------------------------------------------------------------------
TypeOK ==
  /\ total \in Nat
  /\ perParent \in [Parents -> Nat]
  /\ perProvider \in [Providers -> Nat]
  /\ issued \subseteq Grant
  /\ released \subseteq {g.slot : g \in issued}

\* The counters are exactly the slots that are out, per process, per parent and
\* per provider: a closure that runs twice, or releases in any order, leaves
\* no count behind and takes none from another parent.
CountersExact ==
  /\ total = Cardinality(Held)
  /\ \A p \in Parents : perParent[p] = Cardinality(HeldBy(p))
  /\ \A v \in Providers : perProvider[v] = Cardinality(ChargedTo(v))

\* The caps hold of the slots themselves, not just of the counters: however
\* admissions and (repeated) releases interleave, no cap is ever exceeded.
CapsHold ==
  /\ Cardinality(Held) <= Global
  /\ \A p \in Parents : Cardinality(HeldBy(p)) <= PerParent
  /\ \A v \in Capped : Cardinality(ChargedTo(v)) <= ProviderCap[v]

\* "slots leak and spawning wedges shut" (line 116) never happens by the
\* limiter's own doing: a refusal at a legal depth always has a genuinely full
\* cap behind it, held by slots that are still out.
RefusalsAreGenuine ==
  \A p \in Parents, d \in Depths, v \in Providers \cup {NoProvider} :
    (d <= MaxDepth /\ Refused(p, d, v)) =>
      \/ Cardinality(Held) >= Global
      \/ Cardinality(HeldBy(p)) >= PerParent
      \/ v \in Capped /\ Cardinality(ChargedTo(v)) >= ProviderCap[v]

\* The limiter implements the pool: counters and closures forgotten.
Pool == INSTANCE SlotPool WITH held <- Held
ImplementsPool == Pool!Spec
=============================================================================
