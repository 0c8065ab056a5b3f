------------------------------ MODULE SlotPool ------------------------------
(***************************************************************************)
(* What the subagent limiter promises, with no counters in it: a pool of   *)
(* concurrency slots, each held by one parent session and charged to one   *)
(* provider, of which at most Global are out at a time, at most PerParent  *)
(* of them to one parent and at most ProviderCap[v] to one capped          *)
(* provider.  The promise is the comment on SubagentLimits                 *)
(* (subagent-limits.ts:20-39).                                             *)
(***************************************************************************)
EXTENDS Integers, FiniteSets

CONSTANTS
  Slots,        \* identities of admissions: one per call that is let in
  Parents,      \* parent sessions
  Providers,    \* model providers
  NoProvider,   \* the admission names no provider
  Global,       \* cap over the whole process
  PerParent,    \* cap for one parent session
  Capped,       \* the providers the operator configured a cap for
  ProviderCap   \* ... and the caps, a function on Capped

VARIABLE held   \* the slots that are out

Grant == [slot : Slots, parent : Parents, provider : Providers \cup {NoProvider}]

HeldBy(p) == {g \in held : g.parent = p}
ChargedTo(v) == {g \in held : g.provider = v}

Init == held = {}

Take(s, p, v) ==
  /\ \A g \in held : g.slot # s
  /\ Cardinality(held) < Global
  /\ Cardinality(HeldBy(p)) < PerParent
  /\ v \in Capped => Cardinality(ChargedTo(v)) < ProviderCap[v]
  /\ held' = held \cup {[slot |-> s, parent |-> p, provider |-> v]}

GiveBack(s) ==
  /\ \E g \in held : g.slot = s
  /\ held' = {g \in held : g.slot # s}

Next ==
  \E s \in Slots :
    \/ \E p \in Parents, v \in Providers \cup {NoProvider} : Take(s, p, v)
    \/ GiveBack(s)

Spec == Init /\ [][Next]_held
=============================================================================
