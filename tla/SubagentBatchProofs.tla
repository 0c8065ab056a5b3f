------------------------ MODULE SubagentBatchProofs -------------------------
(***************************************************************************)
(* The spawn_subagent tool, for any parents, calls, units, models and      *)
(* caps.  None of its invariants is inductive: that a slot is given back   *)
(* exactly once, and that nothing outlives the call, rests on where each   *)
(* unit is in runOne, so the strengthening says, for every unit, what its  *)
(* place implies for its outcome, its child and its slot (Lifecycle), and  *)
(* for every call, where its units are (CallAndUnits).  The caps are not   *)
(* proved again: the tool is shown to use the limiter as its specification *)
(* says, and what holds of every behaviour of the limiter holds of it.     *)
(*                                                                         *)
(* Then the bundle of the workspace that a subagent, like any session, is  *)
(* built from (WorkspaceConfig): staleness is exact, prompts can be read,  *)
(* syncs write what has changed, subagents get one preset.  A suspended    *)
(* request acts on the rows it synced, so the strengthening says that      *)
(* these are still the last ones or that it has noted an overlap.          *)
(***************************************************************************)
EXTENDS SubagentBatch, WorkspaceConfig, WellFoundedInduction, TLAPS

\* The unit was admitted at some time.
WasAdmitted(t) == \E g \in issued : g.slot = t

\* What a unit's place in runOne implies.
Waits(t) ==
  pc[t] \in {"idle", "fresh", "acquiring"} =>
    outcome[t] = "none" /\ child[t] = "none" /\ ~WasAdmitted(t)
Spawns(t) == pc[t] = "spawning" => outcome[t] = "none" /\ child[t] = "none"
Runs(t) == pc[t] = "running" => outcome[t] = "none" /\ child[t] \in {"starting", "streaming"}
Winds(t) ==
  pc[t] \in {"settled", "evicting"} =>
    /\ outcome[t] \in {"ok", "failed"} /\ child[t] \in {"starting", "streaming", "ended"}
    /\ outcome[t] = "ok" => child[t] = "ended"
IsDone(t) ==
  pc[t] = "done" =>
    /\ outcome[t] # "none" /\ child[t] \in {"none", "disposed", "left"}
    /\ outcome[t] = "ok" => child[t] # "none"
    /\ outcome[t] = "notStarted" => child[t] = "none" /\ ~WasAdmitted(t)
HasSlot(t) == t \in Admitted => WasAdmitted(t) /\ t \notin released
GaveBack(t) == pc[t] \in {"evicting", "done"} /\ WasAdmitted(t) => t \in released

Lifecycle(t) ==
  Waits(t) /\ Spawns(t) /\ Runs(t) /\ Winds(t) /\ IsDone(t) /\ HasSlot(t) /\ GaveBack(t)

\* Where the units of a call are that has not begun, and of one that is over.
CallAndUnits(c) ==
  \A t \in TasksOf(c) :
    /\ phase[c] = "idle" => pc[t] = "idle"
    /\ phase[c] \in {"returned", "threw"} => pc[t] = "done"

\* Every slot is charged to the parent of the unit it went to.
ChargedRight == \A g \in issued : g.parent = Parent(g.slot)

IInv ==
  /\ TypeOK /\ ChargedRight
  /\ \A t \in Tasks : Lifecycle(t)
  /\ \A c \in Calls : CallAndUnits(c)

-----------------------------------------------------------------------------
(* Types *)

\* What the assumption says of the model a call asks for.
LEMMA AskedType ==
  ASSUME TypeOK, NEW c \in Calls
  PROVE  Named[Or(Override[c], model[ParentOf[c]])] \in Providers \cup {NoProvider}
BY BatchAssumption DEF TypeOK, Or

\* And of the model a unit's child gets.
LEMMA RunsOnType ==
  ASSUME TypeOK, NEW t \in Tasks
  PROVE  Resolves[Or(Override[CallOf[t]], Or(Preset[t], model[Parent(t)]))] \in Providers
<1>1. CallOf[t] \in Calls /\ Parent(t) \in Parents
  BY BatchAssumption DEF Parent
<1>2. model[Parent(t)] \in Refs /\ model[Parent(t)] # NoRef
  BY <1>1, BatchAssumption DEF TypeOK
<1>3. Or(Override[CallOf[t]], Or(Preset[t], model[Parent(t)])) \in Refs
  BY <1>1, <1>2, BatchAssumption DEF Or
<1> QED
  BY <1>3, BatchAssumption

\* The limiter's own types, over an admission and over a release.
LEMMA AdmitTypes ==
  ASSUME L!TypeOK, NEW t \in Tasks, NEW p \in Parents,
         NEW v \in Providers \cup {NoProvider}, L!Admit(t, p, 1, v)
  PROVE  L!TypeOK'
<1>1. total' \in Nat /\ perParent' \in [Parents -> Nat]
  BY DEF L!TypeOK, L!Admit
<1>2. perProvider' \in [Providers -> Nat]
  BY DEF L!TypeOK, L!Admit
<1>3. issued' \subseteq L!Grant
  BY DEF L!TypeOK, L!Admit, L!Grant
<1>4. released' \subseteq {g.slot : g \in issued'}
  BY DEF L!TypeOK, L!Admit
<1> QED
  BY <1>1, <1>2, <1>3, <1>4 DEF L!TypeOK

LEMMA ReleaseTypes ==
  ASSUME L!TypeOK, NEW t \in Tasks, L!Release(t)
  PROVE  L!TypeOK'
<1>1. PICK g \in issued : g.slot = t /\ t \notin released /\ L!Lower(g)
  BY DEF L!Release
<1>2. g.parent \in Parents /\ g.provider \in Providers \cup {NoProvider}
  BY <1>1 DEF L!TypeOK, L!Grant
<1>3. \A n \in Nat : L!Lowered(n) \in Nat
  BY DEF L!Lowered
<1>4. total' \in Nat /\ perParent' \in [Parents -> Nat]
  BY <1>1, <1>2, <1>3 DEF L!TypeOK, L!Lower
<1>5. perProvider' \in [Providers -> Nat]
  BY <1>1, <1>2, <1>3 DEF L!TypeOK, L!Lower
<1>6. issued' \subseteq L!Grant /\ released' \subseteq {h.slot : h \in issued'}
  BY <1>1 DEF L!TypeOK, L!Lower
<1> QED
  BY <1>4, <1>5, <1>6 DEF L!TypeOK

\* A step of the limiter or none preserves the limiter's types.
LEMMA LimiterKept ==
  ASSUME L!TypeOK, UNCHANGED limiter
  PROVE  L!TypeOK'
BY DEF L!TypeOK, L!Grant, limiter

LEMMA TypeStep ==
  ASSUME TypeOK, [Next]_vars
  PROVE  TypeOK'
<1> USE DEF batch, units
<1>0. L!TypeOK
  BY DEF TypeOK
<1>1. ASSUME NEW c \in Calls, Execute(c) PROVE TypeOK'
  <2>1. Named[Or(Override[c], model[ParentOf[c]])] \in Providers \cup {NoProvider}
    BY AskedType
  <2> QED
    BY <1>1, <2>1, <1>0, LimiterKept DEF Execute, TypeOK
<1>2. ASSUME NEW c \in Calls, Return(c) PROVE TypeOK'
  BY <1>2, <1>0, LimiterKept DEF Return, TypeOK
<1>3. ASSUME NEW p \in Parents, Abort(p) PROVE TypeOK'
  BY <1>3, <1>0, LimiterKept DEF Abort, TypeOK
<1>4. ASSUME NEW p \in Parents, NEW m \in Canonical, SetModel(p, m) PROVE TypeOK'
  BY <1>4, <1>0, LimiterKept DEF SetModel, TypeOK
<1>5. ASSUME NEW t \in Tasks, Acquire(t) PROVE TypeOK'
  <2>1. Parent(t) \in Parents /\ asked[CallOf[t]] \in Providers \cup {NoProvider}
    BY BatchAssumption DEF Parent, TypeOK
  <2>2. L!TypeOK'
    BY <1>5, <1>0, <2>1, AdmitTypes DEF Acquire
  <2>3. Resolves[Or(Override[CallOf[t]], Or(Preset[t], model[Parent(t)]))] \in Providers
    BY RunsOnType
  <2> QED
    BY <1>5, <2>2, <2>3 DEF Acquire, TypeOK
<1>6. ASSUME NEW t \in Tasks, Wait(t) \/ GiveUp(t) \/ Spawn(t) PROVE TypeOK'
  BY <1>6, <1>0, LimiterKept DEF Wait, GiveUp, Spawn, TypeOK
<1>7. ASSUME NEW t \in Tasks, SpawnFails(t) \/ Finally(t) PROVE TypeOK'
  <2>1. L!TypeOK'
    BY <1>7, <1>0, ReleaseTypes DEF SpawnFails, Finally
  <2> QED
    BY <1>7, <2>1 DEF SpawnFails, Finally, TypeOK
<1>8. ASSUME NEW t \in Tasks,
             PromptAccepted(t) \/ PromptRejected(t) \/ ChildEnds(t) \/ StopSubagent(t)
             \/ Timeout(t) \/ Evicted(t) \/ EvictFails(t)
      PROVE  TypeOK'
  BY <1>8, <1>0, LimiterKept
     DEF PromptAccepted, PromptRejected, ChildEnds, StopSubagent, Timeout, Evicted, EvictFails, Finish,
         TypeOK
<1>9. CASE UNCHANGED vars
  BY <1>9, <1>0, LimiterKept DEF vars, TypeOK
<1> QED
  BY <1>1, <1>2, <1>3, <1>4, <1>5, <1>6, <1>7, <1>8, <1>9 DEF Next

-----------------------------------------------------------------------------
(* The units *)

\* What an admission and a release change of a unit's slot.
LEMMA SlotAfterAdmit ==
  ASSUME NEW t \in Tasks, NEW p, NEW v, L!Admit(t, p, 1, v)
  PROVE  /\ ~WasAdmitted(t) /\ WasAdmitted(t)'
         /\ \A u \in Tasks : u # t => (WasAdmitted(u)' <=> WasAdmitted(u))
         /\ released' = released
<1> DEFINE new == [slot |-> t, parent |-> p, provider |-> v]
<1>1. new.slot = t /\ issued' = issued \cup {new} /\ released' = released
  BY DEF L!Admit
<1>2. ~WasAdmitted(t)
  BY DEF L!Admit, WasAdmitted
<1>3. WasAdmitted(t)'
  BY <1>1 DEF WasAdmitted
<1>4. ASSUME NEW u \in Tasks, u # t PROVE WasAdmitted(u)' <=> WasAdmitted(u)
  BY <1>1, <1>4 DEF WasAdmitted
<1> QED
  BY <1>1, <1>2, <1>3, <1>4

LEMMA SlotAfterRelease ==
  ASSUME NEW t \in Tasks, L!Release(t)
  PROVE  /\ issued' = issued /\ released' = released \cup {t}
         /\ \A u \in Tasks : WasAdmitted(u)' <=> WasAdmitted(u)
BY DEF L!Release, L!Lower, WasAdmitted

\* A unit of which nothing has changed is as it was.
LEMMA SameUnit ==
  ASSUME NEW t \in Tasks, Lifecycle(t),
         pc'[t] = pc[t], outcome'[t] = outcome[t], child'[t] = child[t],
         WasAdmitted(t)' <=> WasAdmitted(t), t \in released' <=> t \in released
  PROVE  Lifecycle(t)'
BY DEF Lifecycle, Waits, Spawns, Runs, Winds, IsDone, HasSlot, GaveBack, Admitted

\* One step takes one unit through runOne: what it has to show of it.
LEMMA OneUnit ==
  ASSUME TypeOK, \A u \in Tasks : Lifecycle(u), NEW t \in Tasks, Lifecycle(t)',
         NEW x, NEW y, NEW z,
         pc' = [pc EXCEPT ![t] = x], outcome' = [outcome EXCEPT ![t] = y],
         child' = [child EXCEPT ![t] = z],
         \A u \in Tasks : u # t => (WasAdmitted(u)' <=> WasAdmitted(u))
                                   /\ (u \in released' <=> u \in released)
  PROVE  \A u \in Tasks : Lifecycle(u)'
<1> SUFFICES ASSUME NEW u \in Tasks, u # t PROVE Lifecycle(u)'
  OBVIOUS
<1>1. pc'[u] = pc[u] /\ outcome'[u] = outcome[u] /\ child'[u] = child[u]
  BY DEF TypeOK
<1> QED
  BY <1>1, SameUnit

\* The steps of runOne and of its child take every unit on.
LEMMA LifecycleStep ==
  ASSUME IInv, NEW t \in Tasks,
         \/ Acquire(t) \/ Wait(t) \/ GiveUp(t) \/ Spawn(t) \/ SpawnFails(t)
         \/ PromptAccepted(t) \/ PromptRejected(t) \/ ChildEnds(t) \/ StopSubagent(t)
         \/ Timeout(t) \/ Finally(t) \/ Evicted(t) \/ EvictFails(t)
  PROVE  \A u \in Tasks : Lifecycle(u)'
<1> USE DEF limiter, batch, units
<1>0. TypeOK /\ Lifecycle(t) /\ \A u \in Tasks : Lifecycle(u)
  BY DEF IInv
<1>a. pc \in [Tasks -> {"idle", "fresh", "acquiring", "spawning", "running", "settled",
                        "evicting", "done"}]
      /\ outcome \in [Tasks -> {"none", "notStarted", "ok", "failed"}]
      /\ child \in [Tasks -> {"none", "starting", "streaming", "ended", "disposed", "left"}]
  BY <1>0 DEF TypeOK
<1>b. outcome = [outcome EXCEPT ![t] = outcome[t]] /\ child = [child EXCEPT ![t] = child[t]]
      /\ pc = [pc EXCEPT ![t] = pc[t]]
  BY <1>a
<1> DEFINE Same == /\ \A u \in Tasks : WasAdmitted(u)' <=> WasAdmitted(u)
                   /\ released' = released
<1>c. UNCHANGED limiter => Same
  BY DEF WasAdmitted
<1> HIDE DEF Same
<1> USE DEF Lifecycle, Waits, Spawns, Runs, Winds, IsDone, HasSlot, GaveBack, Admitted
<1>1. CASE Acquire(t)
  <2>1. /\ ~WasAdmitted(t) /\ WasAdmitted(t)'
        /\ \A u \in Tasks : u # t => (WasAdmitted(u)' <=> WasAdmitted(u))
        /\ released' = released
    BY <1>1, SlotAfterAdmit DEF Acquire
  <2>2. t \notin released
    BY <2>1, <1>0 DEF TypeOK, L!TypeOK, WasAdmitted
  <2>3. Lifecycle(t)'
    BY <1>1, <1>0, <1>a, <2>1, <2>2 DEF Acquire
  <2> QED
    BY <1>1, <1>0, <1>b, <2>1, <2>3, OneUnit DEF Acquire
<1>2. CASE Wait(t)
  <2>1. Same /\ Lifecycle(t)'
    BY <1>2, <1>0, <1>a, <1>c DEF Wait, Same
  <2> QED
    BY <1>2, <1>0, <1>b, <2>1, OneUnit DEF Wait, Same
<1>3. CASE GiveUp(t)
  <2>1. Same /\ Lifecycle(t)'
    BY <1>3, <1>0, <1>a, <1>c DEF GiveUp, Same
  <2> QED
    BY <1>3, <1>0, <1>b, <2>1, OneUnit DEF GiveUp, Same
<1>4. CASE Spawn(t)
  <2>1. Same /\ Lifecycle(t)'
    BY <1>4, <1>0, <1>a, <1>c DEF Spawn, Same
  <2> QED
    BY <1>4, <1>0, <1>b, <2>1, OneUnit DEF Spawn, Same
<1>5. CASE SpawnFails(t)
  <2>1. /\ released' = released \cup {t}
        /\ \A u \in Tasks : WasAdmitted(u)' <=> WasAdmitted(u)
    BY <1>5, SlotAfterRelease DEF SpawnFails
  <2>2. Lifecycle(t)'
    BY <1>5, <1>0, <1>a, <2>1 DEF SpawnFails
  <2> QED
    BY <1>5, <1>0, <1>b, <2>1, <2>2, OneUnit DEF SpawnFails
<1>6. CASE PromptAccepted(t)
  <2>1. Same /\ Lifecycle(t)'
    BY <1>6, <1>0, <1>a, <1>c DEF PromptAccepted, Same
  <2> QED
    BY <1>6, <1>0, <1>b, <2>1, OneUnit DEF PromptAccepted, Same
<1>7. ASSUME PromptRejected(t) \/ ChildEnds(t) \/ StopSubagent(t), pc[t] = "running"
      PROVE  \A u \in Tasks : Lifecycle(u)'
  <2>1. PICK r \in {"ok", "failed"} :
          /\ UNCHANGED limiter /\ child' = [child EXCEPT ![t] = "ended"]
          /\ pc' = [pc EXCEPT ![t] = "settled"] /\ outcome' = [outcome EXCEPT ![t] = r]
    BY <1>7 DEF PromptRejected, ChildEnds, StopSubagent, Finish
  <2>2. Same
    BY <2>1, <1>c
  <2>3. Lifecycle(t)'
    BY <1>7, <1>0, <1>a, <2>1, <2>2 DEF Same
  <2> QED
    BY <1>0, <2>1, <2>2, <2>3, OneUnit DEF Same
<1>8. ASSUME PromptRejected(t) \/ ChildEnds(t) \/ StopSubagent(t), pc[t] # "running"
      PROVE  \A u \in Tasks : Lifecycle(u)'
  <2>1. /\ UNCHANGED limiter /\ child' = [child EXCEPT ![t] = "ended"]
        /\ pc' = pc /\ outcome' = outcome /\ child[t] \in {"starting", "streaming"}
    BY <1>8 DEF PromptRejected, ChildEnds, StopSubagent, Finish
  <2>2. Same
    BY <2>1, <1>c
  <2>3. Lifecycle(t)'
    BY <1>8, <1>0, <1>a, <2>1, <2>2 DEF Same
  <2> QED
    BY <1>0, <1>b, <2>1, <2>2, <2>3, OneUnit DEF Same
<1>9. CASE Timeout(t)
  <2>1. Same /\ Lifecycle(t)'
    BY <1>9, <1>0, <1>a, <1>c DEF Timeout, Finish, Same
  <2> QED
    BY <1>9, <1>0, <1>b, <2>1, OneUnit DEF Timeout, Finish, Same
<1>10. CASE Finally(t)
  <2>1. /\ released' = released \cup {t}
        /\ \A u \in Tasks : WasAdmitted(u)' <=> WasAdmitted(u)
    BY <1>10, SlotAfterRelease DEF Finally
  <2>2. Lifecycle(t)'
    BY <1>10, <1>0, <1>a, <2>1 DEF Finally
  <2> QED
    BY <1>10, <1>0, <1>b, <2>1, <2>2, OneUnit DEF Finally
<1>11. CASE Evicted(t)
  <2>1. Same /\ Lifecycle(t)'
    BY <1>11, <1>0, <1>a, <1>c DEF Evicted, Same
  <2> QED
    BY <1>11, <1>0, <1>b, <2>1, OneUnit DEF Evicted, Same
<1>12. CASE EvictFails(t)
  <2>1. Same /\ Lifecycle(t)'
    BY <1>12, <1>0, <1>a, <1>c DEF EvictFails, Same
  <2> QED
    BY <1>12, <1>0, <1>b, <2>1, OneUnit DEF EvictFails, Same
<1> QED
  BY <1>1, <1>2, <1>3, <1>4, <1>5, <1>6, <1>7, <1>8, <1>9, <1>10, <1>11, <1>12

\* The steps of a tool call, of a parent and of nobody leave units where they
\* are, or start them, or end the drive of those that run.
LEMMA LifecycleElsewhere ==
  ASSUME IInv,
         \/ \E c \in Calls : Execute(c) \/ Return(c)
         \/ \E p \in Parents : Abort(p) \/ \E m \in Canonical : SetModel(p, m)
         \/ UNCHANGED vars
  PROVE  \A u \in Tasks : Lifecycle(u)'
<1> USE DEF limiter, batch, units
<1> SUFFICES ASSUME NEW u \in Tasks PROVE Lifecycle(u)'
  OBVIOUS
<1>0. TypeOK /\ Lifecycle(u)
  BY DEF IInv
<1>a. UNCHANGED limiter => (WasAdmitted(u)' <=> WasAdmitted(u))
  BY DEF WasAdmitted
<1>1. ASSUME NEW c \in Calls, Execute(c) PROVE Lifecycle(u)'
  <2>1. CallAndUnits(c) /\ phase[c] = "idle"
    BY <1>1 DEF IInv, Execute
  <2>2. CASE u \in TasksOf(c)
    <3>1. pc[u] = "idle" /\ pc'[u] = "fresh"
      BY <1>1, <2>1, <2>2 DEF CallAndUnits, Execute
    <3> QED
      BY <1>0, <1>1, <1>a, <3>1
         DEF Execute, Lifecycle, Waits, Spawns, Runs, Winds, IsDone, HasSlot, GaveBack, Admitted
  <2>3. CASE u \notin TasksOf(c)
    <3>1. pc'[u] = pc[u]
      BY <1>1, <2>3 DEF Execute
    <3> QED
      BY <1>0, <1>1, <1>a, <3>1, SameUnit DEF Execute
  <2> QED
    BY <2>2, <2>3
<1>2. ASSUME NEW c \in Calls, Return(c) PROVE Lifecycle(u)'
  BY <1>0, <1>2, <1>a, SameUnit DEF Return
<1>3. ASSUME NEW p \in Parents, Abort(p) PROVE Lifecycle(u)'
  <2>1. CASE Parent(u) = p /\ pc[u] = "running"
    <3>1. pc'[u] = "settled" /\ outcome'[u] = "failed" /\ child'[u] = child[u]
      BY <1>3, <2>1 DEF Abort
    <3>2. released' = released
      BY <1>3 DEF Abort
    <3> QED
      BY <1>0, <1>3, <1>a, <2>1, <3>1, <3>2
         DEF Abort, Lifecycle, Waits, Spawns, Runs, Winds, IsDone, HasSlot, GaveBack, Admitted
  <2>2. CASE ~(Parent(u) = p /\ pc[u] = "running")
    <3>1. pc'[u] = pc[u] /\ outcome'[u] = outcome[u] /\ child'[u] = child[u]
      BY <1>3, <2>2 DEF Abort
    <3> QED
      BY <1>0, <1>3, <1>a, <3>1, SameUnit DEF Abort
  <2> QED
    BY <2>1, <2>2
<1>4. ASSUME NEW p \in Parents, NEW m \in Canonical, SetModel(p, m) PROVE Lifecycle(u)'
  BY <1>0, <1>4, <1>a, SameUnit DEF SetModel
<1>5. CASE UNCHANGED vars
  BY <1>0, <1>5, <1>a, SameUnit DEF vars
<1> QED
  BY <1>1, <1>2, <1>3, <1>4, <1>5

-----------------------------------------------------------------------------
(* The calls, and the inductive invariant *)

\* A step that takes no unit out of "done" and none out of "idle", and begins
\* and ends no call, leaves the calls and their units in agreement.
LEMMA CallsKept ==
  ASSUME IInv, UNCHANGED phase,
         \A u \in Tasks : (pc[u] = "idle" => pc'[u] = "idle") /\ (pc[u] = "done" => pc'[u] = "done")
  PROVE  \A c \in Calls : CallAndUnits(c)'
BY DEF IInv, CallAndUnits, TasksOf

\* So with the units of a call that begins, or is over.
LEMMA CallsStep ==
  ASSUME IInv, [Next]_vars
  PROVE  \A c \in Calls : CallAndUnits(c)'
<1> USE DEF limiter, batch, units
<1>0. /\ pc \in [Tasks -> {"idle", "fresh", "acquiring", "spawning", "running", "settled",
                           "evicting", "done"}]
      /\ phase \in [Calls -> {"idle", "running", "returned", "threw"}]
  BY DEF IInv, TypeOK
<1>1. ASSUME NEW c \in Calls, Execute(c) PROVE \A d \in Calls : CallAndUnits(d)'
  <2> SUFFICES ASSUME NEW d \in Calls, NEW u \in TasksOf(d)
               PROVE  /\ phase'[d] = "idle" => pc'[u] = "idle"
                      /\ phase'[d] \in {"returned", "threw"} => pc'[u] = "done"
    BY DEF CallAndUnits, TasksOf
  <2>1. CallAndUnits(d) /\ u \in Tasks /\ CallOf[u] = d
    BY DEF IInv, TasksOf
  <2>2. CASE d = c
    <3>1. phase'[d] = "running"
      BY <1>0, <1>1, <2>1, <2>2 DEF Execute, TasksOf
    <3> QED
      BY <3>1
  <2>3. CASE d # c
    <3>1. phase'[d] = phase[d] /\ pc'[u] = pc[u]
      BY <1>0, <1>1, <2>1, <2>3 DEF Execute, TasksOf
    <3> QED
      BY <2>1, <3>1 DEF CallAndUnits
  <2> QED
    BY <2>2, <2>3
<1>2. ASSUME NEW c \in Calls, Return(c) PROVE \A d \in Calls : CallAndUnits(d)'
  <2> SUFFICES ASSUME NEW d \in Calls, NEW u \in TasksOf(d)
               PROVE  /\ phase'[d] = "idle" => pc'[u] = "idle"
                      /\ phase'[d] \in {"returned", "threw"} => pc'[u] = "done"
    BY DEF CallAndUnits, TasksOf
  <2>1. CallAndUnits(d) /\ pc' = pc
    BY <1>2 DEF IInv, Return
  <2>2. CASE d = c
    <3>1. phase'[d] \in {"returned", "threw"} /\ pc[u] = "done"
      BY <1>0, <1>2, <2>2 DEF Return
    <3> QED
      BY <2>1, <3>1
  <2>3. CASE d # c
    <3>1. phase'[d] = phase[d]
      BY <1>0, <1>2, <2>3 DEF Return
    <3> QED
      BY <2>1, <3>1 DEF CallAndUnits
  <2> QED
    BY <2>2, <2>3
<1>3. ASSUME NEW p \in Parents, Abort(p) \/ \E m \in Canonical : SetModel(p, m)
      PROVE  \A d \in Calls : CallAndUnits(d)'
  BY <1>0, <1>3, CallsKept DEF Abort, SetModel
<1>4. ASSUME NEW t \in Tasks,
             \/ Acquire(t) \/ Wait(t) \/ GiveUp(t) \/ Spawn(t) \/ SpawnFails(t)
             \/ PromptAccepted(t) \/ PromptRejected(t) \/ ChildEnds(t) \/ StopSubagent(t)
             \/ Timeout(t) \/ Finally(t) \/ Evicted(t) \/ EvictFails(t)
      PROVE  \A d \in Calls : CallAndUnits(d)'
  <2>1. /\ UNCHANGED phase
        /\ \/ pc' = pc
           \/ /\ pc[t] \notin {"idle", "done"}
              /\ \E x : pc' = [pc EXCEPT ![t] = x]
    BY <1>4 DEF Acquire, Wait, GiveUp, Spawn, SpawnFails, PromptAccepted, PromptRejected,
                ChildEnds, StopSubagent, Timeout, Finally, Evicted, EvictFails, Finish
  <2> QED
    BY <1>0, <2>1, CallsKept
<1>5. CASE UNCHANGED vars
  BY <1>0, <1>5, CallsKept DEF vars
<1> QED
  BY <1>1, <1>2, <1>3, <1>4, <1>5 DEF Next

\* A grant is made to the unit's own parent, and is never altered.
LEMMA ChargedStep ==
  ASSUME ChargedRight, [Next]_vars
  PROVE  ChargedRight'
<1> USE DEF limiter, batch, units
<1>1. ASSUME NEW t \in Tasks, Acquire(t) PROVE ChargedRight'
  <2> DEFINE new == [slot |-> t, parent |-> Parent(t), provider |-> asked[CallOf[t]]]
  <2>1. issued' = issued \cup {new} /\ new.slot = t /\ new.parent = Parent(t)
    BY <1>1 DEF Acquire, L!Admit
  <2> QED
    BY <2>1 DEF ChargedRight, Parent
<1>2. ASSUME UNCHANGED issued PROVE ChargedRight'
  BY <1>2 DEF ChargedRight, Parent
<1>3. ASSUME NEW t \in Tasks, SpawnFails(t) \/ Finally(t) PROVE UNCHANGED issued
  BY <1>3 DEF SpawnFails, Finally, L!Release, L!Lower
<1> QED
  BY <1>1, <1>2, <1>3
     DEF Next, vars, Execute, Return, Abort, SetModel, Wait, GiveUp, Spawn, PromptAccepted,
         PromptRejected, ChildEnds, StopSubagent, Timeout, Evicted, EvictFails

\* The units' places in runOne, the slots and the calls agree initially.
LEMMA IInvInit == Init => IInv
<1> SUFFICES ASSUME Init PROVE IInv
  OBVIOUS
<1>1. total \in Nat /\ perParent \in [Parents -> Nat] /\ perProvider \in [Providers -> Nat]
      /\ issued = {} /\ released = {}
  BY DEF Init, L!Init
<1>2. TypeOK
  BY <1>1 DEF Init, TypeOK, L!TypeOK
<1>3. \A t \in Tasks : Lifecycle(t)
  BY <1>1 DEF Init, Lifecycle, Waits, Spawns, Runs, Winds, IsDone, HasSlot, GaveBack, Admitted,
              WasAdmitted
<1>4. \A c \in Calls : CallAndUnits(c)
  BY DEF Init, CallAndUnits, TasksOf
<1> QED
  BY <1>1, <1>2, <1>3, <1>4 DEF IInv, ChargedRight

\* And every step keeps them so.
LEMMA IInvStep == IInv /\ [Next]_vars => IInv'
<1> SUFFICES ASSUME IInv, [Next]_vars PROVE IInv'
  OBVIOUS
<1>1. TypeOK' /\ ChargedRight'
  BY TypeStep, ChargedStep DEF IInv
<1>2. \A c \in Calls : CallAndUnits(c)'
  BY CallsStep
<1>3. \A t \in Tasks : Lifecycle(t)'
  BY LifecycleStep, LifecycleElsewhere DEF Next
<1> QED
  BY <1>1, <1>2, <1>3 DEF IInv

\* The inductive invariant holds of every behaviour of the tool.
THEOREM Invariance == Spec => []IInv
BY IInvInit, IInvStep, PTL DEF Spec

-----------------------------------------------------------------------------
(* The properties *)

\* Every variable keeps its type.
THEOREM TypeCorrect == Spec => []TypeOK
<1>1. IInv => TypeOK
  BY DEF IInv
<1> QED
  BY <1>1, Invariance, PTL

\* On every path through runOne a slot is out exactly from admission to the
\* finally block, charged to the unit's parent: none leaks, none is given back
\* early or twice, however many units wait, fail, time out or are aborted.
THEOREM SlotsAreUnits == Spec => []SlotsMatchUnits
<1>1. IInv => SlotsMatchUnits
  <2> SUFFICES ASSUME IInv PROVE SlotsMatchUnits
    OBVIOUS
  <2>1. ASSUME NEW g \in L!Held
        PROVE  g.slot \in Admitted /\ g.parent = Parent(g.slot)
    <3>1. g \in issued /\ g.slot \notin released /\ g.slot \in Tasks
      BY DEF L!Held, IInv, TypeOK, L!TypeOK, L!Grant
    <3>2. WasAdmitted(g.slot) /\ Lifecycle(g.slot)
      BY <3>1 DEF WasAdmitted, IInv
    <3>3. pc[g.slot] \in {"idle", "fresh", "acquiring", "spawning", "running", "settled",
                          "evicting", "done"}
      BY <3>1 DEF IInv, TypeOK
    <3>4. g.slot \in Admitted
      BY <3>1, <3>2, <3>3 DEF Lifecycle, Waits, GaveBack, Admitted
    <3> QED
      BY <3>1, <3>4 DEF IInv, ChargedRight
  <2>2. ASSUME NEW t \in Admitted
        PROVE  \E g \in L!Held : g.slot = t /\ g.parent = Parent(t)
    <3>1. t \in Tasks /\ WasAdmitted(t) /\ t \notin released
      BY DEF Admitted, IInv, Lifecycle, HasSlot
    <3>2. PICK g \in issued : g.slot = t
      BY <3>1 DEF WasAdmitted
    <3> QED
      BY <3>1, <3>2 DEF L!Held, IInv, ChargedRight
  <2> QED
    BY <2>1, <2>2 DEF SlotsMatchUnits
<1> QED
  BY <1>1, Invariance, PTL

\* When a tool call is over, none of its units holds a slot and every child it
\* started is disposed, or pi refused to dispose of it.
THEOREM CallsLeaveNothing == Spec => []NoOrphans
<1>1. IInv => NoOrphans
  BY DEF IInv, NoOrphans, CallAndUnits, Lifecycle, IsDone, TasksOf, Admitted
<1> QED
  BY <1>1, Invariance, PTL

\* "Not started" means no slot and no child, and a good outcome means that the
\* child's turn has ended.
THEOREM ReportsAreHonest == Spec => []OutcomesHonest
<1>1. IInv => OutcomesHonest
  <2> SUFFICES ASSUME IInv, NEW t \in Tasks
               PROVE  /\ outcome[t] = "notStarted" =>
                           child[t] = "none" /\ \A g \in issued : g.slot # t
                      /\ outcome[t] = "ok" => child[t] \in {"ended", "disposed", "left"}
    BY DEF OutcomesHonest
  <2>1. /\ Lifecycle(t)
        /\ pc[t] \in {"idle", "fresh", "acquiring", "spawning", "running", "settled",
                      "evicting", "done"}
    BY DEF IInv, TypeOK
  <2> QED
    BY <2>1 DEF Lifecycle, Waits, Spawns, Runs, Winds, IsDone, WasAdmitted
<1> QED
  BY <1>1, Invariance, PTL

-----------------------------------------------------------------------------
(* The limiter inside the tool *)

\* What the limiter's own theorems say, of the limiter with one slot per unit.
LP == INSTANCE SubagentLimiterProofs WITH Slots <- Tasks, Depths <- {1}

\* A step of the tool is one admission, one release, or nothing to the limiter.
LEMMA LimiterStep ==
  ASSUME TypeOK, [Next]_vars
  PROVE  [L!Next]_limiter
<1> USE DEF batch, units
<1>1. ASSUME NEW t \in Tasks, Acquire(t) PROVE L!Next
  <2>1. Parent(t) \in Parents /\ asked[CallOf[t]] \in Providers \cup {NoProvider}
    BY BatchAssumption DEF Parent, TypeOK
  <2> QED
    BY <1>1, <2>1 DEF Acquire, L!Next
<1>2. ASSUME NEW t \in Tasks, SpawnFails(t) \/ Finally(t) PROVE L!Next
  BY <1>2 DEF SpawnFails, Finally, L!Next
<1> QED
  BY <1>1, <1>2
     DEF Next, vars, limiter, Execute, Return, Abort, SetModel, Wait, GiveUp, Spawn,
         PromptAccepted, PromptRejected, ChildEnds, StopSubagent, Timeout, Evicted, EvictFails

\* The tool uses the limiter only through admit and the closures admit returns,
\* so every behaviour of it is one of the limiter.
THEOREM LimiterRefinement == Spec => L!Spec
<1>1. Init => L!Init
  BY DEF Init
<1>2. TypeOK /\ [Next]_vars => [L!Next]_(L!vars)
  BY LimiterStep DEF L!vars, limiter
<1> QED
  BY <1>1, <1>2, TypeCorrect, PTL DEF Spec, L!Spec

\* Hence, for any number of concurrent tool calls, no more units of a session
\* or of a provider wait for their children than its cap allows.
THEOREM CapsHoldInTool == Spec => []L!CapsHold
<1>1. Init => LP!Init
  BY DEF Init, L!Init, LP!Init
<1>2. TypeOK /\ [Next]_vars => [LP!Next]_(LP!vars)
  BY LimiterStep
     DEF LP!vars, limiter, L!Next, LP!Next, L!Admit, LP!Admit, L!Refused, LP!Refused,
         L!Release, LP!Release, L!Lower, LP!Lower, L!Lowered, LP!Lowered
<1>3. Spec => LP!Spec
  BY <1>1, <1>2, TypeCorrect, PTL DEF Spec, LP!Spec
<1>4. LP!LegalLimits
  BY CapsAssumption DEF L!LegalLimits, LP!LegalLimits
<1>5. LP!Spec => []LP!CapsHold
  BY <1>4, CapsAssumption, LP!CapsAlwaysHold
<1>6. LP!CapsHold => L!CapsHold
  BY DEF L!CapsHold, LP!CapsHold, L!Held, LP!Held, L!HeldBy, LP!HeldBy, L!ChargedTo, LP!ChargedTo,
         L!Cardinality, LP!Cardinality
<1> QED
  BY <1>3, <1>5, <1>6, PTL

-----------------------------------------------------------------------------
(* The bundle of the workspace *)

BundleRequest ==
  [step : {"loading", "creating", "ready", "building"}, kind : {"peek", "build", "spawn"},
   session : Sessions \cup {"none"}, type : TypeNames \cup {CHOOSE t \in TypeNames : TRUE},
   models : 0..MaxModels, baked : Rows, preset : Presets \cup {NoPreset},
   edited : BOOLEAN, mixed : BOOLEAN]
Snapshot ==
  [step : {"live"}, extra : SUBSET File, baked : Rows, version : Rows,
   models : 0..MaxModels]

ConfigTypes ==
  /\ rows \in Rows /\ synced \in Rows
  /\ types \in [TypeNames -> Presets \cup {NoPreset}]
  /\ models \in 0..MaxModels /\ cache \in 0..MaxModels /\ created \in 0..MaxModels
  /\ op \in [Ops -> BundleRequest \cup {Idle}]
  /\ live \in [Sessions -> Snapshot \cup {Cold}]
  /\ mixed \subseteq {s \in Sessions : live[s] # Cold}

\* A session is being built from the rows that were synced last, and a subagent
\* from the type as it is, unless the request has noted that something came between.
Sound(q) ==
  /\ q.step = "building" /\ q.kind = "build" /\ ~q.mixed => q.baked = synced
  /\ q.kind = "spawn" => q.type \in TypeNames
  /\ q.step = "building" /\ q.kind = "spawn" /\ ~q.edited => q.preset = AgentType(q.type)

RequestsSound == \A o \in Ops : op[o] # Idle => Sound(op[o])

PromptsSound ==
  \A s \in Sessions : live[s] # Cold =>
    /\ live[s].extra = Extra(live[s].baked)
    /\ s \notin mixed => live[s].version = live[s].baked

ConfigInv == ConfigTypes /\ RequestsSound /\ PromptsSound /\ PresetHonoured

\* What the rows say a directory has: the file of its last row, if it has one.
FileOf(r, d) == IF RowsOf(r, d) = {} THEN NoFile ELSE SkillMarkdown(LastRow(r, d), r)

\* The files say what the rows said when they were synced last.
FilesInv == files = [d \in Dirs |-> FileOf(synced, d)] /\ touched \subseteq Dirs

-----------------------------------------------------------------------------
(* Records *)

LEMMA NoConfusion ==
  /\ \A q \in BundleRequest : q # Idle
  /\ \A p \in Snapshot : p # Cold
  /\ \A r \in Skill : r # NoRow
<1>1. ASSUME NEW r \in Skill PROVE r # NoRow
  <2>1. DOMAIN r = {"text", "hidden"}
    BY DEF Skill
  <2>2. DOMAIN NoRow = {"text"}
    BY DEF NoRow
  <2> QED
    BY <2>1, <2>2
<1>2. ASSUME NEW q \in BundleRequest PROVE q # Idle
  <2>1. q.step \in {"loading", "creating", "ready", "building"}
    BY DEF BundleRequest
  <2>2. Idle.step = "idle"
    BY DEF Idle
  <2> QED
    BY <2>1, <2>2
<1>3. ASSUME NEW p \in Snapshot PROVE p # Cold
  <2>1. p.step = "live"
    BY DEF Snapshot
  <2>2. Cold.step = "cold"
    BY DEF Cold
  <2> QED
    BY <2>1, <2>2
<1> QED
  BY <1>1, <1>2, <1>3

\* A request of which one field is changed.
LEMMA AtStep ==
  ASSUME NEW q \in BundleRequest, NEW st \in {"loading", "creating", "ready", "building"}
  PROVE  LET p == [q EXCEPT !.step = st]
         IN /\ p \in BundleRequest /\ p.step = st /\ p.kind = q.kind /\ p.type = q.type
            /\ p.baked = q.baked /\ p.preset = q.preset /\ p.edited = q.edited /\ p.mixed = q.mixed
BY DEF BundleRequest

LEMMA OnModels ==
  ASSUME NEW q \in BundleRequest, NEW m \in 0..MaxModels
  PROVE  LET p == [q EXCEPT !.models = m]
         IN p \in BundleRequest /\ p.step = q.step /\ p.kind = q.kind /\ p.type = q.type
BY DEF BundleRequest

LEMMA Baked ==
  ASSUME NEW q \in BundleRequest, NEW r \in Rows
  PROVE  LET p == [q EXCEPT !.baked = r]
         IN /\ p \in BundleRequest /\ p.step = q.step /\ p.kind = q.kind /\ p.type = q.type
            /\ p.baked = r
BY DEF BundleRequest

LEMMA PresetKnown ==
  ASSUME NEW q \in BundleRequest, NEW x \in Presets \cup {NoPreset}
  PROVE  LET p == [q EXCEPT !.preset = x]
         IN /\ p \in BundleRequest /\ p.step = q.step /\ p.kind = q.kind /\ p.type = q.type
            /\ p.baked = q.baked /\ p.preset = x
BY DEF BundleRequest

LEMMA Edited ==
  ASSUME NEW q \in BundleRequest, NEW b \in BOOLEAN
  PROVE  LET p == [q EXCEPT !.edited = b]
         IN /\ p \in BundleRequest /\ p.step = q.step /\ p.kind = q.kind /\ p.type = q.type
            /\ p.baked = q.baked /\ p.preset = q.preset /\ p.edited = b /\ p.mixed = q.mixed
BY DEF BundleRequest

LEMMA Mixed ==
  ASSUME NEW q \in BundleRequest, NEW b \in BOOLEAN
  PROVE  LET p == [q EXCEPT !.mixed = b]
         IN /\ p \in BundleRequest /\ p.step = q.step /\ p.kind = q.kind /\ p.type = q.type
            /\ p.baked = q.baked /\ p.preset = q.preset /\ p.edited = q.edited /\ p.mixed = b
BY DEF BundleRequest

-----------------------------------------------------------------------------
(* The files *)

LEMMA MarkdownTyped ==
  ASSUME NEW r \in Rows, NEW n \in Projected(r)
  PROVE  SkillMarkdown(n, r) \in File /\ SkillMarkdown(n, r).name = n
<1>1. n \in Names /\ r[n] \in Skill
  BY DEF Projected, ListSkills, Rows
<1> QED
  BY <1>1 DEF SkillMarkdown, File, Skill

LEMMA ExtraTyped ==
  ASSUME NEW r \in Rows
  PROVE  Extra(r) \subseteq File
BY MarkdownTyped DEF Extra

(* Of the rows of a directory one is the last: a set of indices has a       *)
(* greatest element, since the natural numbers are well-founded.           *)

Less == {p \in Nat \X Nat : p[1] < p[2]}

LEMMA NatWellFounded == IsWellFoundedOn(Less, Nat)
<1>1. OpToRel(<, Nat) = Less
  BY DEF OpToRel, Less
<1> QED
  BY <1>1, NatLessThanWellFounded

LEMMA GreatestIndex ==
  ASSUME NEW N \in Nat, NEW I, I \subseteq 1..N, I # {}
  PROVE  \E i \in I : \A j \in I : j <= i
<1> DEFINE T == {k \in 0..N : N - k \in I}
<1>1. ASSUME NEW i \in I PROVE N - i \in T
  <2>1. i \in 1..N /\ N - i \in 0..N /\ N - (N - i) = i
    OBVIOUS
  <2> QED
    BY <2>1
<1>2. \A k \in T : k \in 0..N /\ N - k \in I
  OBVIOUS
<1> HIDE DEF T
<1>3. T \subseteq Nat /\ T # {}
  <2>1. T \subseteq Nat
    BY <1>2
  <2>2. PICK i \in I : TRUE
    OBVIOUS
  <2>3. N - i \in T
    BY <1>1
  <2> QED
    BY <2>1, <2>3
<1>4. PICK k \in T : \A y \in T : <<y, k>> \notin Less
  BY <1>3, NatWellFounded, WFMin
<1>5. ASSUME NEW j \in I PROVE j <= N - k
  <2>1. <<N - j, k>> \notin Less /\ N - j \in Nat /\ k \in Nat /\ j \in 1..N
    BY <1>1, <1>3, <1>4
  <2>2. ~(N - j < k)
    BY <2>1 DEF Less
  <2> QED
    BY <2>1, <2>2
<1> QED
  BY <1>2, <1>4, <1>5

LEMMA LastRowIsRow ==
  ASSUME NEW r, NEW d, RowsOf(r, d) # {}
  PROVE  LastRow(r, d) \in RowsOf(r, d)
<1> DEFINE I == {i \in DOMAIN Order : Order[i] \in RowsOf(r, d)}
<1>1. Order \in Seq(Names) /\ DOMAIN Order = 1..Len(Order) /\ Len(Order) \in Nat
  BY ConfigAssumption
<1>2. \A n \in RowsOf(r, d) : \E i \in I : Order[i] = n
  BY DEF RowsOf, Projected, ListSkills, Names, Range
<1>3. PICK i \in I : \A j \in I : j <= i
  <2>1. I \subseteq 1..Len(Order) /\ I # {}
    BY <1>1, <1>2
  <2> HIDE DEF I
  <2> QED
    BY <1>1, <2>1, GreatestIndex
<1>4. \A m \in RowsOf(r, d) : NotAfter(m, Order[i])
  BY <1>2, <1>3 DEF NotAfter
<1> QED
  BY <1>3, <1>4 DEF LastRow

\* So a directory has a file or none, whether or not rows share it.
LEMMA FilesTyped ==
  ASSUME NEW r \in Rows
  PROVE  [d \in Dirs |-> FileOf(r, d)] \in [Dirs -> File \cup {NoFile}]
<1>1. ASSUME NEW d \in Dirs PROVE FileOf(r, d) \in File \cup {NoFile}
  <2>1. CASE RowsOf(r, d) # {}
    <3>1. LastRow(r, d) \in Projected(r)
      BY <2>1, LastRowIsRow DEF RowsOf
    <3> QED
      BY <2>1, <3>1, MarkdownTyped DEF FileOf
  <2> QED
    BY <2>1 DEF FileOf
<1> QED
  BY <1>1

\* A row that shares its directory with no other is the last one written to it.
LEMMA OnlyRow ==
  ASSUME NEW r, NEW d, NEW n \in RowsOf(r, d), ~Collide(r, d)
  PROVE  LastRow(r, d) = n
<1>1. RowsOf(r, d) = {n}
  BY DEF Collide
<1>2. n \in Names
  BY DEF RowsOf, Projected, ListSkills
<1>3. NotAfter(n, n)
  <2>1. PICK i \in DOMAIN Order : Order[i] = n
    BY <1>2 DEF Names, Range
  <2>2. i \in Int
    BY <2>1, ConfigAssumption
  <2> QED
    BY <2>1, <2>2 DEF NotAfter
<1> QED
  BY <1>1, <1>3 DEF LastRow

\* A sync writes to the directories whose file differs and to those that several
\* rows share, and to no other.
LEMMA Materialized ==
  ASSUME NEW r, NEW d \in Materialize(r).touched, ~Collide(r, d)
  PROVE  Materialize(r).files[d] # files[d]
<1>1. /\ d \in Dirs /\ Materialize(r).files[d] = FileOf(r, d)
      /\ \/ RowsOf(r, d) = {} /\ files[d] # NoFile
         \/ \E n \in RowsOf(r, d) : files[d] # SkillMarkdown(n, r)
  BY DEF Materialize, FileOf
<1>2. CASE RowsOf(r, d) = {}
  BY <1>1, <1>2 DEF FileOf
<1>3. ASSUME NEW n \in RowsOf(r, d), files[d] # SkillMarkdown(n, r)
      PROVE  FileOf(r, d) # files[d]
  <2>1. LastRow(r, d) = n
    BY OnlyRow
  <2> QED
    BY <1>3, <2>1 DEF FileOf
<1> QED
  BY <1>1, <1>2, <1>3

-----------------------------------------------------------------------------
(* The steps *)

\* A request is answered, or moves on before its session is built.
LEMMA RequestMoves ==
  ASSUME ConfigInv, NEW o \in Ops, NEW q \in BundleRequest \cup {Idle},
         q # Idle => q.step # "building" /\ (q.kind = "spawn" => q.type \in TypeNames),
         op' = [op EXCEPT ![o] = q],
         models' \in 0..MaxModels, cache' \in 0..MaxModels, created' \in 0..MaxModels,
         UNCHANGED <<rows, types, files, touched, synced, live, mixed>>,
         subagent' = subagent \/ subagent' = NoChild
  PROVE  ConfigInv'
<1>1. ConfigTypes'
  BY DEF ConfigInv, ConfigTypes
<1>2. RequestsSound'
  <2>1. q # Idle => Sound(q)'
    BY DEF Sound
  <2>2. ASSUME NEW p \in Ops, p # o, op[p] # Idle PROVE Sound(op[p])'
    <3>1. Sound(op[p])
      BY <2>2 DEF ConfigInv, RequestsSound
    <3>2. op'[p] = op[p]
      BY <2>2 DEF ConfigInv, ConfigTypes
    <3> QED
      BY <3>1, <3>2 DEF Sound, AgentType, ListAgentTypes
  <2>3. op'[o] = q /\ \A p \in Ops \ {o} : op'[p] = op[p]
    BY DEF ConfigInv, ConfigTypes
  <2> QED
    BY <2>1, <2>2, <2>3 DEF RequestsSound
<1>3. PromptsSound'
  BY DEF ConfigInv, PromptsSound
<1>4. PresetHonoured'
  BY DEF ConfigInv, PresetHonoured
<1> QED
  BY <1>1, <1>2, <1>3, <1>4 DEF ConfigInv

\* A skill is written, hidden or deleted: files, prompts and requests stay as
\* they are, and fall behind.
LEMMA SkillEdits ==
  ASSUME ConfigInv, SkillEdit, rows' \in Rows
  PROVE  ConfigInv'
BY DEF SkillEdit, disk, bundle, built, ConfigInv, ConfigTypes,
       RequestsSound, Sound, AgentType, ListAgentTypes, PromptsSound, PresetHonoured

LEMMA SkillActions ==
  ASSUME ConfigInv, NEW n \in Names,
         \/ DeleteSkill(n)
         \/ \E hidden \in BOOLEAN :
              \/ SetSkillHidden(n, hidden)
              \/ \E x \in Texts : UpsertSkill(n, x, hidden)
  PROVE  ConfigInv'
<1>1. SkillEdit
  BY DEF DeleteSkill, SetSkillHidden, UpsertSkill
<1>2. rows \in Rows
  BY DEF ConfigInv, ConfigTypes
<1>3. CASE DeleteSkill(n)
  <2>1. rows' \in Rows
    BY <1>2, <1>3 DEF DeleteSkill, Rows
  <2> QED
    BY <1>1, <2>1, SkillEdits
<1>4. ASSUME NEW hidden \in BOOLEAN, SetSkillHidden(n, hidden) PROVE ConfigInv'
  <2>1. rows[n] \in Skill
    BY <1>2, <1>4 DEF SetSkillHidden, Rows
  <2>2. [rows[n] EXCEPT !.hidden = hidden] \in Skill
    BY <2>1 DEF Skill
  <2>3. rows' = [rows EXCEPT ![n] = [rows[n] EXCEPT !.hidden = hidden]]
    BY <1>4 DEF SetSkillHidden
  <2>4. rows' \in Rows
    BY <1>2, <2>2, <2>3 DEF Rows
  <2> QED
    BY <1>1, <2>4, SkillEdits
<1>5. ASSUME NEW hidden \in BOOLEAN, NEW x \in Texts, UpsertSkill(n, x, hidden)
      PROVE  ConfigInv'
  <2>1. [text |-> x, hidden |-> hidden] \in Skill
    BY DEF Skill
  <2>2. rows' \in Rows
    BY <1>2, <1>5, <2>1 DEF UpsertSkill, Rows
  <2> QED
    BY <1>1, <2>2, SkillEdits
<1> QED
  BY <1>3, <1>4, <1>5

\* An agent type is edited: the requests that have read it know.
LEMMA TypeEdits ==
  ASSUME ConfigInv, NEW t \in TypeNames, NEW x \in Presets \cup {NoPreset}, SetAgentType(t, x)
  PROVE  ConfigInv'
<1>1. /\ types' = [types EXCEPT ![t] = x]
      /\ op' = [o \in Ops |->
           IF op[o] # Idle /\ op[o].type = t THEN [op[o] EXCEPT !.edited = TRUE]
           ELSE op[o]]
      /\ UNCHANGED <<rows, files, touched, synced, models, cache, created, live, subagent, mixed>>
  BY DEF SetAgentType, disk, bundle, built
<1>2. ASSUME NEW o \in Ops
      PROVE  \E p \in BundleRequest \cup {Idle} :
               op'[o] = p /\ (p # Idle => Sound(p)')
  <2>1. PICK q \in BundleRequest \cup {Idle} : op[o] = q /\ (q # Idle => Sound(q))
    BY DEF ConfigInv, ConfigTypes, RequestsSound
  <2>2. CASE q # Idle /\ q.type = t
    <3> DEFINE p == [q EXCEPT !.edited = TRUE]
    <3>1. op'[o] = p
      BY <1>1, <2>1, <2>2
    <3>2. /\ p \in BundleRequest /\ p.step = q.step /\ p.kind = q.kind
          /\ p.type = q.type /\ p.baked = q.baked /\ p.edited = TRUE /\ p.mixed = q.mixed
      BY <2>1, <2>2, Edited
    <3> HIDE DEF p
    <3>3. Sound(p)'
      BY <1>1, <2>1, <2>2, <3>2 DEF Sound
    <3> QED
      BY <3>1, <3>2, <3>3
  <2>3. CASE q # Idle /\ q.type # t
    <3>1. op'[o] = q
      BY <1>1, <2>1, <2>3
    <3>2. PICK u : u = q.type
      OBVIOUS
    <3>3. u \in TypeNames => AgentType(u)' = AgentType(u)
      BY <1>1, <2>3, <3>2 DEF AgentType, ListAgentTypes, ConfigInv, ConfigTypes
    <3>4. Sound(q)'
      BY <1>1, <2>1, <2>3, <3>2, <3>3 DEF Sound
    <3> QED
      BY <2>1, <3>1, <3>4
  <2>4. CASE q = Idle
    BY <1>1, <2>1, <2>4
  <2> QED
    BY <2>2, <2>3, <2>4
<1>3. ConfigTypes'
  BY <1>1, <1>2 DEF ConfigInv, ConfigTypes
<1>4. RequestsSound'
  BY <1>2 DEF RequestsSound
<1>5. PromptsSound' /\ PresetHonoured'
  BY <1>1 DEF ConfigInv, PromptsSound, PresetHonoured
<1> QED
  BY <1>3, <1>4, <1>5 DEF ConfigInv

LEMMA Asks ==
  ASSUME ConfigInv, NEW o \in Ops,
         \/ PreviewSession(o)
         \/ \E s \in Sessions : Build(o, s)
         \/ \E t \in TypeNames : SpawnSubagent(o, t)
  PROVE  ConfigInv'
<1>1. PICK kind \in {"peek", "build", "spawn"}, s \in Sessions \cup {"none"},
           t \in TypeNames \cup {CHOOSE t \in TypeNames : TRUE} :
        Ask(o, kind, s, t) /\ (kind = "spawn" => t \in TypeNames)
  BY DEF PreviewSession, Build, SpawnSubagent
<1> DEFINE q == [step |-> IF cache # 0 THEN "ready" ELSE "loading", kind |-> kind, session |-> s,
                 type |-> t, models |-> cache, baked |-> NoRows, preset |-> NoPreset,
                 edited |-> FALSE, mixed |-> FALSE]
<1>2. NoRows \in Rows /\ cache \in 0..MaxModels
  BY DEF NoRows, Rows, ConfigInv, ConfigTypes
<1>3. q \in BundleRequest /\ q.step # "building" /\ q.kind = kind /\ q.type = t
  BY <1>2 DEF BundleRequest
<1>4. op' = [op EXCEPT ![o] = q]
  BY <1>1 DEF Ask
<1> HIDE DEF q
<1>5. /\ UNCHANGED <<rows, types, files, touched, synced, models, cache, created, live, mixed>>
      /\ subagent' = NoChild
  BY <1>1 DEF Ask, disk, bundle
<1> QED
  BY <1>1, <1>3, <1>4, <1>5, RequestMoves DEF ConfigInv, ConfigTypes

LEMMA BundleSteps ==
  ASSUME ConfigInv, NEW o \in Ops,
         Loaded(o) \/ Created(o) \/ AskFails(o)
  PROVE  ConfigInv'
<1>1. UNCHANGED <<rows, types, files, touched, synced, live, subagent, mixed>>
  BY DEF Loaded, Created, AskFails, disk, built
<1>2. op[o] \in BundleRequest /\ Sound(op[o])
  <2>1. op[o] # Idle
    BY DEF Loaded, Created, AskFails, Idle
  <2> QED
    BY <2>1 DEF ConfigInv, ConfigTypes, RequestsSound
<1>3. op[o].kind = "spawn" => op[o].type \in TypeNames
  BY <1>2 DEF Sound
<1>4. models \in 0..MaxModels /\ cache \in 0..MaxModels /\ created \in 0..MaxModels /\ MaxModels \in Nat
  BY ConfigAssumption DEF ConfigInv, ConfigTypes
<1>5. models' \in 0..MaxModels /\ cache' \in 0..MaxModels /\ created' \in 0..MaxModels
  BY <1>4 DEF Loaded, Created, AskFails, bundle
<1>6. ASSUME NEW st \in {"creating", "ready"}, NEW m \in 0..MaxModels,
             \/ op' = [op EXCEPT ![o].step = st]
             \/ op' = [op EXCEPT ![o].step = st, ![o].models = m]
      PROVE  ConfigInv'
  <2> DEFINE p == [op[o] EXCEPT !.step = st]
             q == [p EXCEPT !.models = m]
  <2>1. op' = [op EXCEPT ![o] = p] \/ op' = [op EXCEPT ![o] = q]
    BY <1>6 DEF ConfigInv, ConfigTypes
  <2>0. st \in {"loading", "creating", "ready", "building"}
    OBVIOUS
  <2>2. p \in BundleRequest /\ p.step = st /\ p.kind = op[o].kind /\ p.type = op[o].type
    BY <1>2, <2>0, AtStep
  <2> HIDE DEF p
  <2>3. q \in BundleRequest /\ q.step = st /\ q.kind = op[o].kind /\ q.type = op[o].type
    BY <2>2, OnModels
  <2> HIDE DEF q
  <2>4. PICK z \in BundleRequest :
          /\ op' = [op EXCEPT ![o] = z] /\ z.step # "building"
          /\ z.kind = "spawn" => z.type \in TypeNames
    BY <1>3, <2>1, <2>2, <2>3
  <2> QED
    BY <1>1, <1>5, <2>4, RequestMoves
<1>7. CASE AskFails(o)
  <2>1. op' = [op EXCEPT ![o] = Idle]
    BY <1>7 DEF AskFails
  <2> QED
    BY <1>1, <1>5, <2>1, RequestMoves
<1>8. CASE Loaded(o)
  BY <1>4, <1>6, <1>8 DEF Loaded
<1>9. CASE Created(o)
  <2>1. created' \in 0..MaxModels /\ op' = [op EXCEPT ![o].step = "ready", ![o].models = created']
    BY <1>5, <1>9 DEF Created
  <2>2. PICK m \in 0..MaxModels : m = created'
    BY <2>1
  <2> QED
    BY <1>6, <2>1, <2>2
<1> QED
  BY <1>7, <1>8, <1>9

\* The rows are synced.  Whoever is building from others knows.
LEMMA Syncs ==
  ASSUME ConfigInv, NEW o \in Ops, Sync(o)
  PROVE  ConfigInv'
<1> DEFINE x == IF op[o].kind = "spawn" THEN AgentType(op[o].type) ELSE NoPreset
<1>1. rows \in Rows /\ op[o] \in BundleRequest /\ Sound(op[o])
  <2>1. op[o] # Idle
    BY DEF Sync, Idle
  <2> QED
    BY <2>1 DEF ConfigInv, ConfigTypes, RequestsSound
<1>3. synced' = rows /\ UNCHANGED <<rows, types, models, cache, created, live, subagent, mixed>>
  BY DEF Sync, bundle, built
<1>4. op[o].kind = "spawn" => op[o].type \in TypeNames
  BY <1>1 DEF Sound
<1>5. x \in Presets \cup {NoPreset}
  BY <1>4, ConfigAssumption DEF AgentType, ListAgentTypes, ConfigInv, ConfigTypes
<1>6. \A p \in Ops \ {o} : op'[p] =
        IF op[p] = Idle THEN Idle
        ELSE [op[p] EXCEPT !.mixed = @ \/ (op[p].step = "building" /\ op[p].baked # rows)]
  BY DEF Sync
<1>7. \/ op'[o] = Idle
      \/ op'[o] = [op[o] EXCEPT !.step = "building", !.baked = rows, !.preset = x,
                                          !.edited = FALSE]
  BY DEF Sync
<1>8. \A u \in TypeNames : AgentType(u)' = AgentType(u)
  BY <1>3 DEF AgentType, ListAgentTypes
<1>9. ASSUME NEW p \in Ops \ {o}
      PROVE  \E q \in BundleRequest \cup {Idle} :
               op'[p] = q /\ (q # Idle => Sound(q)')
  <2>1. CASE op[p] = Idle
    BY <1>6, <2>1
  <2>2. CASE op[p] # Idle
    <3>1. PICK r \in BundleRequest : op[p] = r /\ Sound(r)
      BY <2>2 DEF ConfigInv, ConfigTypes, RequestsSound
    <3>2. r.mixed \in BOOLEAN
      BY DEF BundleRequest
    <3>3. PICK b \in BOOLEAN : b = (r.mixed \/ (r.step = "building" /\ r.baked # rows))
      BY <3>2
    <3> DEFINE q == [r EXCEPT !.mixed = b]
    <3>4. op'[p] = q
      BY <1>6, <2>2, <3>1, <3>3
    <3>5. /\ q \in BundleRequest /\ q.step = r.step /\ q.kind = r.kind /\ q.type = r.type
          /\ q.baked = r.baked /\ q.preset = r.preset /\ q.edited = r.edited /\ q.mixed = b
      BY Mixed
    <3> HIDE DEF q
    <3>6. q.step = "building" /\ q.kind = "build" /\ ~q.mixed => q.baked = synced'
      BY <1>3, <3>3, <3>5
    <3>7. Sound(q)'
      BY <1>8, <3>1, <3>5, <3>6 DEF Sound
    <3> QED
      BY <3>4, <3>5, <3>7
  <2> QED
    BY <2>1, <2>2
<1>10. \E q \in BundleRequest \cup {Idle} :
         op'[o] = q /\ (q # Idle => Sound(q)')
  <2>1. CASE op'[o] = Idle
    BY <2>1
  <2>2. CASE op'[o] = [op[o] EXCEPT !.step = "building", !.baked = rows, !.preset = x,
                                              !.edited = FALSE]
    <3> DEFINE a == [op[o] EXCEPT !.step = "building"]
               b == [a EXCEPT !.baked = rows]
               c == [b EXCEPT !.preset = x]
               q == [c EXCEPT !.edited = FALSE]
    <3>1. op'[o] = q
      BY <2>2
    <3>2. a \in BundleRequest /\ a.step = "building" /\ a.kind = op[o].kind /\ a.type = op[o].type
      BY <1>1, AtStep
    <3> HIDE DEF a
    <3>3. /\ b \in BundleRequest /\ b.step = "building" /\ b.kind = op[o].kind
          /\ b.type = op[o].type /\ b.baked = rows
      BY <1>1, <3>2, Baked
    <3> HIDE DEF b
    <3>4. PICK y \in Presets \cup {NoPreset} : y = x
      BY <1>5
    <3>5. /\ c \in BundleRequest /\ c.step = "building" /\ c.kind = op[o].kind
          /\ c.type = op[o].type /\ c.baked = rows /\ c.preset = y
      BY <3>3, <3>4, PresetKnown
    <3> HIDE DEF c
    <3>6. /\ q \in BundleRequest /\ q.step = "building" /\ q.kind = op[o].kind
          /\ q.type = op[o].type /\ q.baked = rows /\ q.preset = y
      BY <3>5, Edited
    <3> HIDE DEF q
    <3>7. PICK z \in BundleRequest :
            /\ z = q /\ z.step = "building" /\ z.baked = rows
            /\ z.kind = "spawn" => z.type \in TypeNames /\ z.preset = AgentType(z.type)
      BY <1>4, <3>4, <3>6
    <3>8. Sound(z)'
      BY <1>3, <1>8, <3>7 DEF Sound
    <3> QED
      BY <3>1, <3>7, <3>8
  <2> QED
    BY <1>7, <2>1, <2>2
<1>11. op' \in [Ops -> BundleRequest \cup {Idle}]
  <2>1. DOMAIN op' = Ops /\ op' = [p \in Ops |-> op'[p]]
    BY DEF Sync
  <2> QED
    BY <1>9, <1>10, <2>1
<1>12. ConfigTypes'
  BY <1>1, <1>3, <1>11 DEF ConfigInv, ConfigTypes
<1>13. RequestsSound'
  BY <1>9, <1>10 DEF RequestsSound
<1>14. PromptsSound' /\ PresetHonoured'
  BY <1>3 DEF ConfigInv, PromptsSound, PresetHonoured
<1> QED
  BY <1>12, <1>13, <1>14 DEF ConfigInv

\* The same for the files.
LEMMA SyncsFiles ==
  ASSUME ConfigInv, NEW o \in Ops, Sync(o)
  PROVE  FilesInv'
<1>1. files' = Materialize(rows).files /\ touched' = Materialize(rows).touched /\ synced' = rows
  BY DEF Sync
<1>2. Materialize(rows).files = [d \in Dirs |-> FileOf(rows, d)] /\ Materialize(rows).touched \subseteq Dirs
  BY DEF Materialize, FileOf
<1> QED
  BY <1>1, <1>2 DEF FilesInv, FileOf, RowsOf, LastRow, Projected, ListSkills, SkillMarkdown, NotAfter

\* A request whose session is there, or that has failed, is over.
LEMMA RequestOver ==
  ASSUME ConfigInv, NEW o \in Ops, op' = [op EXCEPT ![o] = Idle],
         UNCHANGED <<rows, types, files, touched, synced>>
  PROVE  RequestsSound' /\ op' \in [Ops -> BundleRequest \cup {Idle}]
<1>1. ASSUME NEW p \in Ops, op'[p] # Idle PROVE Sound(op[p])' /\ op'[p] = op[p]
  <2>1. op'[p] = op[p] /\ op[p] # Idle
    BY <1>1 DEF ConfigInv, ConfigTypes
  <2>2. PICK q : q = op[p] /\ Sound(q)
    BY <2>1 DEF ConfigInv, RequestsSound
  <2>3. Sound(q)'
    BY <2>2 DEF Sound, AgentType, ListAgentTypes
  <2> QED
    BY <2>1, <2>2, <2>3
<1>2. RequestsSound'
  BY <1>1 DEF RequestsSound
<1>3. op' \in [Ops -> BundleRequest \cup {Idle}]
  BY DEF ConfigInv, ConfigTypes
<1> QED
  BY <1>2, <1>3

\* A session is built: its prompt is a snapshot of the rows it was synced from.
LEMMA Builds ==
  ASSUME ConfigInv, NEW o \in Ops, Built(o)
  PROVE  ConfigInv'
<1>1. PICK q \in BundleRequest : op[o] = q /\ Sound(q)
  <2>1. op[o] # Idle
    BY DEF Built, Idle
  <2> QED
    BY <2>1 DEF ConfigInv, ConfigTypes, RequestsSound
<1> DEFINE s == q.session
           x == [step |-> "live", extra |-> Extra(q.baked), baked |-> q.baked,
                 version |-> synced, models |-> q.models]
<1>2. /\ q.step = "building" /\ q.kind = "build"
      /\ live' = [live EXCEPT ![s] = x]
      /\ mixed' = IF q.mixed THEN mixed \cup {s} ELSE mixed \ {s}
      /\ op' = [op EXCEPT ![o] = Idle]
      /\ UNCHANGED <<rows, types, files, touched, synced, models, cache, created, subagent>>
  BY <1>1 DEF Built, disk, bundle
<1>3. /\ q.baked \in Rows /\ q.models \in 0..MaxModels
      /\ s \in Sessions \cup {"none"} /\ q.mixed \in BOOLEAN
  BY DEF BundleRequest
<1>4. x \in Snapshot /\ x.extra = Extra(q.baked) /\ x.baked = q.baked /\ x.version = synced
  BY <1>3, ExtraTyped DEF Snapshot, ConfigInv, ConfigTypes
<1>5. ~q.mixed => q.baked = synced
  BY <1>1, <1>2 DEF Sound
<1> HIDE DEF x
<1>6. x # Cold
  BY <1>4, NoConfusion
<1>7. live \in [Sessions -> Snapshot \cup {Cold}] /\ mixed \subseteq {t \in Sessions : live[t] # Cold}
  BY DEF ConfigInv, ConfigTypes
<1>8. live' \in [Sessions -> Snapshot \cup {Cold}] /\ \A t \in Sessions \ {s} : live'[t] = live[t]
  BY <1>2, <1>4, <1>7
<1>9. s \in Sessions => live'[s] = x
  BY <1>2, <1>7
<1>10. mixed' \subseteq {t \in Sessions : live'[t] # Cold}
  BY <1>2, <1>3, <1>6, <1>7, <1>8, <1>9
<1>11. PromptsSound'
  <2>1. ASSUME NEW t \in Sessions, t # s, live'[t] # Cold
        PROVE  /\ live'[t].extra = Extra(live'[t].baked)
               /\ t \notin mixed' => live'[t].version = live'[t].baked
    BY <1>2, <1>8, <2>1 DEF ConfigInv, PromptsSound
  <2>2. s \in Sessions =>
          /\ live'[s].extra = Extra(live'[s].baked)
          /\ s \notin mixed' => live'[s].version = live'[s].baked
    BY <1>2, <1>4, <1>5, <1>9
  <2> QED
    BY <2>1, <2>2 DEF PromptsSound, Extra
<1>12. ConfigTypes'
  BY <1>2, <1>8, <1>10, RequestOver DEF ConfigInv, ConfigTypes
<1>13. RequestsSound' /\ PresetHonoured'
  BY <1>2, RequestOver DEF ConfigInv, PresetHonoured
<1> QED
  BY <1>11, <1>12, <1>13 DEF ConfigInv

\* A subagent starts: it is told what its type says now.
LEMMA SpawnEnds ==
  ASSUME ConfigInv, NEW o \in Ops, Spawned(o)
  PROVE  ConfigInv'
<1>1. PICK q \in BundleRequest : op[o] = q /\ Sound(q)
  <2>1. op[o] # Idle
    BY DEF Spawned, Idle
  <2> QED
    BY <2>1 DEF ConfigInv, ConfigTypes, RequestsSound
<1>2. /\ q.step = "building" /\ q.kind = "spawn"
      /\ subagent' = [step |-> "started", type |-> q.type, preset |-> q.preset,
                   told |-> AgentType(q.type), edited |-> q.edited]
      /\ op' = [op EXCEPT ![o] = Idle]
      /\ UNCHANGED <<rows, types, files, touched, synced, models, cache, created, live, mixed>>
  BY <1>1 DEF Spawned, disk, bundle
<1>3. ~q.edited => q.preset = AgentType(q.type)
  BY <1>1, <1>2 DEF Sound
<1>4. PresetHonoured'
  BY <1>2, <1>3 DEF PresetHonoured
<1>5. ConfigTypes'
  BY <1>2, RequestOver DEF ConfigInv, ConfigTypes
<1>6. PromptsSound'
  BY <1>2 DEF ConfigInv, PromptsSound
<1> QED
  BY <1>2, <1>4, <1>5, <1>6, RequestOver DEF ConfigInv

LEMMA Chills ==
  ASSUME ConfigInv, NEW s \in Sessions, Chill(s)
  PROVE  ConfigInv'
<1>1. /\ live' = [live EXCEPT ![s] = Cold] /\ mixed' = mixed \ {s}
      /\ UNCHANGED <<rows, types, files, touched, synced, models, cache, created, op, subagent>>
  BY DEF Chill, disk, bundle
<1>2. ConfigTypes'
  BY <1>1 DEF ConfigInv, ConfigTypes
<1>3. PromptsSound'
  BY <1>1 DEF ConfigInv, ConfigTypes, PromptsSound
<1>4. PresetHonoured'
  BY <1>1 DEF ConfigInv, PresetHonoured
<1>5. RequestsSound'
  BY <1>1 DEF ConfigInv, RequestsSound, Sound, AgentType, ListAgentTypes
<1> QED
  BY <1>2, <1>3, <1>4, <1>5 DEF ConfigInv

LEMMA ConfigStep ==
  ASSUME ConfigInv, [ConfigNext]_(configVars)
  PROVE  ConfigInv'
<1>1. ASSUME UNCHANGED configVars PROVE ConfigInv'
  BY <1>1 DEF configVars, bundle, disk, built, ConfigInv, ConfigTypes,
       RequestsSound, Sound, AgentType, ListAgentTypes, PromptsSound, PresetHonoured
<1>2. ASSUME NEW n \in Names,
             \/ DeleteSkill(n)
             \/ \E hidden \in BOOLEAN :
                  \/ SetSkillHidden(n, hidden)
                  \/ \E x \in Texts : UpsertSkill(n, x, hidden)
      PROVE  ConfigInv'
  BY <1>2, SkillActions
<1>3. ASSUME NEW t \in TypeNames, NEW p \in Presets \cup {NoPreset}, SetAgentType(t, p)
      PROVE  ConfigInv'
  BY <1>3, TypeEdits
<1>4. ASSUME NEW o \in Ops,
             \/ PreviewSession(o)
             \/ \E s \in Sessions : Build(o, s)
             \/ \E t \in TypeNames : SpawnSubagent(o, t)
      PROVE  ConfigInv'
  BY <1>4, Asks
<1>5. ASSUME NEW o \in Ops, Loaded(o) \/ Created(o) \/ AskFails(o) PROVE ConfigInv'
  BY <1>5, BundleSteps
<1>6. ASSUME NEW o \in Ops, Sync(o) PROVE ConfigInv'
  BY <1>6, Syncs
<1>7. ASSUME NEW o \in Ops, Built(o) PROVE ConfigInv'
  BY <1>7, Builds
<1>8. ASSUME NEW o \in Ops, Spawned(o) PROVE ConfigInv'
  BY <1>8, SpawnEnds
<1>9. ASSUME NEW s \in Sessions, Chill(s) PROVE ConfigInv'
  BY <1>9, Chills
<1> QED
  BY <1>1, <1>2, <1>3, <1>4, <1>5, <1>6, <1>7, <1>8, <1>9 DEF ConfigNext

LEMMA FilesStep ==
  ASSUME ConfigInv, FilesInv, [ConfigNext]_(configVars)
  PROVE  FilesInv'
<1>1. ASSUME UNCHANGED disk PROVE FilesInv'
  BY <1>1 DEF disk, FilesInv, FileOf
<1>2. CASE \E o \in Ops : Sync(o)
  BY <1>2, SyncsFiles
<1>3. CASE ~\E o \in Ops : Sync(o)
  <2>1. CASE UNCHANGED configVars
    <3>1. UNCHANGED disk
      BY <2>1 DEF configVars, disk
    <3> QED
      BY <1>1, <3>1
  <2>2. CASE ConfigNext
    <3>1. UNCHANGED disk
      BY <1>3, <2>2 DEF ConfigNext, DeleteSkill, SetSkillHidden, UpsertSkill,
           SkillEdit, SetAgentType, PreviewSession, Build,
           SpawnSubagent, Ask, Loaded, Created, Built,
           Spawned, AskFails, Chill
    <3> QED
      BY <1>1, <3>1
  <2> QED
    BY <2>1, <2>2
<1> QED
  BY <1>2, <1>3

\* Nothing but a sync takes a request further that has its bundle.
LEMMA WaitsForSync ==
  ASSUME ConfigInv, ConfigNext, NEW o \in Ops, op[o].step = "ready",
         ~\E p \in Ops : Sync(p)
  PROVE  op'[o].step = op[o].step
<1>1. op \in [Ops -> BundleRequest \cup {Idle}]
  BY DEF ConfigInv, ConfigTypes
<1>2. op[o] # Idle /\ op[o] \in BundleRequest
  BY <1>1 DEF Idle
<1>3. ASSUME NEW p \in Ops, op[p].step # "ready" \/ op[p] = Idle,
             \A r \in Ops \ {p} : op'[r] = op[r]
      PROVE  op'[o].step = op[o].step
  BY <1>2, <1>3
<1>4. ASSUME NEW p \in Ops,
             \/ PreviewSession(p)
             \/ \E s \in Sessions : Build(p, s)
             \/ \E t \in TypeNames : SpawnSubagent(p, t)
      PROVE  op'[o].step = op[o].step
  BY <1>1, <1>3, <1>4 DEF PreviewSession, Build, SpawnSubagent, Ask
<1>5. ASSUME NEW p \in Ops, Loaded(p) \/ Created(p) \/ AskFails(p)
      PROVE  op'[o].step = op[o].step
  BY <1>1, <1>3, <1>5 DEF Loaded, Created, AskFails
<1>6. ASSUME NEW p \in Ops, Built(p) \/ Spawned(p)
      PROVE  op'[o].step = op[o].step
  BY <1>1, <1>3, <1>6 DEF Built, Spawned
<1>7. ASSUME NEW t \in TypeNames, NEW x \in Presets \cup {NoPreset}, SetAgentType(t, x)
      PROVE  op'[o].step = op[o].step
  <2>1. op'[o] = [op[o] EXCEPT !.edited = TRUE] \/ op'[o] = op[o]
    BY <1>7 DEF SetAgentType
  <2> QED
    BY <1>2, <2>1, Edited
<1>8. ASSUME op' = op PROVE op'[o].step = op[o].step
  BY <1>8
<1>9. ASSUME NEW n \in Names,
             \/ DeleteSkill(n)
             \/ \E hidden \in BOOLEAN :
                  \/ SetSkillHidden(n, hidden)
                  \/ \E x \in Texts : UpsertSkill(n, x, hidden)
      PROVE  op'[o].step = op[o].step
  BY <1>8, <1>9 DEF DeleteSkill, SetSkillHidden, UpsertSkill, SkillEdit
<1>10. ASSUME NEW s \in Sessions, Chill(s) PROVE op'[o].step = op[o].step
  BY <1>8, <1>10 DEF Chill
<1> QED
  BY <1>4, <1>5, <1>6, <1>7, <1>9, <1>10 DEF ConfigNext

-----------------------------------------------------------------------------
(* The theorems on the bundle, for names of which several may make one     *)
(* directory.                                                              *)

\* The inductive invariant of the bundle holds in every reachable state.
THEOREM ConfigInductive ==
  ConfigSpec => []ConfigInv
<1>1. ConfigInit => ConfigInv
  <2> SUFFICES ASSUME ConfigInit PROVE ConfigInv
    OBVIOUS
  <2>1. NoRows \in Rows
    BY DEF NoRows, Rows
  <2>2. ConfigTypes
    BY <2>1, ConfigAssumption DEF ConfigInit, ConfigTypes
  <2>3. RequestsSound /\ PromptsSound /\ PresetHonoured
    BY DEF ConfigInit, RequestsSound, PromptsSound, PresetHonoured
  <2> QED
    BY <2>2, <2>3 DEF ConfigInv
<1>2. ConfigInv /\ [ConfigNext]_(configVars) => ConfigInv'
  BY ConfigStep
<1> QED
  BY <1>1, <1>2, PTL DEF ConfigSpec

\* The files are those of the last sync in every reachable state.
THEOREM FilesInductive == ConfigSpec => []FilesInv
<1>1. ConfigInit => FilesInv
  <2> SUFFICES ASSUME ConfigInit PROVE FilesInv
    OBVIOUS
  <2>1. \A d : RowsOf(synced, d) = {}
    <3>1. \A n \in Names : synced[n] = NoRow
      BY DEF ConfigInit, NoRows
    <3> QED
      BY <3>1 DEF RowsOf, Projected, ListSkills
  <2> QED
    BY <2>1 DEF ConfigInit, FilesInv, FileOf
<1>2. ConfigInv /\ FilesInv /\ [ConfigNext]_(configVars) => FilesInv'
  BY FilesStep
<1> QED
  BY <1>1, <1>2, ConfigInductive, PTL DEF ConfigSpec

\* Rows, files, requests and snapshots stay in their types.
THEOREM ConfigTypeCorrect == ConfigSpec => []ConfigTypeOK
<1>1. ConfigInv /\ FilesInv => ConfigTypeOK
  <2> SUFFICES ASSUME ConfigInv, FilesInv PROVE ConfigTypeOK
    OBVIOUS
  <2>1. ASSUME NEW o \in Ops, op[o] # Idle
        PROVE  /\ op[o].step \in {"loading", "creating", "ready", "building"}
               /\ op[o].kind \in {"peek", "build", "spawn"}
               /\ op[o].session \in Sessions \cup {"none"}
               /\ op[o].models \in 0..MaxModels /\ op[o].baked \in Rows
    BY <2>1 DEF ConfigInv, ConfigTypes, BundleRequest
  <2>2. ASSUME NEW s \in Sessions, live[s] # Cold
        PROVE  live[s].extra \subseteq File /\ {live[s].baked, live[s].version} \subseteq Rows
    BY <2>2 DEF ConfigInv, ConfigTypes, Snapshot
  <2>3. /\ rows \in Rows /\ synced \in Rows
        /\ types \in [TypeNames -> Presets \cup {NoPreset}]
        /\ files \in [Dirs -> File \cup {NoFile}] /\ touched \subseteq Dirs
        /\ {models, cache, created} \subseteq 0..MaxModels
        /\ mixed \subseteq {s \in Sessions : live[s] # Cold}
    BY FilesTyped DEF ConfigInv, ConfigTypes, FilesInv
  <2> QED
    BY <2>1, <2>2, <2>3 DEF ConfigTypeOK
<1> QED
  BY <1>1, ConfigInductive, FilesInductive, PTL

\* Staleness is exact: a session is reported stale exactly when its prompt was
\* built from other rows, unless another sync came between.
THEOREM StalenessExact ==
  ConfigSpec => []StaleExact
<1>1. ConfigInv => StaleExact
  BY DEF ConfigInv, PromptsSound, StaleExact, Stale
<1> QED
  BY <1>1, ConfigInductive, PTL

\* Staleness is exact, and what a prompt advertises is in the files: whatever
\* is edited, built, evicted or previewed in between, and where several skills
\* share a file it is one of theirs.
THEOREM SnapshotsAreHonest == ConfigSpec => []SnapshotsHonest
<1>1. ConfigInv /\ FilesInv => SnapshotsHonest
  <2> SUFFICES ASSUME ConfigInv, FilesInv PROVE SnapshotsHonest
    OBVIOUS
  <2>1. StaleExact
    BY DEF ConfigInv, PromptsSound, StaleExact, Stale
  <2>2. AdvertisedReadable
    <3> SUFFICES ASSUME NEW s \in Sessions \ mixed, live[s] # Cold, s \notin Stale,
                        synced = rows, NEW f \in live[s].extra, NEW d, d = Dir[f.name]
                 PROVE  /\ ~Collide(rows, d) => files[d] = f
                        /\ \E n \in RowsOf(rows, d) : files[d] = SkillMarkdown(n, rows)
      BY DEF AdvertisedReadable
    <3>1. live[s].baked = rows /\ live[s].extra = Extra(live[s].baked)
      BY DEF ConfigInv, PromptsSound, Stale
    <3>2. PICK n \in Projected(rows) : f = SkillMarkdown(n, rows)
      BY <3>1 DEF Extra
    <3>3. f.name = n /\ n \in RowsOf(rows, d) /\ d \in Dirs
      BY <3>2 DEF SkillMarkdown, RowsOf, Projected, ListSkills, Dirs
    <3>4. LastRow(rows, d) \in RowsOf(rows, d)
      BY <3>3, LastRowIsRow DEF ConfigInv, ConfigTypes
    <3>5. files[d] = SkillMarkdown(LastRow(rows, d), rows)
      BY <3>3 DEF FilesInv, FileOf
    <3>6. ~Collide(rows, d) => files[d] = f
      BY <3>2, <3>3, <3>5, OnlyRow
    <3> QED
      BY <3>4, <3>5, <3>6
  <2> QED
    BY <2>1, <2>2 DEF SnapshotsHonest
<1> QED
  BY <1>1, ConfigInductive, FilesInductive, PTL

\* A subagent's tools, model and instructions are of one preset, unless its
\* type was edited while it was built.
THEOREM PresetsAreHonoured ==
  ConfigSpec => []PresetHonoured
<1>1. ConfigInv => PresetHonoured
  BY DEF ConfigInv
<1> QED
  BY <1>1, ConfigInductive, PTL

\* No sync writes to a directory that it leaves as it was, unless several skills
\* share it.
THEOREM SyncsTouchChanges == ConfigSpec => OnlyChangesTouched
<1> DEFINE A == (\E o \in Ops : op[o].step = "ready" /\ op'[o].step # "ready") =>
                  \A d \in touched' : files'[d] # files[d] \/ Collide(rows, d)
<1>1. ConfigInv /\ [ConfigNext]_(configVars) => [A]_(configVars)
  <2> SUFFICES ASSUME ConfigInv, ConfigNext, NEW o \in Ops,
                      op[o].step = "ready", op'[o].step # "ready"
               PROVE  \A d \in touched' : files'[d] # files[d] \/ Collide(rows, d)
    OBVIOUS
  <2>1. CASE \E p \in Ops : Sync(p)
    <3>1. touched' = Materialize(rows).touched /\ files' = Materialize(rows).files /\ rows \in Rows
      BY <2>1 DEF Sync, ConfigInv, ConfigTypes
    <3> QED
      BY <3>1, Materialized
  <2>2. CASE ~\E p \in Ops : Sync(p)
    <3>1. op'[o].step = op[o].step
      BY <2>2, WaitsForSync
    <3> QED
      BY <3>1
  <2> QED
    BY <2>1, <2>2
<1> QED
  BY <1>1, ConfigInductive, PTL DEF ConfigSpec, OnlyChangesTouched
=============================================================================
