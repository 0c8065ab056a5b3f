--------------------------- MODULE SubagentBatch ----------------------------
(***************************************************************************)
(* The spawn_subagent tool (runtime/src/subagent-tool.ts) over the shared  *)
(* SubagentLimiter: each tool call runs a batch of units concurrently, a   *)
(* unit waits for a slot, spawns a child session, drives it to its         *)
(* agent_end, gives the slot back and evicts the child.  Parents may       *)
(* cancel their turn, children may outlive it, and the parent's model may  *)
(* change while units wait.                                                *)
(*                                                                         *)
(* A step is the code between two awaits.  The 60 s slot wait and the      *)
(* 10 min run timeout are a nondeterministic choice of when they expire.   *)
(* execute polls once for each unit before it yields: until each has, no   *)
(* other step is taken (Quiet).                                            *)
(***************************************************************************)
EXTENDS Integers, FiniteSets

CONSTANTS
  Parents, Providers, NoProvider,
  Global, PerParent, MaxDepth, Capped, ProviderCap,
  Calls, ParentOf,    \* tool calls and the session each is made in
  Tasks, CallOf,      \* units of work and the call whose `tasks` lists them
  Refs, NoRef,        \* model references (strings); NoRef: none given
  Canonical,          \* the references modelRef writes: `provider/id`
  Named,              \* what providerOf reads in a reference, or NoProvider
  Resolves,           \* the provider of the model the router resolves it to
  Override, Preset    \* the model a call, and a task's agent type, asks for

ASSUME BatchAssumption ==
  /\ ParentOf \in [Calls -> Parents] /\ CallOf \in [Tasks -> Calls]
  /\ NoRef \notin Refs /\ Canonical \subseteq Refs
  /\ Named \in [Refs -> Providers \cup {NoProvider}]
  /\ Resolves \in [Refs -> Providers]
  /\ \A r \in Canonical : Named[r] = Resolves[r]
  /\ Override \in [Calls -> Refs \cup {NoRef}]
  /\ Preset \in [Tasks -> Refs \cup {NoRef}]

VARIABLES
  total, perParent, perProvider, issued, released,   \* the limiter's
  phase,       \* of a call: "idle", "running", "returned", "threw"
  aborted,     \* parents whose turn's AbortSignal has fired
  model,       \* index.getRef(parent).model
  asked,       \* the provider execute resolved for a call (line 305)
  pc,          \* where a unit's runOne is
  outcome,     \* the unit's TaskOutcome, once it has one
  child,       \* its child session
  runsOn       \* the provider of the child's model

limiter == <<total, perParent, perProvider, issued, released>>
batch == <<phase, aborted, model, asked>>
units == <<pc, outcome, child, runsOn>>
vars == <<limiter, batch, units>>

L == INSTANCE SubagentLimiter WITH Slots <- Tasks, Depths <- {1}

\* The caps are limitsFromEnv's.
ASSUME CapsAssumption == L!LegalLimits /\ NoProvider \notin Providers

Parent(t) == ParentOf[CallOf[t]]
TasksOf(c) == {t \in Tasks : CallOf[t] = c}

\* Units that have a slot, and those whose child the tool is waiting for.
Admitted == {t \in Tasks : pc[t] \in {"spawning", "running", "settled"}}
Failed(t) == outcome[t] \in {"notStarted", "failed"}

\* No execute is in the middle of its first polls.
Quiet == \A t \in Tasks : pc[t] # "fresh"

\* `a ?? b`
Or(a, b) == IF a # NoRef THEN a ELSE b

Init ==
  /\ L!Init
  /\ phase = [c \in Calls |-> "idle"]
  /\ aborted = {}
  /\ model \in [Parents -> Canonical]
  /\ asked = [c \in Calls |-> NoProvider]
  /\ pc = [t \in Tasks |-> "idle"]
  /\ outcome = [t \in Tasks |-> "none"]
  /\ child = [t \in Tasks |-> "none"]
  /\ runsOn = [t \in Tasks |-> NoProvider]

-----------------------------------------------------------------------------
(* The tool call *)

\* Mutant: the reference is passed on without providerOf.
ExecuteAsksForModel(c) ==
  /\ Quiet /\ phase[c] = "idle" /\ ParentOf[c] \notin aborted
  /\ phase' = [phase EXCEPT ![c] = IF TasksOf(c) = {} THEN "threw" ELSE "running"]
  /\ asked' = [asked EXCEPT ![c] = Or(Override[c], model[ParentOf[c]])]
  /\ pc' = [t \in Tasks |-> IF t \in TasksOf(c) THEN "fresh" ELSE pc[t]]
  /\ UNCHANGED <<limiter, aborted, model, outcome, child, runsOn>>

\* execute: the provider is resolved once for the whole batch, and every unit
\* starts its runOne.  A call without tasks throws.
Execute(c) ==
  /\ Quiet /\ phase[c] = "idle" /\ ParentOf[c] \notin aborted
  /\ phase' = [phase EXCEPT ![c] = IF TasksOf(c) = {} THEN "threw" ELSE "running"]
  /\ asked' = [asked EXCEPT ![c] = Named[Or(Override[c], model[ParentOf[c]])]]
  /\ pc' = [t \in Tasks |-> IF t \in TasksOf(c) THEN "fresh" ELSE pc[t]]
  /\ UNCHANGED <<limiter, aborted, model, outcome, child, runsOn>>

\* Mutant: results are collected before the evictions have finished.
ReturnEarly(c) ==
  /\ Quiet /\ phase[c] = "running" /\ \A t \in TasksOf(c) : outcome[t] # "none"
  /\ phase' = [phase EXCEPT ![c] =
       IF \A t \in TasksOf(c) : Failed(t) THEN "threw" ELSE "returned"]
  /\ UNCHANGED <<limiter, aborted, model, asked, units>>

\* Promise.all has every outcome.  Only an all-failed batch throws.
Return(c) ==
  /\ Quiet /\ phase[c] = "running" /\ \A t \in TasksOf(c) : pc[t] = "done"
  /\ phase' = [phase EXCEPT ![c] =
       IF \A t \in TasksOf(c) : Failed(t) THEN "threw" ELSE "returned"]
  /\ UNCHANGED <<limiter, aborted, model, asked, units>>

\* The parent's turn is cancelled: the signal's listeners run at once, and there
\* is one for each child being driven (onAbort), none for a unit still waiting
\* for a slot or for its child to be built.
Abort(p) ==
  /\ Quiet /\ p \notin aborted
  /\ \E c \in Calls : ParentOf[c] = p /\ phase[c] = "running"
  /\ aborted' = aborted \cup {p}
  /\ LET stopped == {t \in Tasks : Parent(t) = p /\ pc[t] = "running"} IN
     /\ pc' = [t \in Tasks |-> IF t \in stopped THEN "settled" ELSE pc[t]]
     /\ outcome' = [t \in Tasks |-> IF t \in stopped THEN "failed" ELSE outcome[t]]
  /\ UNCHANGED <<limiter, phase, model, asked, child, runsOn>>

\* setModel on the parent, through its mailbox, at any time (onModelChanged
\* writes the canonical reference to the index).
SetModel(p, m) ==
  /\ Quiet
  /\ model' = [model EXCEPT ![p] = m]
  /\ UNCHANGED <<limiter, phase, aborted, asked, units>>

-----------------------------------------------------------------------------
(* One unit: runOne *)

\* acquireSlot, a poll that is admitted.  The continuation calls spawnSubagent
\* in the same turn of the event loop, which reads the parent's ref at once.
\* The admission is asked before the signal is looked at.
Acquire(t) ==
  /\ pc[t] = "fresh" \/ (Quiet /\ pc[t] = "acquiring")
  /\ L!Admit(t, Parent(t), 1, asked[CallOf[t]])
  /\ pc' = [pc EXCEPT ![t] = "spawning"]
  /\ runsOn' = [runsOn EXCEPT ![t] =
       Resolves[Or(Override[CallOf[t]], Or(Preset[t], model[Parent(t)]))]]
  /\ UNCHANGED <<batch, outcome, child>>

\* acquireSlot, the first poll refused: sleep, and poll again.  (Later polls
\* that are refused change nothing.)
Wait(t) ==
  /\ pc[t] = "fresh"
  /\ L!Refused(Parent(t), 1, asked[CallOf[t]])
  /\ pc' = [pc EXCEPT ![t] = "acquiring"]
  /\ UNCHANGED <<limiter, batch, outcome, child, runsOn>>

\* acquireSlot, a refused poll at which the signal is aborted or the deadline
\* has passed: the unit is not started.
GiveUp(t) ==
  /\ Quiet /\ pc[t] = "acquiring"
  /\ L!Refused(Parent(t), 1, asked[CallOf[t]])
  /\ pc' = [pc EXCEPT ![t] = "done"]
  /\ outcome' = [outcome EXCEPT ![t] = "notStarted"]
  /\ UNCHANGED <<limiter, batch, child, runsOn>>

\* spawnSubagent resolves; runSubagentToCompletion arms its timer and listeners
\* and posts the prompt to the child's mailbox.
Spawn(t) ==
  /\ Quiet /\ pc[t] = "spawning"
  /\ pc' = [pc EXCEPT ![t] = "running"]
  /\ child' = [child EXCEPT ![t] = "starting"]
  /\ UNCHANGED <<limiter, batch, outcome, runsOn>>

\* Mutant: no release on the path without a child.
SpawnFailsLeaking(t) ==
  /\ Quiet /\ pc[t] = "spawning"
  /\ pc' = [pc EXCEPT ![t] = "done"]
  /\ outcome' = [outcome EXCEPT ![t] = "failed"]
  /\ UNCHANGED <<limiter, batch, child, runsOn>>

\* spawnSubagent throws (an unknown agent type, a failing pi session): there is
\* no child to evict, so the finally block only gives the slot back.
SpawnFails(t) ==
  /\ Quiet /\ pc[t] = "spawning"
  /\ L!Release(t)
  /\ pc' = [pc EXCEPT ![t] = "done"]
  /\ outcome' = [outcome EXCEPT ![t] = "failed"]
  /\ UNCHANGED <<batch, child, runsOn>>

\* finish(): the first of its callers settles the promise, the rest do nothing.
Finish(t, result) ==
  IF pc[t] = "running"
  THEN /\ pc' = [pc EXCEPT ![t] = "settled"]
       /\ outcome' = [outcome EXCEPT ![t] = result]
  ELSE UNCHANGED <<pc, outcome>>

\* Mutant: the run resolves when the prompt is accepted.
PromptAcceptedResolves(t) ==
  /\ Quiet /\ child[t] = "starting"
  /\ child' = [child EXCEPT ![t] = "streaming"]
  /\ Finish(t, "ok")
  /\ UNCHANGED <<limiter, batch, runsOn>>

\* The child's mailbox accepts the prompt and pi starts its turn, whether or
\* not the tool still waits for it.
PromptAccepted(t) ==
  /\ Quiet /\ child[t] = "starting"
  /\ child' = [child EXCEPT ![t] = "streaming"]
  /\ UNCHANGED <<limiter, batch, pc, outcome, runsOn>>

\* The mailbox refuses it (authorization, pi's preflight).
PromptRejected(t) ==
  /\ Quiet /\ child[t] = "starting"
  /\ child' = [child EXCEPT ![t] = "ended"]
  /\ Finish(t, "failed")
  /\ UNCHANGED <<limiter, batch, runsOn>>

\* The child's agent_end, by its own doing.
ChildEnds(t) ==
  /\ Quiet /\ child[t] = "streaming"
  /\ child' = [child EXCEPT ![t] = "ended"]
  /\ Finish(t, "ok")
  /\ UNCHANGED <<limiter, batch, runsOn>>

\* stopSubagent on the parent, past the child's mailbox: the abort ends the
\* child's run, which the tool takes for its end.  A child whose prompt has not
\* been accepted yet has no run to abort.
StopSubagent(t) ==
  /\ Quiet /\ child[t] = "streaming"
  /\ child' = [child EXCEPT ![t] = "ended"]
  /\ Finish(t, "ok")
  /\ UNCHANGED <<limiter, batch, runsOn>>

\* Mutant: the timer is armed only once the child streams.
TimeoutOfStream(t) ==
  /\ Quiet /\ pc[t] = "running" /\ child[t] = "streaming"
  /\ Finish(t, "failed")
  /\ UNCHANGED <<limiter, batch, child, runsOn>>

\* The run timer fires.  The child is not told.
Timeout(t) ==
  /\ Quiet /\ pc[t] = "running"
  /\ Finish(t, "failed")
  /\ UNCHANGED <<limiter, batch, child, runsOn>>

\* runOne's finally block: the slot first, then `await evict`.
Finally(t) ==
  /\ Quiet /\ pc[t] = "settled"
  /\ L!Release(t)
  /\ pc' = [pc EXCEPT ![t] = "evicting"]
  /\ UNCHANGED <<batch, outcome, child, runsOn>>

\* The child's runtime is disposed, and runOne returns its outcome.
Evicted(t) ==
  /\ Quiet /\ pc[t] = "evicting"
  /\ pc' = [pc EXCEPT ![t] = "done"]
  /\ child' = [child EXCEPT ![t] = "disposed"]
  /\ UNCHANGED <<limiter, batch, outcome, runsOn>>

\* pi's dispose throws, so evict rejects, which is swallowed: the child's runtime
\* is left in the registry's map.
EvictFails(t) ==
  /\ Quiet /\ pc[t] = "evicting"
  /\ pc' = [pc EXCEPT ![t] = "done"]
  /\ child' = [child EXCEPT ![t] = "left"]
  /\ UNCHANGED <<limiter, batch, outcome, runsOn>>

-----------------------------------------------------------------------------
Next ==
  \/ \E c \in Calls : Execute(c) \/ Return(c)
  \/ \E p \in Parents : Abort(p) \/ \E m \in Canonical : SetModel(p, m)
  \/ \E t \in Tasks :
       \/ Acquire(t) \/ Wait(t) \/ GiveUp(t) \/ Spawn(t) \/ SpawnFails(t)
       \/ PromptAccepted(t) \/ PromptRejected(t) \/ ChildEnds(t) \/ StopSubagent(t)
       \/ Timeout(t) \/ Finally(t) \/ Evicted(t) \/ EvictFails(t)

\* What the event loop and the timers guarantee: a waiting unit polls until it
\* is admitted or its deadline passes, a spawn resolves or throws, the run timer
\* fires, and continuations run.  Nothing is asked of the children or parents.
Fairness ==
  /\ \A t \in Tasks :
       /\ WF_vars(Acquire(t) \/ Wait(t) \/ GiveUp(t))
       /\ WF_vars(Spawn(t) \/ SpawnFails(t))
       /\ WF_vars(Timeout(t))
       /\ WF_vars(Finally(t))
       /\ WF_vars(Evicted(t) \/ EvictFails(t))
  /\ \A c \in Calls : WF_vars(Return(c))

Spec == Init /\ [][Next]_vars
FairSpec == Spec /\ Fairness

-----------------------------------------------------------------------------
TypeOK ==
  /\ L!TypeOK
  /\ phase \in [Calls -> {"idle", "running", "returned", "threw"}]
  /\ aborted \subseteq Parents
  /\ model \in [Parents -> Canonical]
  /\ asked \in [Calls -> Providers \cup {NoProvider}]
  /\ pc \in [Tasks -> {"idle", "fresh", "acquiring", "spawning", "running", "settled",
                       "evicting", "done"}]
  /\ outcome \in [Tasks -> {"none", "notStarted", "ok", "failed"}]
  /\ child \in [Tasks -> {"none", "starting", "streaming", "ended", "disposed", "left"}]
  /\ runsOn \in [Tasks -> Providers \cup {NoProvider}]

\* On every path through runOne (normal end, rejected prompt, timeout, abort,
\* failed spawn) a slot is out exactly while its unit is between admission and
\* the finally block, charged to the unit's own parent: none leaks, none is
\* given back early or twice.
SlotsMatchUnits ==
  {<<g.slot, g.parent>> : g \in L!Held} = {<<t, Parent(t)>> : t \in Admitted}

\* "No orphan lifecycle to manage" (line 6): when the tool call has returned or
\* thrown, none of its units holds a slot and every child it started is disposed,
\* or pi refused to dispose of it.
NoOrphans ==
  \A c \in Calls : phase[c] \in {"returned", "threw"} =>
    \A t \in TasksOf(c) : t \notin Admitted /\ child[t] \in {"none", "disposed", "left"}

\* A unit reported "not started" never had a slot nor a child, and one reported
\* good has seen its child's turn end.
OutcomesHonest ==
  \A t \in Tasks :
    /\ outcome[t] = "notStarted" =>
         child[t] = "none" /\ \A g \in issued : g.slot # t
    /\ outcome[t] = "ok" => child[t] \in {"ended", "disposed", "left"}

\* Every tool call ends, whatever its children do and however full the caps are
\* ("a saturated system degrades to a per-item error rather than a hang", 186).
CallsEnd == \A c \in Calls : phase[c] = "running" ~> phase[c] # "running"

-----------------------------------------------------------------------------
(* Claims of the comments and docs that the code does not keep *)

\* "Max children running concurrently for one parent session"
\* (subagent-limits.ts:21), of the children themselves.
ChildrenWithinParentCap ==
  \A p \in Parents :
    Cardinality({t \in Tasks : Parent(t) = p /\ child[t] = "streaming"}) <= PerParent

\* The per-provider limit of doc 03:129-132, "derived from the child's
\* `provider/id` model, resolved per call so `setModel` and per-batch overrides
\* are honoured", of the children the tool is still waiting for.
ProviderWithinCap ==
  \A v \in Capped :
    Cardinality({t \in Tasks : pc[t] = "running" /\ runsOn[t] = v}) <= ProviderCap[v]

\* A unit "aborts when the parent's turn is cancelled"
\* (test/subagent-tool.test.ts:349): none is started after the cancellation.
NoStartAfterAbort ==
  [][\A t \in Tasks : Parent(t) \in aborted => child'[t] = child[t] \/ child'[t] # "starting"]_vars
=============================================================================
