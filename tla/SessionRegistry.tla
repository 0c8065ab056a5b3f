--------------------------- MODULE SessionRegistry --------------------------
(***************************************************************************)
(* AkkoSessionRegistry (runtime/src/session-registry.ts): the map from     *)
(* session ids to live runtimes over the durable index.  Runtimes are a    *)
(* cache: built by createConversation, spawnSubagent or get, dropped by    *)
(* evict or by a restart of the process.                                   *)
(*                                                                         *)
(* An operation is a request in progress (o \in Ops); a step is the code   *)
(* between two awaits, except that the awaits of the workspace runtime, of *)
(* the store and of createAgentSession, between which no state of this     *)
(* module is touched, are one.  What they read and write besides is in     *)
(* WorkspaceConfig.  One workspace: nothing is shared between workspaces.  *)
(* Pi has some model for every session.                                    *)
(***************************************************************************)
EXTENDS Integers, Sequences, FiniteSets

CONSTANTS
  Sessions, NoSession,
  Ops,             \* requests that may be in progress at the same time
  Models, NoModel,
  MaxRuntimes,     \* bound: runtimes built before the process restarts
  MaxChanges       \* bound: changes of model, and builds with pi's default

ASSUME RegistryAssumption ==
  NoSession \notin Sessions /\ NoModel \notin Models /\ {MaxRuntimes, MaxChanges} \subseteq Nat

VARIABLES
  index,           \* the durable rows: session -> what its ref says, if any
  runtimes,        \* every runtime object of this process, by position
  live,            \* #live: session -> position in runtimes, 0 if absent
  op,              \* where each request is
  got,             \* the runtime each request returned last, 0 if none
  chilled,         \* history: sessions that were evicted or outlived a process
  overlapped,      \* history: two requests have been in progress at once
  late,            \* history: sessions whose model an evicted runtime has
                   \* changed in the index since a get last read their ref
  changes          \* what MaxChanges bounds

memory == <<runtimes, live>>
requests == <<op, got>>
history == <<chilled, overlapped, late>>
vars == <<index, memory, requests, history, changes>>

Kinds == {"conversation", "subagent"}
Ref == [kind : Kinds, parent : Sessions \cup {NoSession}, restricted : BOOLEAN,
        model : Models]
NoRef == [kind |-> "none"]
Known(s) == index[s] # NoRef

\* restricted: the tools are cut down to those of the session's agent type.
\* model: the driver's; chosen: the one its setModel has set and the index does
\* not have yet; fallback: it is pi's default for a ref that did not resolve.
Runtime == [session : Sessions, state : {"attached", "disposing", "disposed"},
            delegates : BOOLEAN, restricted : BOOLEAN, model : Models,
            chosen : Models \cup {NoModel}, fallback : BOOLEAN]

Idle == [kind |-> "idle"]
Busy == [kind : {"get", "create", "evict"}, session : Sessions, ref : Ref, runtime : 0..MaxRuntimes]

Init ==
  /\ index = [s \in Sessions |-> NoRef]
  /\ runtimes = <<>>
  /\ live = [s \in Sessions |-> 0]
  /\ op = [o \in Ops |-> Idle]
  /\ got = [o \in Ops |-> 0]
  /\ chilled = {} /\ overlapped = FALSE /\ late = {} /\ changes = 0

\* The request goes on to await something, with what it has read before.
Await(o, kind, s, ref, r) ==
  op' = [op EXCEPT ![o] = [kind |-> kind, session |-> s, ref |-> ref, runtime |-> r]]

Begun ==
  /\ overlapped' = (overlapped \/ \E o \in Ops : op[o] # Idle)
  /\ UNCHANGED chilled

\* newSessionId: an id that is neither in the index nor promised to a request.
Fresh(s) == ~Known(s) /\ \A o \in Ops : op[o] # Idle => op[o].session # s

-----------------------------------------------------------------------------
(* The operations, up to their first await *)

\* get: the live runtime at once, or a rebuild from the ref as it is now.
Get(o, s) ==
  /\ op[o] = Idle /\ Known(s) /\ Begun
  /\ IF live[s] # 0
     THEN got' = [got EXCEPT ![o] = live[s]] /\ UNCHANGED <<op, late>>
     ELSE Await(o, "get", s, index[s], 0) /\ late' = late \ {s} /\ UNCHANGED got
  /\ UNCHANGED <<index, memory, changes>>

\* createConversation, with the model requested or pi's default.
Create(o, s, m) ==
  /\ op[o] = Idle /\ Fresh(s) /\ Begun
  /\ Await(o, "create", s, [kind |-> "conversation", parent |-> NoSession,
                            restricted |-> FALSE, model |-> m], 0)
  /\ UNCHANGED <<index, memory, got, late, changes>>

\* The first of them that is given ("??").
FirstOf(override, preset, inherited) ==
  CASE override # NoModel -> override [] preset # NoModel -> preset [] OTHER -> inherited

\* spawnSubagent, called by the spawn tool of a session that has it.  The agent
\* type may restrict the tools; the model is the override's, the preset's or
\* the one in the parent's ref.
Spawn(o, s, r, override, preset, restricted) ==
  /\ op[o] = Idle /\ Fresh(s) /\ Begun
  /\ r \in DOMAIN runtimes /\ runtimes[r].state # "disposed" /\ runtimes[r].delegates
  /\ LET parent == runtimes[r].session IN
     Await(o, "create", s, [kind |-> "subagent", parent |-> parent, restricted |-> restricted,
                            model |-> FirstOf(override, preset, index[parent].model)], 0)
  /\ UNCHANGED <<index, memory, got, late, changes>>

\* evict: dispose of the live runtime is awaited.
Evict(o, s) ==
  /\ op[o] = Idle /\ live[s] # 0 /\ Begun
  /\ Await(o, "evict", s, index[s], live[s])
  /\ runtimes' = [runtimes EXCEPT ![live[s]].state = IF @ = "attached" THEN "disposing" ELSE @]
  /\ UNCHANGED <<index, live, got, late, changes>>

-----------------------------------------------------------------------------
(* Their continuations *)

\* Mutant: only create passes the spawn tool.
BuildSessionOnCreate(r, resolves, default) ==
  [session |-> r.session, state |-> "attached",
   delegates |-> r.kind = "create" /\ r.ref.kind = "conversation",
   restricted |-> r.kind = "create" /\ r.ref.restricted,
   model |-> IF resolves THEN r.ref.model ELSE default,
   chosen |-> NoModel, fallback |-> r.kind = "get" /\ ~resolves]

\* Mutant: the persisted model choice is not re-applied.
BuildSessionDefaultModel(r, resolves, default) ==
  [session |-> r.session, state |-> "attached", delegates |-> r.ref.kind = "conversation",
   restricted |-> r.kind = "create" /\ r.ref.restricted,
   model |-> IF resolves /\ r.kind # "get" THEN r.ref.model ELSE default,
   chosen |-> NoModel, fallback |-> r.kind = "get" /\ ~resolves]

\* #buildSession: the spawn tool goes by the kind; only spawnSubagent passes an
\* agent type; the model is that of the ref the request has read if the router
\* (still) resolves it, and pi's default otherwise.
BuildSession(r, resolves, default) ==
  [session |-> r.session, state |-> "attached", delegates |-> r.ref.kind = "conversation",
   restricted |-> r.kind = "create" /\ r.ref.restricted,
   model |-> IF resolves THEN r.ref.model ELSE default,
   chosen |-> NoModel, fallback |-> r.kind = "get" /\ ~resolves]

\* #instantiate: a runtime on the session, attached and put into the map.
Instantiate(o, resolves, default) ==
  LET s == op[o].session  n == Len(runtimes) + 1 IN
  /\ runtimes' = Append(runtimes, BuildSession(op[o], resolves, default))
  /\ live' = [live EXCEPT ![s] = n]
  /\ got' = [got EXCEPT ![o] = n]
  /\ op' = [op EXCEPT ![o] = Idle]

\* Mutant: the ref is in the index while createAgentSession is still awaited.
BuiltPublishingEarly(o, resolves, default) ==
  /\ op[o] # Idle /\ op[o].kind # "evict" /\ Len(runtimes) < MaxRuntimes
  /\ IF Known(op[o].session)
     THEN Instantiate(o, resolves, default) /\ UNCHANGED index
     ELSE /\ index' = [index EXCEPT ![op[o].session] = op[o].ref]
          /\ UNCHANGED <<requests, runtimes, live>>
  /\ UNCHANGED <<history, changes>>

\* The pi session is built.  create and spawn upsert the ref in the same step,
\* with the model the session has got.
Built(o, resolves, default) ==
  /\ op[o] # Idle /\ op[o].kind # "evict" /\ Len(runtimes) < MaxRuntimes
  /\ index' = IF op[o].kind = "get" THEN index
              ELSE [index EXCEPT ![op[o].session] =
                      [op[o].ref EXCEPT !.model = IF resolves THEN @ ELSE default]]
  /\ Instantiate(o, resolves, default)
  /\ changes' = IF resolves THEN changes ELSE changes + 1
  /\ changes' <= MaxChanges
  /\ UNCHANGED history

\* An await of create, spawn or get throws, or the model asked of create does
\* not resolve; nothing was registered.
BuildFails(o) ==
  /\ op[o] # Idle /\ op[o].kind # "evict"
  /\ op' = [op EXCEPT ![o] = Idle]
  /\ UNCHANGED <<index, memory, got, history, changes>>

\* Mutant: the entry stays in the map.
EvictedKeepingEntry(o) ==
  /\ op[o] # Idle /\ op[o].kind = "evict"
  /\ runtimes' = [runtimes EXCEPT ![op[o].runtime].state = "disposed"]
  /\ op' = [op EXCEPT ![o] = Idle]
  /\ chilled' = chilled \cup {op[o].session}
  /\ UNCHANGED <<index, live, got, overlapped, late, changes>>

\* dispose has resolved: whatever the map has for the session is deleted.
Evicted(o) ==
  /\ op[o] # Idle /\ op[o].kind = "evict"
  /\ runtimes' = [runtimes EXCEPT ![op[o].runtime].state = "disposed"]
  /\ live' = [live EXCEPT ![op[o].session] = 0]
  /\ op' = [op EXCEPT ![o] = Idle]
  /\ chilled' = chilled \cup {op[o].session}
  /\ UNCHANGED <<index, got, overlapped, late, changes>>

-----------------------------------------------------------------------------
(* What goes on around the registry *)

\* applySetModel in a runtime's mailbox, up to the answer of the driver.  A
\* mailbox applies one command at a time, and goes on after an evict.
SetModel(r, m) ==
  /\ r \in DOMAIN runtimes /\ runtimes[r].chosen = NoModel
  /\ changes < MaxChanges /\ changes' = changes + 1
  /\ runtimes' = [runtimes EXCEPT ![r].model = m, ![r].chosen = m]
  /\ UNCHANGED <<index, live, requests, history>>

\* Its continuation, onModelChanged: the row as it is now, with that model.
ModelChanged(r) ==
  /\ r \in DOMAIN runtimes /\ runtimes[r].chosen # NoModel
  /\ index' = [index EXCEPT ![runtimes[r].session].model = runtimes[r].chosen]
  /\ runtimes' = [runtimes EXCEPT ![r].chosen = NoModel, ![r].fallback = FALSE]
  /\ late' = IF runtimes[r].state = "disposed" THEN late \cup {runtimes[r].session} ELSE late
  /\ UNCHANGED <<live, requests, chilled, overlapped, changes>>

\* The process ends; the index is what the next one finds.
Restart ==
  /\ runtimes' = <<>>
  /\ live' = [s \in Sessions |-> 0]
  /\ op' = [o \in Ops |-> Idle] /\ got' = [o \in Ops |-> 0]
  /\ chilled' = {s \in Sessions : Known(s)}
  /\ overlapped' = FALSE /\ late' = {}
  /\ UNCHANGED <<index, changes>>

Next ==
  \/ \E o \in Ops :
       \/ \E resolves \in BOOLEAN, default \in Models : Built(o, resolves, default)
       \/ BuildFails(o) \/ Evicted(o)
       \/ \E s \in Sessions :
            \/ Get(o, s) \/ Evict(o, s)
            \/ \E m \in Models : Create(o, s, m)
            \/ \E r \in 1..MaxRuntimes, override, preset \in Models \cup {NoModel}, restricted \in BOOLEAN :
                 Spawn(o, s, r, override, preset, restricted)
  \/ \E r \in 1..MaxRuntimes : ModelChanged(r) \/ \E m \in Models : SetModel(r, m)
  \/ Restart

Spec == Init /\ [][Next]_vars

-----------------------------------------------------------------------------
TypeOK ==
  /\ index \in [Sessions -> Ref \cup {NoRef}]
  /\ runtimes \in Seq(Runtime) /\ Len(runtimes) <= MaxRuntimes
  /\ live \in [Sessions -> 0..Len(runtimes)]
  /\ op \in [Ops -> Busy \cup {Idle}]
  /\ got \in [Ops -> 0..Len(runtimes)]
  /\ chilled \subseteq Sessions /\ late \subseteq Sessions /\ overlapped \in BOOLEAN /\ changes \in 0..MaxChanges

Of(s) == {r \in DOMAIN runtimes : runtimes[r].session = s}
Writers(s) == {r \in Of(s) : runtimes[r].state # "disposed"}

\* A session that was never cold has one runtime, the one in the map, however
\* many requests for it overlap its own creation.
CreatedHasOneWriter == \A s \in Sessions \ chilled : Of(s) = IF live[s] = 0 THEN {} ELSE {live[s]}

\* "Conversations may delegate; subagents may not, which is what makes nesting
\* impossible by construction" (460): by whatever path and however often a
\* session is built, its tool goes by its kind, and every parent is a
\* conversation.
NoNesting ==
  /\ \A r \in DOMAIN runtimes :
       runtimes[r].delegates <=> index[runtimes[r].session].kind = "conversation"
  /\ \A s \in Sessions : Known(s) /\ index[s].kind = "subagent" =>
       Known(index[s].parent) /\ index[index[s].parent].kind = "conversation"

\* "For any given session, exactly one component may mutate canonical state"
\* (doc 04:80): at most one runtime is attached to it.
SingleWriter == \A s \in Sessions : Cardinality(Writers(s)) <= 1

\* "Re-apply the persisted model choice, if it still resolves" (222): a writer
\* has the model the index names, unless it is about to write its own, was built
\* when the ref did not resolve, or a runtime that was already evicted wrote last.
Agrees(r) ==
  \/ runtimes[r].model = index[runtimes[r].session].model
  \/ runtimes[r].chosen # NoModel \/ runtimes[r].fallback
  \/ runtimes[r].session \in late
ModelKept == \A r \in DOMAIN runtimes : runtimes[r].state # "disposed" => Agrees(r)

\* Without the last exception: the runtime that get returns runs the choice
\* that is persisted, whatever an evicted one still had to do.
ModelNeverLate ==
  ~overlapped => \A r \in DOMAIN runtimes :
    runtimes[r].state = "attached" =>
      \/ runtimes[r].model = index[runtimes[r].session].model
      \/ runtimes[r].chosen # NoModel \/ runtimes[r].fallback

\* What get, create and spawn return is "the live runtime for a session"
\* (core/src/session-registry.ts:46), not one that is on its way out.
Usable == \A o \in Ops : (got'[o] # got[o] /\ got'[o] # 0) => runtimes'[got'[o]].state = "attached"
UsableWhenReturned == [][Usable]_vars

\* While one request follows another, all three hold, whether the session was
\* then evicted, restarted or rebuilt.
OneAtATime ==
  /\ [](~overlapped => SingleWriter /\ ModelKept)
  /\ [][~overlapped' => Usable]_vars

\* All paths build alike, "so the tool set cannot diverge between them" (448):
\* what an agent type withholds from a subagent stays withheld.
ToolsKept ==
  \A r \in DOMAIN runtimes :
    runtimes[r].restricted = index[runtimes[r].session].restricted
=============================================================================
