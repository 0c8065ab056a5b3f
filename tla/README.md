# Akko: a TLA+ model

Akko is a multi-user backend around pi, a coding agent, with a web client. This
directory models the parts of it where things can go wrong between two awaits:
how a request becomes a command of a session, how a session's transcript becomes
durable, how sessions come to life and go, how they delegate to subagents, what
a workspace brings to them, how the read model follows, and what one browser tab
makes of all this.

Paths below are relative to `src/packages/` unless they begin with `docs/`.

## 1. The system

The backend is one JavaScript process: code between two `await`s is atomic, and
every `await` is a point where anything else may happen. The same holds of a
browser tab, with answers that arrive in any order. That is the grain of all
models here.

```
 tab --HTTP--> gateway --get--> registry --builds--> runtime --drives--> pi session
  |              |                 |                   ^  |                  |
  |              +---- post ----> mailbox --apply------+  |            events, messages
  |                                                       |                  |
  +--reads-- Jazz rows <-- projector <---- entries, events+<-- event bus <---+
                                |                   |
                     conversation store (SQLite)    workspace: skills, agent types, models
 a conversation's pi session --spawn_subagent--> limiter, registry, child's mailbox
```

| Component | State | Operations | What makes it correct |
|---|---|---|---|
| Subagent limiter (`runtime/src/subagent-limits.ts`) | counts in total, per parent, per provider; a flag in each release closure | `admit`, release | counts are what is out; caps hold; no leak |
| spawn_subagent tool (`subagent-tool.ts`) | one unit of work per task: slot, child, timer, listeners | `execute`, `acquireSlot`, `runOne`, `runSubagentToCompletion`, `stopSubagent` | slots follow units on every path; no orphan; each outcome decided once; the call ends |
| Mailbox (`mailbox.ts`) | queue, draining flag | `post`, `#drain` | order, one at a time, gate, no lost wake-up |
| Gateway (`server/src/gateway.ts`), authorization and membership (`core/src/authz.ts`, `membership-store.ts`) | membership rows | nine routes, `roleFor`, `grant`, `authorize` | statuses tell the truth, roles count when a command is applied, everyone is answered |
| Session runtime (`session-runtime.ts`) | last actor, persisted count, last entry and timestamp, chain of captures | `applyCommand`, `#capture`, `dispose` | the transcript is stored without gaps, in order |
| Conversation store (`sqlite-conversation-store.ts`) | entry rows | `persistEntry`, `load`, `getEntries` | rows are what captures wrote, in order |
| Session registry (`session-registry.ts`) | live runtimes, materialized skills versions | `get`, `createConversation`, `spawnSubagent`, `evict`, `setModel`, callbacks | one writer per session; model and tools survive a rebuild; staleness is seen |
| Session index (`session-index.ts`) | session refs | `upsertRef`, `getRef`, `touch`, lists | no edit is undone; the projected list follows |
| Workspace runtime and skills (`workspace-runtime.ts`, `merged-resource-loader.ts`, `workspace-config-store.ts`, `skills-service.ts`, `agent-types.ts`) | cached bundles, skill and agent-type rows, files | `get`, `materializeSkills`, edits, `listSkills`, visibility | files are what the rows say; prompts are current or known to be stale |
| Jazz projector (`server/src/jazz-projector.ts`) | subscriptions, backfilled set, turn state, flush timers | `ensureSession`, `onEntry`, `rebuild`, live events | the read model is complete, and shows nothing that is over |
| Authentication (`server/src/auth.ts`, `main.ts`) | users, passkeys, sessions, memberships | registration, hook, sign-in, token payload | whoever can sign in is a member |
| Web client (`web/src`) | token, Jazz client, session list, skills panel | sign-in and out, refresh, commands, loads | tokens are renewed; what is shown agrees with the server |
| Event bus (`event-bus.ts`) | listeners | `publish`, `subscribe` | synchronous delivery, failures isolated |

Components interact by direct calls (gateway, registry, mailbox, runtime), by
callbacks in the same turn of the event loop (driver events to runtime, to bus,
to projector and spawn tool), by awaited sinks (`onEntry`), by HTTP (the tab),
and through durable state (store, index, rows of the workspace, Jazz rows).

The hard behaviours are: state that is read before an await and used after it
(`get`, `evict`, `#lastActor`, skills versions, roles, the provider of a batch);
captures that fail half-way and are tried again; crashes between two rows; timers
and late events (slot wait, run timeout, flush timer, token refresh);
cancellation while something waits; a backfill that overlaps live projection;
answers that overtake each other; caps that must neither leak nor be exceeded.
`PROJECT.json` lists each at its line.

## 2. The modules

| Module | Models | Held against, composed with |
|---|---|---|
| `SlotPool` | abstract: a pool of slots with three kinds of cap, no counters | |
| `SubagentLimiter` | the limiter; `Admit`, `Release` | `SlotPool` (`ImplementsPool`) |
| `SubagentBatch` | tool calls and their units | an `INSTANCE` of `SubagentLimiter` |
| `SerialExecutor` | abstract: commands settled once each, in order | |
| `Mailbox` | `post` and the awaits of `#drain` | `SerialExecutor` (`ImplementsExecutor`) |
| `Gateway` | every route, the membership rows, the gate, one session | extends `Mailbox`; `SerialExecutor` again |
| `SessionRuntime` | one session: pi as a list of messages, the capture chain, the store, crash and rebuild | |
| `SessionRegistry` | requests in progress, live runtimes, the index | |
| `SessionList` | the index with titles, models and recency, its projected rows, one tab's list and calls | |
| `WorkspaceConfig` | skill and agent-type rows, files, the shared bundle, what sessions are built from | |
| `SkillsPanel` | the inventory, budget and stale sessions, one tab's panel | |
| `JazzProjector` | one session's rows, backfill, activity row, timers | |
| `Identity` | users, passkeys, memberships, the browser's session | |
| `TokenRefresh` | `startJazzTokenRefresh`, with time in ticks | |
| `WebApp` | `App.svelte` and `Auth.svelte`: one tab from sign-up to sign-out | extends `Identity` and `TokenRefresh` |
| `*Proofs` | theorems about the module they are named for, and its neighbours (section 4) | |
| `MC*` | the small sets the runs use | |

Three compositions are modelled. `SubagentBatch` puts the tool over the limiter:
its units are the limiter's slots, `Acquire` is the limiter's `Admit` and
`Finally` its `Release`. `Gateway` puts the routes before the mailbox: a request
posts its command with the mailbox's `Post`, and the mailbox's `Allow`, `Deny`,
`Applied` and `ApplyThrows` decide by the membership rows of the moment.
`WebApp` puts the tab over the accounts and the refreshers: a token carries the
claim that the memberships grant when it is minted.

The other components meet in these places, each seen from one side:

* The mailbox ends where `apply` is called; `SessionRuntime` begins there. Since
  the mailbox applies one command at a time, a command is one step of
  `SessionRuntime`.
* `SessionRuntime` announces entries (`published`); `JazzProjector` takes them
  (`Persist`, `OnEntry`). The order and durability it relies on is
  `PublishedDurable`.
* `SessionRegistry` builds and disposes of runtimes; what a disposal waits for
  is `DisposeWaits` of `SessionRuntime`.
* `SessionList` takes the ref of a live runtime as given by `SessionRegistry`,
  and the mailbox's application of rename and setModel as one step each.
* `SkillsPanel` reduces a skill to "hidden or not"; `WorkspaceConfig` is the
  detailed account of rows, files and prompts.

How state corresponds to code: a private field `#x` of the source is the variable
`x` where it is modelled, and the comment on each variable names it. Variables
marked *history* exist for the properties; no guard of an action that models
code reads them, except to bound the model or to keep identities distinct.
Constants marked *bound* cut the instance down and model nothing. Definitions
marked *Mutant* are deliberate mistakes, each placed before the definition it
corrupts; no specification uses them. They show which property notices which
mistake.

Abstractions: contents of messages, ids and wording are left out. A message is
its position and role; a title, a model reference, a skill's text and a preset
are model values. A content hash that serves as a version is the rows it is a
hash of. pi is external: what it does to a session is reduced to messages that
join its transcript, texts it has queued, and the events it emits, as the source
uses them. Better Auth, SQLite and Jazz are external too: a ceremony, a write or
a connection succeeds or fails.

## 3. The runs

| Run | Instance | Checks |
|---|---|---|
| `limiter` | 2 parents, a capped and an uncapped provider, 4 admissions, caps 3/2/1 | `CountersExact`; the limiter implements the pool of slots, whose grants respect the caps and whose refusals are genuine |
| `batch` | a call of two units and a call of one, of two parents; caps 2/1/1; three model references | `SlotsMatchUnits`, `NoOrphans`, `OutcomesHonest`, and `CallsEnd` under fairness |
| `commands` | 3 requests of one principal, two for commands and one for any route; roles granted in between; 2 requests that post nothing | `NoLostWakeup`, `AnswersHonest`, `NoStaleRole`, `ImplementsExecutor` with its liveness, `EveryRequestAnswered` |
| `runtime` | 4 messages, a clock of 2 values, 1 refused write, 1 crash | `RowsMirror`, `RowsChained`, `PublishedDurable`, `DisposeWaits`, and `RunsCaptured` under fairness |
| `registry` | 2 sessions, 2 models, 2 requests at a time, 3 runtimes, 1 change of model or build with pi's default | `CreatedHasOneWriter`, `NoNesting`, `OneAtATime` |
| `projector` | 3 messages, 1 failed call, 1 loss of the sync server, 2 evictions or restarts | `ProjectionComplete`, `BubbleHonest`, and `OpenShowsIntactHistory` under fairness |
| `config` | 4 skills (two whose names make one directory, one also on disk, one whose name makes no directory), 1 agent type that a file presets too, 2 requests, 3 edits | `SnapshotsHonest`, `PresetHonoured`, `OnlyChangesTouched` |
| `signin` | 1 user, 2 Jazz clients, 2 attempts to connect, 2 session checks, tokens of 4 ticks, 1 failure, 1 sign-out | `TokenKept`, `OneRefresher`, `ReadersAreMembers`, and `Settles` under fairness |
| `sessions` | 2 sessions, 1 title, 1 model, 2 calls of the tab, 1 `get` at a time, 2 edits, 1 failure | `RowsFollowIndex`, `EditsKept`, and `CreateShown` under fairness |
| `panel` | 3 skills (one of the rows, one of the disk, one of both), 1 session, 2 calls, 4 clicks, 2 edits of others, 1 failure | `PanelAgrees` |
| `registry_two_writers` | as `registry`, 1 model | `SingleWriter` fails |
| `signin_again` | as `signin`, without failures | `KeptFresh` fails |

Type invariants are checked in every run but `registry`, `sessions` and `panel`;
those three are proved.

**Why the bounds are enough.** Limiter: four admissions against caps of three,
two and one fill each cap in each order and release out of order. Batch: a pair
inside a batch, a competitor outside it, and a cap that makes each wait for the
other. Commands: one command in flight, one queued behind it, one request of any
other route beside them, and a role that may change between any two of their
awaits. Runtime: two runs of two messages each, so that a capture may fail at
any message, be overtaken by the next run, and be cut by a crash in either; one
refusal is enough to see whether capturing survives it.
Registry: two requests are what its races need; three runtimes let a session be
built, lost and built again, and one change falls anywhere between them: its
driver's answer, its index write, or a ref that no longer resolves. Projector: a
run of several turns, or one and the beginning of the next; a failure, a loss
and two evictions or restarts at every point, so that a run is cut off, resumed
and cut off again. Config: three edits add, hide and delete a skill, fill a
shared directory, or change a skill while another request is between its reads.
Sign-in: two of everything that can overlap; a token's life is twice the margin,
so a renewal can be in time, late, or overtaken. Sessions and panel: two calls
of one tab that are answered out of order, against the edits of others. Runs set
`CHECK_DEADLOCK FALSE`: bounded histories end, and a session at rest has nothing
it must do.

**Fairness**, where a run asks for liveness. All of it is weak, and none of it
is asked of users, models or children. `batch`: units that wait poll again (a
`setTimeout` loop with a deadline), spawns resolve or throw, the run timer
fires, evictions settle one way or the other, continuations run. `commands`:
`authorize` and `apply` settle, which is what `AkkoMailboxDeps` asks of them,
and each handler goes on when what it awaits has settled; a driver call that
never settles does block the session, and that hazard is listed as uncovered.
`runtime`: the promise chain goes on, and store and sinks settle, successfully
or not. `projector`: reads and captures settle. `sessions`: the calls of a tab
are served or rejected, and the answer lands. `signin`: requests are answered or
fail, and the timers for another attempt fire; since failures are bounded, a
check or connection succeeds at some point or is given up by the code itself.

**Exceptions in the properties.** Several properties except what the code openly
leaves to chance:

* `ProjectionComplete`: a failed call (`intact`).
* `BubbleHonest`: an activity row orphaned by a crash or an unwritten upsert, and
  one that an evict in mid-run left behind or that was written while pi was idle
  (`stray`): an evict unsubscribes the runtime before `agent_end`, and the
  projector writes a row for any `queue_update`.
* `ModelKept`: a choice the driver has and the index not yet (`chosen`), a ref
  that did not resolve when its runtime was built (`fallback`), and a `setModel`
  of an evicted runtime, whose mailbox goes on (`late`).
* `NoOrphans`: a child whose evict was rejected, which the tool swallows.
* `SnapshotsHonest`: a session whose building overlapped another synchronization
  (`mixed`). Where skills share a directory, it says that the file is one of
  theirs; `OnlyChangesTouched` excepts such a directory (`Collide`).
* `RowsFollowIndex`: a row whose write failed, or whose session's `get` was
  overtaken by another `get` or by a late command of an evicted runtime.
* `CreateShown`: a lost row, and a tab that has taken a refusal for its list.
* `RunsCaptured`: for the capture of one run, a refused write of that capture.
  After any number of refusals the next capture must still store everything.
* `PresetHonoured`: an edit of that type between the two lookups.
* `ReadersAreMembers`: a user whose creation a crash cut short.
* `PanelAgrees`: an older answer that came after the newest, a lost call, or a
  change by others since.
* `TokenKept`: a failed request, a sleep, or a token that arrived with so little
  left that the minimal delay reaches into its margin.

Each exception is a history variable or a field that says so, and each has a
stronger property without it in the table below, or is a listed hazard.

### What the code does not keep

Two runs end in a counterexample:

| Run | Sentence | What happens |
|---|---|---|
| `registry_two_writers` | "exactly one component may mutate canonical state" (`docs/architecture/04-storage-and-persistence.md:80`) | two `get`s of a cold session build two runtimes |
| `signin_again` | "letting it lapse freezes the UI with nothing to fall back to" (`web/src/App.svelte:64`) | after a sign-out and another sign-in the tab keeps the old Jazz client, and nobody renews its token |

More properties are stated in the modules, and the code does not keep them
either. Each has a configuration that ends in a counterexample, for instance
`tlc -config BatchAbort.cfg MCSubagentBatch`; where the third column names a
configuration of section 3, put the property in the place of those it checks.

| Property | Sentence and counterexample | Configuration |
|---|---|---|
| `NoStartAfterAbort` | a unit "aborts when the parent's turn is cancelled" (`runtime/test/subagent-tool.test.ts:349`): one that waits for its slot or its child at that moment is started and driven to its end | `BatchAbort.cfg` |
| `ChildrenWithinParentCap` | "Max children running concurrently for one parent session" (`subagent-limits.ts:21`): the slot is released while a timed-out child still streams | `BatchParentCap.cfg` |
| `ProviderWithinCap` | "derived from the child's `provider/id` model" (`docs/architecture/03-runtime-and-sessions.md:131`): the model of an agent type is not asked | `BatchProviderCap.cfg` |
| `DeliveryHonoured` | "How to deliver while the session is streaming" (`core/src/domain.ts:137`): the gateway puts `streamingBehavior` beside `args`, the runtime reads it inside | `GatewayDelivery.cfg` |
| `NoDoublePersist` | captures "cannot double-persist" (`session-runtime.ts:201`): after a refused write in mid-capture the messages before it are stored again | `RuntimeRetry.cfg` |
| `AttributedToSender` | "Who caused this entry" (`core/src/conversation-store.ts:37`): a later command, even a rejected one, takes over a message not captured yet | `RuntimeAttribution.cfg` |
| `UsableWhenReturned` | "the live runtime for a session" (`core/src/session-registry.ts:46`): `get` during `evict` returns a runtime being disposed of | `RegistryDying.cfg` |
| `ModelNeverLate` | "Re-apply the persisted model choice" (`session-registry.ts:222`): a `setModel` that an evicted runtime still had in its mailbox changes the index beside the runtime that replaced it | `MCSessionRegistry.cfg` |
| `ToolsKept` | "so the tool set cannot diverge between them" (`session-registry.ts:448`): a rehydrated subagent has all tools; the SQLite index has no column for its agent type | `RegistryTools.cfg` |
| `OpenShowsHistory` | the read model "has this session's history" (`gateway.ts:104`): a session backfilled before a restart of the sync server is not backfilled again | `ProjectorLoss.cfg` |
| `BubbleRetired` | the activity row is "the in-flight turn" (`jazz-projector.ts:9`): a subagent evicted in mid-run, or a text queued while pi is idle, leaves a row without a turn | `MCJazzProjector.cfg` |
| `ToolShown` | without the tool row "the UI shows a stale streaming bubble and looks hung" (`jazz-projector.ts:256-258`): the pending flush of the text before the tool call writes "streaming" over it (line 295) | `MCJazzProjector.cfg` |
| `UnchangedUntouched` | "Only touch the file when the content actually differs": two names with one safe segment overwrite each other's file at every synchronization | `ConfigCollision.cfg` |
| `StaleKnown` | "This is what makes that detectable rather than silent" (`session-registry.ts:120`): another request's synchronization moves the version while a session is still being built on older skills, which is then not reported | `MCWorkspaceConfig.cfg` |
| `PresetOfOneType` | "an agent type may restrict the child's tools": an edit between the two lookups gives a subagent one type's tools and another's instructions | `MCWorkspaceConfig.cfg` |
| `SingleModelRuntime` | "Shared, single-instance model runtime" (`workspace-runtime.ts:27`): two first requests create two | `ConfigModelRuntime.cfg` |
| `HiddenStaysOut` | `setSkillHidden` answers whether a skill was hidden (`skills-service.ts:108`): one that a file on disk shadows is answered as hidden and stays in the prompts | `MCWorkspaceConfig.cfg` |
| `RowsNeverStale` | the row is projected with every change (`session-registry.ts:533`): of two overlapping `get`s the slower one projects the ref it read before | `SessionsGets.cfg` |
| `ListStaysSound` | "a failed request is a no-op" (`web/src/lib/client.svelte.vitest.ts:58`): a refusal is taken for a list | `SessionsRefused.cfg` |
| `PanelCatchesUp` | the panel shows the newest answer: answers are displayed in the order they arrive | `MCSkillsPanel.cfg` |
| `PromptWanted` | a prompt is shown because it was asked for: an answer that arrives after the panel was closed shows it | `MCSkillsPanel.cfg` |
| `KeepsTrying` | "'give up' is not an option; keep retrying while the user waits" (`App.svelte:33`): a refused token is not tried again | `MCWebApp.cfg` |
| `FreshUsersServed` | "a freshly-registered principal can immediately use it" (`auth.ts:13`): a crash between the user's row and its grant leaves a user without membership for good | `MCWebApp.cfg` |

## 4. The proofs

TLAPS checks eight modules; what is proved holds for all values of the constants
under the assumptions stated with them (`LimitsAssumption`, `CapsAssumption`,
`BatchAssumption`, `MailboxAssumption`, `GatewayAssumption`,
`RegistryAssumption`, `RuntimeAssumption`, `ProjectorAssumption`,
`IdentityAssumption`, `RefreshAssumption`, `TabAssumption`, `ListAssumption`,
`ConfigAssumption`). None of them says more than that sentinels are not values,
that bounds are numbers, what the tables of the models range over, and what
`limitsFromEnv` and the constants of `jazz-token.ts` guarantee.

Two modules of proofs extend two components that share no variables: the spawn
tool and the bundle a subagent is built from, the read model and the panel a tab
shows beside it. `WorkspaceConfig` and `SkillsPanel` name their specifications
accordingly (`ConfigSpec`, `PanelSpec`).

**`SubagentLimiterProofs`**: `TypeOK`, `CountersExact`, `CapsHold`,
`RefusalsAreGenuine`, and `ImplementsPool`. The invariants of the run are not
inductive: a counter can be lowered rightly only if the grant behind a closure
is unique and still counted. `IInv` therefore adds that grants are finite in
number and that a slot has one grant. Two lemmas say what an admission and a
release do to the held slots and to each parent's and provider's share; the
counters follow them by cardinality. `RefusalsAreGenuine` needs no induction: it
follows from exact counters.

**`SubagentBatchProofs`**, the tool: `TypeOK`, `SlotsMatchUnits`, `NoOrphans`,
`OutcomesHonest`, and that the tool uses the limiter as `SubagentLimiter!Spec`
says. That a slot is given back exactly once, and that nothing outlives a call,
rests on where each unit is in `runOne`: `Lifecycle` says for every place what
it implies for outcome, child and slot (a unit that waits was never admitted;
one that is being evicted has given its slot back; one that is done has a child
that is disposed of or was left by a rejected evict, or none), and
`CallAndUnits` where the units of a call are that has not begun or is over. The
caps are not proved again: `LimiterRefinement` maps each step of the tool to a
step of the limiter or a stutter, and the limiter's own theorem carries over
(`CapsHoldInTool`).

**`GatewayProofs`**, the mailbox: `TypeOK`, `InOrder`, `NoLostWakeup`,
`OnlyGrantedApplied`, and the safety half of `ImplementsExecutor`. `IInv` adds
that flag, stage and item in flight agree (`draining` is up exactly while an
item is out), since without it a post could find the flag down with an item out.
The lemmas `LoopEffect` and `SettleEffect` describe the head of the while loop
and the end of an iteration, which three of the five actions share.

**`GatewayProofs`**, the composition: `GatewayTypeOK`, `AnswersHonest`,
`NoStaleRole`, that the composition implements the mailbox's own specification,
and through it `NoLostWakeup` and the safety half of `ImplementsExecutor`. The
mailbox's `IInv` is reused: every step of the gateway is a step of the mailbox
or leaves it alone. What `GInv` adds is `OnePlace` (a command is in the queue,
in flight, granted or settled, and in one place only), `Linked` (the stage and
answer of a request agree with the place of its command) and `BarredWait` (a
barred command in the queue is one that the gate would refuse now). Without
`OnePlace` a role taken away from a queued command could reach a second copy
already granted.

**`SessionRegistryProofs`**: `TypeOK`, `NoNesting`, `CreatedHasOneWriter` and
`OneAtATime`. They are not inductive because a suspended request acts on what it
read before its await. `RequestsLinked` says what stays true of that in any
case (the kind of a ref, a parent that exists), which carries `NoNesting`;
`NeverCold` that a session which was never evicted or lost has no `get` under
way, which carries `CreatedHasOneWriter`; and `Alone` that, while requests do
not overlap, what the only request has read is still so, up to what runtimes
write meanwhile: a driver's new model reaches the index only in its next step
(`ChosenIsModel`), a build may fall back to pi's default, and the mailbox of an
evicted runtime may still change the ref (`late`).

**`SessionRuntimeProofs`**: `TypeOK`, `RowsMirror`, `RowsChained`,
`PublishedDurable` and `DisposeWaits`, for any number of messages, clock values,
refused writes and crashes. The argument follows `High`, how far the store is
known to mirror the transcript: `#persistedCount` between captures, the loop's
counter during one. `PrefixStored` says that everything below it is stored,
`Mirrored` that the rows end there unless a write was refused; a refused write
throws `High` back, not the rows, so that only the absence of gaps survives it.
`Linked` names the row that the next one follows, `Kept` what the links still to
settle owe to `dispose`.

**`JazzProjectorProofs`**, the read model: `TypeOK`, `ProjectionComplete` and
`BubbleHonest`, for transcripts of any length. `Commits` bounds what is
announced, stored and in the transcript by each other; `Backfilling` says what
the rows hold already while a backfill is still reading (everything announced
after its snapshot), which is what makes the overlap of backfill and live
projection harmless. `TurnAndRun` and `RowAndTurn` say that a text in the turn
state or in the row is that of the reply being written, and that a visible row
implies `#active`: without that a flush timer that fires late could bring back a
bubble nobody would clear. That an idle pi has no turn and no visible row is
part of them only while nothing strayed: evicts in mid-run, the flush of a
replaced turn and queue updates while idle are steps of the model, and set
`stray` when they leave a row behind.

**`SessionListProofs`**: `TypeOK`, `RowsFollowIndex`, `EditsKept`. A
`get` projects a ref that it read before its await, so neither is inductive.
`GetsFresh` says when that ref is still the index's: a `get` that is alone on a
session may rely on it until another `get` or a late command of an evicted
runtime overtakes it. `Mapped`
ties rows and runtimes to known sessions, `Addressed` a call in flight to the
session it was sent for.

**`JazzProjectorProofs`**, the panel: `PanelTypeOK` and `PanelAgrees`. An answer
on its way may have been outdated by a toggle of the same tab; the invariant is
that the tab then has yet to learn of its own toggle (`Unaware`) and will ask
again. Otherwise what the newest load has read is what holds (`Newest`), and so
is what the panel displays from it (`DisplayNewest`).

**`SubagentBatchProofs`**, the bundle: `ConfigTypeOK`, `SnapshotsHonest`,
`PresetHonoured`, `OnlyChangesTouched`, and `StaleExact`, the half of
`SnapshotsHonest` that is not about files. `RequestsSound` says that a build
bakes the rows that were synced last, or has noted an overlap, and that a
spawn's preset is its type's, or has noted an edit; `PromptsSound` that a prompt
advertises the rows it was built from; `FilesInv` that the files say what the
rows said at the last sync, in a shared directory what its last row said. That
there is a last row is the one induction over data here: it comes from the
well-foundedness of the natural numbers (`GreatestIndex`), which needs no
operator to be instantiated. Nothing is assumed about names and directories:
`materializeSkills` may send several skills to one directory, and both
properties say what holds there. `ConfigCollision.cfg` shows what does not.

**`WebAppProofs`**: `ReadersAreMembers` and `OneRefresher`. The first follows
the membership from the hook to the token (`MemberInv`): a user without it has
an unfinished registration, so that no passkey, no session, no answer to a
check and no token can be hers. The second needs that only the client in use was
ever given a refresher without stopping the one before. `TypeOK` and `TokenKept`
follow from `TabInv`. A refresher that is on has its timer set or a request
under way (`Planned`); `InTime` follows the margin: a set timer keeps it between
its own end and the token's, and of the requests that replace the timer one was
sent with it and is answered within `Latency`, which is less. It holds for all
durations with `MinDelay <= Margin < Life` and `Latency < Margin`.

**Only model-checked**: liveness (`CallsEnd`, `EveryRequestAnswered`,
`RunsCaptured`, `OpenShowsIntactHistory`, `Settles`, `CreateShown`, the fairness
half of `ImplementsExecutor`), which needs reasoning about fairness and ENABLED
that the proof system does not support. Every other property of the passing runs
has a theorem. What the code does not keep (section 3) has no theorem, of
course; TLC's counterexamples stand for themselves. No definition here is
recursive.

## 5. Not modelled

* Event bus: delivery is synchronous, so it is part of its callers' steps.
* Model router, ids, SQLite adapter, schema, wire protocol: pure functions and
  declarations. The Jazz worker: configuration of a library.
* Counting tokens of skills and parsing `.md` presets: pure functions over text.
* Branching and compaction: declared out of scope by the store itself; pi's
  compaction, which shortens the driver's messages, is a listed hazard.
* `disposeAll`, which only a shutdown calls. `compact`, `fork` and the other
  verbs of the runtime throw in the code.
* The conversation view of the web client: a rendering of the projected rows.
* Several workspaces: they share no state but the process, and one is modelled.
* Node links, replication, memory, search: interfaces without implementation.

## 6. Plan

1. Proofs: for what the code does not keep, the theorem with the weakest
   hypothesis under which it would (one `get` at a time, no refused write, a
   provider that references agree on).
2. `Mailbox` and `SessionRuntime` composed, with `isBusy` and an `abort` that
   goes past the mailbox, to see what the evictions of `SessionRegistry` may cut
   off.
3. `SessionRegistry` and `WorkspaceConfig` composed: the skills version of a
   session across its rebuilds.
