--------------------------- MODULE SessionRuntime ---------------------------
(***************************************************************************)
(* AkkoSessionRuntime (runtime/src/session-runtime.ts), the single writer  *)
(* of a session: it applies the commands its mailbox lets through to the   *)
(* pi session (the driver) and copies the driver's messages, after each    *)
(* turn, into the durable ConversationStore.  A crash loses the runtime    *)
(* and the driver; registry.get rebuilds both from the stored rows.        *)
(*                                                                         *)
(* A step is the code between two awaits, or less: the end of a loop       *)
(* iteration and the write of the next are two.  The mailbox applies one   *)
(* command at a time, so a command is one step.  Captures run one after    *)
(* another on #captureChain: `links` counts those that have not settled.   *)
(***************************************************************************)
EXTENDS Integers, Sequences, FiniteSets

CONSTANTS
  Actors, NoActor,
  MaxMessages,    \* bound: messages ever said in the session
  MaxClock,       \* bound: the values Date.now() returns
  MaxFailures,    \* bound: writes the store refuses
  MaxCrashes      \* bound: crashes of the process

ASSUME RuntimeAssumption ==
  /\ NoActor \notin Actors
  /\ {MaxMessages, MaxClock, MaxFailures, MaxCrashes} \subseteq Nat

VARIABLES
  \* the driver (pi's AgentSession)
  messages,       \* what was said: who caused it is what the runtime must guess
  streaming,
  waiting,        \* steering and follow-up texts pi has queued, by their actors
  \* the runtime
  life,           \* "live", "disposing" or "disposed"
  lastActor,      \* #lastActor
  persistedCount, \* #persistedCount
  lastEntryId,    \* #lastEntryId, 0 for null
  lastTs,         \* #lastTs
  links,          \* links of #captureChain that have not settled
  stage,          \* of the running #capture: "idle", "head", "saving", "sinking"
  at,             \* its i (counted from 1)
  waitFor,        \* how many of them dispose still awaits
  \* the store, the bus, and what the bounds and properties count
  rows,           \* the entries table in the order of seq; an id is a position
  published,      \* the entry ids announced to the event bus and the sinks
  said, failures, crashes,
  due, promised   \* messages the last link, and dispose's link, must have saved

driver == <<messages, streaming, waiting>>
chain == <<links, stage, at>>
capture == <<persistedCount, lastEntryId, lastTs>>
store == <<rows, published>>
counts == <<said, failures, crashes>>
disposal == <<life, waitFor, promised>>
vars == <<driver, lastActor, chain, capture, store, counts, disposal, due>>

Message == [uid : 1..MaxMessages, role : {"user", "assistant"}, by : Actors \cup {NoActor}]

Init ==
  /\ messages = <<>> /\ streaming = FALSE /\ waiting = <<>>
  /\ life = "live" /\ waitFor = 0 /\ promised = 0 /\ due = 0
  /\ lastActor = NoActor
  /\ persistedCount = 0 /\ lastEntryId = 0 /\ lastTs = 0
  /\ links = 0 /\ stage = "idle" /\ at = 0
  /\ rows = <<>> /\ published = <<>>
  /\ said = 0 /\ failures = 0 /\ crashes = 0

Attached == life # "disposed"

-----------------------------------------------------------------------------
(* The driver, as far as the runtime sees it *)

\* A message joins the transcript.
Say(role, actor) ==
  /\ said < MaxMessages
  /\ said' = said + 1
  /\ messages' = Append(messages, [uid |-> said + 1, role |-> role, by |-> actor])
  /\ UNCHANGED <<failures, crashes>>

\* A turn_end or agent_end event: one more capture on the chain.
ScheduleCapture ==
  /\ links' = links + 1
  /\ due' = Len(messages')
  /\ UNCHANGED <<stage, at>>

\* pi takes a queued text into the turn.
Deliver ==
  /\ Attached /\ streaming /\ waiting # <<>>
  /\ Say("user", Head(waiting))
  /\ waiting' = Tail(waiting)
  /\ UNCHANGED <<streaming, lastActor, chain, capture, store, disposal, due>>

\* The assistant's message ends a turn of the run.
TurnEnd ==
  /\ Attached /\ streaming
  /\ Say("assistant", NoActor)
  /\ ScheduleCapture
  /\ UNCHANGED <<streaming, waiting, lastActor, capture, store, disposal>>

\* Mutant: only turn_end schedules a capture.
AgentEndSilent ==
  /\ Attached /\ streaming
  /\ streaming' = FALSE
  /\ UNCHANGED <<messages, waiting, counts, due, chain, lastActor, capture, store, disposal>>

\* The run is over, or the abort command cut it short, perhaps before a reply.
AgentEnd ==
  /\ Attached /\ streaming
  /\ streaming' = FALSE
  /\ UNCHANGED <<messages, waiting, counts>>
  /\ ScheduleCapture
  /\ UNCHANGED <<lastActor, capture, store, disposal>>

-----------------------------------------------------------------------------
(* applyCommand *)

\* prompt on an idle session: accepted by pi's preflight, the run starts.
Prompt(a) ==
  /\ Attached /\ ~streaming
  /\ lastActor' = a
  /\ Say("user", a)
  /\ streaming' = TRUE
  /\ UNCHANGED <<waiting, chain, capture, store, disposal, due>>

\* prompt, refused by the preflight: the command fails, its actor stays noted.
PromptRejected(a) ==
  /\ Attached
  /\ lastActor' = a
  /\ UNCHANGED <<driver, chain, capture, store, counts, disposal, due>>

\* steer, followUp, and a prompt while the driver streams: pi queues the text.
Queue(a) ==
  /\ Attached /\ streaming
  /\ said + Len(waiting) < MaxMessages
  /\ lastActor' = a
  /\ waiting' = Append(waiting, a)
  /\ UNCHANGED <<messages, streaming, chain, capture, store, counts, disposal, due>>

-----------------------------------------------------------------------------
(* #capture: one link of the chain at a time *)

\* The running link settles, by either end of #capture.
LinkSettled ==
  /\ stage' = "idle"
  /\ links' = links - 1
  /\ waitFor' = IF waitFor = 0 THEN 0 ELSE waitFor - 1
  /\ UNCHANGED <<at, life, promised>>

\* Mutant: the chain keeps its rejection, so that later links are skipped.
CaptureStartUncaught ==
  /\ stage = "idle" /\ links > 0 /\ failures = 0
  /\ stage' = "head"
  /\ at' = persistedCount + 1
  /\ UNCHANGED <<driver, lastActor, links, capture, store, counts, disposal, due>>

\* The next link starts; the for loop begins behind what was persisted.
CaptureStart ==
  /\ stage = "idle" /\ links > 0
  /\ stage' = "head"
  /\ at' = persistedCount + 1
  /\ UNCHANGED <<driver, lastActor, links, capture, store, counts, disposal, due>>

Row(ts) ==
  [parent |-> lastEntryId, uid |-> messages[at].uid, role |-> messages[at].role,
   by |-> messages[at].by, ts |-> ts, life |-> crashes,
   actor |-> IF messages[at].role = "user" THEN lastActor ELSE NoActor]

\* persistEntry writes the row.  The clock may stand still or jump.
Save(now) ==
  /\ stage = "head" /\ at <= Len(messages)
  /\ LET ts == IF now > lastTs THEN now ELSE lastTs + 1 IN
     lastTs' = ts /\ rows' = Append(rows, Row(ts))
  /\ stage' = "saving"
  /\ UNCHANGED <<driver, lastActor, links, at, persistedCount, lastEntryId,
                 published, counts, disposal, due>>

\* Mutant: an entry that cannot be stored is skipped.
SaveFailsSkips(now) ==
  /\ stage = "head" /\ at <= Len(messages) /\ failures < MaxFailures
  /\ failures' = failures + 1
  /\ at' = at + 1
  /\ UNCHANGED <<driver, lastActor, links, stage, capture, store,
                 said, crashes, disposal, due>>

\* Mutant: the entry is announced whether or not it was stored.
SaveFailsPublishing(now) ==
  /\ stage = "head" /\ at <= Len(messages) /\ failures < MaxFailures
  /\ failures' = failures + 1
  /\ published' = Append(published, Len(rows) + 1)
  /\ LinkSettled
  /\ UNCHANGED <<driver, lastActor, capture, rows, said, crashes, due>>

\* persistEntry rejects: #capture is abandoned and the chain swallows the error.
\* #lastTs has moved, #persistedCount has not.
SaveFails(now) ==
  /\ stage = "head" /\ at <= Len(messages) /\ failures < MaxFailures
  /\ failures' = failures + 1
  /\ lastTs' = IF now > lastTs THEN now ELSE lastTs + 1
  /\ LinkSettled
  /\ UNCHANGED <<driver, lastActor, persistedCount, lastEntryId, store, said, crashes, due>>

\* The write has been awaited: publish the entry, hand it to the sinks.
Saved ==
  /\ stage = "saving"
  /\ published' = Append(published, Len(rows))
  /\ stage' = "sinking"
  /\ UNCHANGED <<driver, lastActor, links, at, capture, rows, counts, disposal, due>>

\* Mutant: the parent link is written by the iteration that follows.
SunkUnlinked ==
  /\ stage = "sinking"
  /\ at' = at + 1 /\ stage' = "head"
  /\ lastEntryId' = IF at = Len(messages) THEN Len(rows) ELSE lastEntryId
  /\ UNCHANGED <<driver, lastActor, links, persistedCount, lastTs, store,
                 counts, disposal, due>>

\* The sinks are done or have thrown, which is only logged; the next iteration.
Sunk ==
  /\ stage = "sinking"
  /\ at' = at + 1 /\ stage' = "head"
  /\ lastEntryId' = Len(rows)
  /\ UNCHANGED <<driver, lastActor, links, persistedCount, lastTs, store,
                 counts, disposal, due>>

\* Mutant: the loop's counter, one past the end, becomes the high-water mark.
CaptureDoneOffByOne ==
  /\ stage = "head" /\ at > Len(messages)
  /\ persistedCount' = at
  /\ LinkSettled
  /\ UNCHANGED <<driver, lastActor, lastEntryId, lastTs, store, counts, due>>

\* The loop is through: everything said so far is persisted.
CaptureDone ==
  /\ stage = "head" /\ at > Len(messages)
  /\ persistedCount' = Len(messages)
  /\ LinkSettled
  /\ UNCHANGED <<driver, lastActor, lastEntryId, lastTs, store, counts, due>>

-----------------------------------------------------------------------------
(* The end of a runtime *)

\* dispose is called: it awaits the chain as it is now.
Dispose ==
  /\ life = "live"
  /\ life' = "disposing" /\ waitFor' = links /\ promised' = due
  /\ UNCHANGED <<driver, lastActor, chain, capture, store, counts, due>>

\* Mutant: dispose does not await the chain.
DisposedAtOnce ==
  /\ life = "disposing"
  /\ life' = "disposed" /\ streaming' = FALSE
  /\ UNCHANGED <<messages, waiting, lastActor, chain, capture, store, counts, waitFor,
                 promised, due>>

\* The chain has been awaited: unsubscribe, and dispose the driver.
Disposed ==
  /\ life = "disposing" /\ waitFor = 0
  /\ life' = "disposed" /\ streaming' = FALSE
  /\ UNCHANGED <<messages, waiting, lastActor, chain, capture, store, counts, waitFor,
                 promised, due>>

\* A runtime that registry.get builds on the messages load replays.
Rebuilt(count) ==
  /\ crashes < MaxCrashes
  /\ crashes' = crashes + 1
  /\ messages' = [i \in DOMAIN rows |->
                    [uid |-> rows[i].uid, role |-> rows[i].role, by |-> rows[i].by]]
  /\ persistedCount' = count
  /\ streaming' = FALSE /\ waiting' = <<>>
  /\ life' = "live" /\ waitFor' = 0 /\ promised' = 0 /\ due' = 0
  /\ lastActor' = NoActor /\ lastEntryId' = 0 /\ lastTs' = 0
  /\ links' = 0 /\ stage' = "idle" /\ at' = 0
  /\ UNCHANGED <<store, said, failures>>

\* Mutant: the high-water mark is not seeded.
CrashUnseeded == Rebuilt(0)

\* The process dies at any point; the session is rebuilt on its next use.
Crash == Rebuilt(Len(rows))

Next ==
  \/ \E a \in Actors : Prompt(a) \/ PromptRejected(a) \/ Queue(a)
  \/ Deliver \/ TurnEnd \/ AgentEnd
  \/ CaptureStart
  \/ \E now \in 0..MaxClock : Save(now) \/ SaveFails(now)
  \/ Saved \/ Sunk \/ CaptureDone
  \/ Dispose \/ Disposed \/ Crash

Spec == Init /\ [][Next]_vars

\* The promise chain runs on, and the store and the sinks settle.  Nothing is
\* asked of the actors, the model or the store's success.
FairSpec ==
  /\ Spec
  /\ WF_vars(CaptureStart)
  /\ WF_vars(\E now \in 0..MaxClock : Save(now) \/ SaveFails(now))
  /\ WF_vars(Saved) /\ WF_vars(Sunk) /\ WF_vars(CaptureDone) /\ WF_vars(Disposed)

-----------------------------------------------------------------------------
TypeOK ==
  /\ messages \in Seq(Message) /\ streaming \in BOOLEAN /\ waiting \in Seq(Actors)
  /\ life \in {"live", "disposing", "disposed"}
  /\ lastActor \in Actors \cup {NoActor}
  /\ persistedCount \in 0..Len(messages)
  /\ stage \in {"idle", "head", "saving", "sinking"}
  /\ stage # "idle" => at \in 1..(Len(messages) + 1)
  /\ lastEntryId \in 0..Len(rows) /\ lastTs \in Nat
  /\ links \in Nat /\ waitFor \in 0..links /\ (stage # "idle" => links > 0)

Uids(s) == {s[i].uid : i \in DOMAIN s}

\* Nothing is skipped: when a message is in the store, so is every message
\* before it, though writes fail and runtimes crash between any two of them.
NoGap ==
  \A i \in DOMAIN messages :
    messages[i].uid \in Uids(rows) => \A j \in 1..i : messages[j].uid \in Uids(rows)

\* "Serialize captures so overlapping turn/agent_end events cannot
\* double-persist" (line 201): each message has one row.
NoDoublePersist == \A i, j \in DOMAIN rows : rows[i].uid = rows[j].uid => i = j

\* The store mirrors the transcript: without a gap in any case and, as long as
\* it accepts its writes, row by message in pi's order, across crashes.
RowsMirror ==
  /\ NoGap
  /\ failures = 0 => \A i \in DOMAIN rows : i \in DOMAIN messages /\ rows[i].uid = messages[i].uid

\* The rows of one runtime form a list in time: the parent of each is the row
\* before it, also when the write between them failed and was tried again, and
\* timestamps are "strictly increasing" (211) whatever the clock does.
RowsChained ==
  \A i \in DOMAIN rows :
    IF i > 1 /\ rows[i-1].life = rows[i].life
    THEN rows[i].parent = i - 1 /\ rows[i-1].ts < rows[i].ts
    ELSE rows[i].parent = 0

\* What the bus and the projector were told is in the store, and was told once,
\* in the store's order: nobody sees an entry that a crash can take back.
PublishedDurable ==
  /\ \A k \in DOMAIN published : published[k] \in DOMAIN rows
  /\ \A k, l \in DOMAIN published : k < l => published[k] < published[l]

\* When dispose has resolved, all that was said up to the turn or run that
\* ended before the call is in the store, unless the store refused a write.
DisposeWaits ==
  life = "disposed" /\ failures = 0 =>
    \A i \in 1..promised : messages[i].uid \in Uids(rows)

Stored(n) == \A i \in 1..n : i \in DOMAIN messages => messages[i].uid \in Uids(rows)

\* Capturing does not end: what a run said is stored after it, by itself, unless a
\* write is refused, and after any number of refusals the next turn or run that
\* ends stores all that was said up to then, unless its own capture is refused.
RunsCaptured ==
  /\ (~streaming /\ life = "live") ~>
       (streaming \/ life = "disposed" \/ failures > 0 \/ Uids(messages) \subseteq Uids(rows))
  /\ \A f \in 0..MaxFailures, n \in 1..MaxMessages :
       (failures = f /\ due = n /\ links > 0) ~> (failures > f \/ Stored(n))

\* "Who caused this entry" (core/src/conversation-store.ts:37): the actor of a
\* user message is the one who sent it.
AttributedToSender ==
  \A i \in DOMAIN rows : rows[i].role = "user" => rows[i].actor = rows[i].by
=============================================================================
