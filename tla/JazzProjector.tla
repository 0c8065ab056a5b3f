--------------------------- MODULE JazzProjector ----------------------------
(***************************************************************************)
(* The Jazz read model of one session (server/src/jazz-projector.ts): the  *)
(* `messages` rows, projected from committed entries as they come and from *)
(* the store on first sight, and the one `activity` row that shows the     *)
(* turn in progress.  Projections of different sessions share nothing.     *)
(*                                                                         *)
(* A step is a callback: a live event, an entry, a timer, the end of a     *)
(* read.  Messages are numbered in the order of the transcript; the text   *)
(* of a live row is the number of the message it belongs to, 0 if empty.   *)
(* Entries that are neither the user's nor the assistant's are skipped by  *)
(* every path and left out.                                                *)
(***************************************************************************)
EXTENDS Integers, Sequences

CONSTANTS
  MaxMessages,    \* bound: messages in the transcript
  MaxFailures,    \* bound: reads of the store and writes to Jazz that fail
  MaxLosses,      \* bound: restarts of the (in-memory) sync server
  MaxRestarts     \* bound: evicts of the session and restarts of the backend

ASSUME ProjectorAssumption == {MaxMessages, MaxFailures, MaxLosses, MaxRestarts} \subseteq Nat

VARIABLES
  \* pi and the runtime's capture
  phase,          \* of the run: "idle", "asking", "replying", "acting" (its tools
                  \* run), "between" turns
  transcript,     \* the roles of the finished messages
  capturing,      \* a capture is under way
  persisted,      \* entries in the store
  announced,      \* entries handed to onEntry
  \* the projector
  hosted,         \* the session has a runtime, so ensureSession was called
  subscribed, backfilled,    \* #subs, #backfilled
  reading,        \* rebuild awaits getEntries
  snapshot,       \* how many entries that read returns
  turn,           \* #turn: the TurnState, or NoTurn
  stale,          \* a flush is pending of a TurnState that is no longer in #turn
  active,         \* #active
  \* Jazz
  rows,           \* the messages that have their row
  activity,       \* the activity row
  \* what the bounds and properties count
  failures, losses, restarts,
  opened,         \* entries there were when a client last asked for the session
  intact,         \* no read or row of this process failed, none was lost
  orphaned,       \* the activity row was left by a dead process or a failed write
  stray           \* pi's run was cut off by an evict, or the row written while it
                  \* was idle, since the last user message

stream == <<phase, transcript>>
commits == <<capturing, persisted, announced>>
session == <<hosted, subscribed, backfilled, reading, snapshot>>
bubble == <<turn, active, activity, orphaned>>
counts == <<losses, restarts, opened>>
vars == <<stream, commits, session, bubble, stale, stray, rows, failures, counts, intact>>

Empty == [text |-> 0, tool |-> FALSE, queued |-> FALSE, timer |-> FALSE]
NoTurn == [none |-> TRUE]
TurnOr(t) == IF turn = NoTurn THEN t ELSE turn

Init ==
  /\ phase = "idle" /\ transcript = <<>>
  /\ capturing = FALSE /\ persisted = 0 /\ announced = 0
  /\ hosted = FALSE /\ subscribed = FALSE /\ backfilled = FALSE
  /\ reading = FALSE /\ snapshot = 0
  /\ turn = NoTurn /\ active = FALSE /\ rows = {}
  /\ activity = [kind |-> "none", text |-> 0, queued |-> FALSE] /\ orphaned = FALSE
  /\ stale = FALSE /\ stray = FALSE
  /\ failures = 0 /\ losses = 0 /\ restarts = 0 /\ opened = 0 /\ intact = TRUE

-----------------------------------------------------------------------------
(* The activity row *)

Put(kind, t) ==
  /\ activity' = [kind |-> kind, text |-> t.text, queued |-> t.queued]
  /\ orphaned' = FALSE
  /\ UNCHANGED failures

\* The upsert throws; it is logged, and not tried again.
PutFails ==
  /\ failures < MaxFailures /\ failures' = failures + 1
  /\ orphaned' = TRUE
  /\ UNCHANGED activity

\* #writeActivity
WriteActivity(kind, t) ==
  /\ turn' = t
  /\ \/ Put(kind, t) /\ active' = TRUE
     \/ PutFails /\ UNCHANGED active

\* Mutant: a pending flush is not cancelled.
ClearKeepingTimer ==
  /\ turn' = IF turn # NoTurn /\ turn.timer THEN [Empty EXCEPT !.timer = TRUE] ELSE NoTurn
  /\ active' = FALSE
  /\ IF active THEN Put("idle", Empty) \/ PutFails
     ELSE UNCHANGED <<activity, orphaned, failures>>

\* #clearActivity
ClearActivity ==
  /\ turn' = NoTurn
  /\ active' = FALSE
  /\ IF active THEN Put("idle", Empty) \/ PutFails
     ELSE UNCHANGED <<activity, orphaned, failures>>

-----------------------------------------------------------------------------
(* #onLiveEvent, in the order in which pi runs *)

Replying == Len(transcript) + 1

\* message_start of a user message: a new TurnState.  The turn_end before it
\* has cancelled the flush of the old one, if it came.
UserStart ==
  /\ hosted /\ phase \in {"idle", "between"} /\ Len(transcript) < MaxMessages
  /\ phase' = "asking"
  /\ transcript' = Append(transcript, "user")
  /\ WriteActivity("thinking", Empty)
  /\ stale' = (stale \/ (turn # NoTurn /\ turn.timer)) /\ stray' = FALSE
  /\ UNCHANGED <<commits, session, rows, counts, intact>>

\* message_start of the reply.
ReplyStart ==
  /\ phase \in {"asking", "between"} /\ Len(transcript) < MaxMessages
  /\ phase' = "replying"
  /\ WriteActivity("streaming", [TurnOr(Empty) EXCEPT !.text = 0])
  /\ UNCHANGED <<transcript, commits, session, stale, stray, rows, counts, intact>>

\* text_delta: #appendStream notes the text and arms the flush timer.
Delta ==
  /\ phase = "replying"
  /\ turn' = [TurnOr(Empty) EXCEPT !.tool = FALSE, !.text = Replying, !.timer = TRUE]
  /\ UNCHANGED <<stream, commits, session, active, activity, orphaned, stale, stray, rows,
                 failures, counts, intact>>

\* The flush timer fires.
Flush ==
  /\ turn # NoTurn /\ turn.timer
  /\ WriteActivity("streaming", [turn EXCEPT !.timer = FALSE])
  /\ UNCHANGED <<stream, commits, session, stale, stray, rows, counts, intact>>

\* That of a TurnState that was replaced: the row gets what there is now.
StaleFlush ==
  /\ stale /\ stale' = FALSE
  /\ UNCHANGED turn
  /\ \/ Put("streaming", TurnOr(Empty)) /\ active' = TRUE
     \/ PutFails /\ UNCHANGED active
  /\ stray' = (stray \/ phase = "idle")
  /\ UNCHANGED <<stream, commits, session, rows, counts, intact>>

\* message_end of the reply: it is in the transcript, and its tools run.
ReplyEnd ==
  /\ phase = "replying"
  /\ phase' = "acting" /\ transcript' = Append(transcript, "assistant")
  /\ UNCHANGED <<commits, session, bubble, stale, stray, rows, failures, counts, intact>>

\* toolcall_end, and the progress of a tool that runs.
Tool ==
  /\ phase \in {"replying", "acting"}
  /\ WriteActivity("tool", [TurnOr(Empty) EXCEPT !.tool = TRUE])
  /\ UNCHANGED <<stream, commits, session, stale, stray, rows, counts, intact>>

\* queue_update: the row keeps showing what the turn is doing.  A driver takes
\* steer and followUp in the midst of a run and when idle.
QueueUpdate(queued) ==
  /\ hosted
  /\ LET t == [TurnOr(Empty) EXCEPT !.queued = queued] IN
     WriteActivity(IF t.tool THEN "tool" ELSE IF t.text # 0 THEN "streaming" ELSE "thinking", t)
  /\ stray' = (stray \/ phase = "idle")
  /\ UNCHANGED <<stream, commits, session, stale, rows, counts, intact>>

\* turn_end: a capture is scheduled.
TurnEnd ==
  /\ phase = "acting"
  /\ phase' = "between" /\ capturing' = TRUE
  /\ ClearActivity
  /\ UNCHANGED <<transcript, persisted, announced, session, stale, stray, rows, counts, intact>>

\* agent_end: the run is over, or was aborted.
AgentEnd ==
  /\ phase # "idle"
  /\ phase' = "idle" /\ capturing' = TRUE
  /\ transcript' = IF phase = "replying" THEN Append(transcript, "assistant") ELSE transcript
  /\ ClearActivity
  /\ UNCHANGED <<persisted, announced, session, stale, stray, rows, counts, intact>>

\* The runtime is evicted: it no longer hears pi, and nobody tells the projector.
\* The messages that a capture under way will still store come before those of
\* the next runtime; what it will not is gone.
Evict ==
  /\ restarts < MaxRestarts /\ restarts' = restarts + 1
  /\ hosted /\ hosted' = FALSE
  /\ phase' = "idle" /\ stray' = (stray \/ phase # "idle")
  /\ transcript' = IF capturing THEN transcript ELSE SubSeq(transcript, 1, persisted)
  /\ UNCHANGED <<commits, subscribed, backfilled, reading, snapshot, bubble, stale, rows, failures,
                 losses, opened, intact>>

-----------------------------------------------------------------------------
(* Entries *)

\* The runtime persists the next message (and awaits the write).
Persist ==
  /\ capturing /\ announced = persisted /\ persisted < Len(transcript)
  /\ persisted' = persisted + 1
  /\ UNCHANGED <<stream, capturing, announced, session, bubble, stale, stray, rows, failures, counts,
                 intact>>

CaptureEnds ==
  /\ capturing /\ persisted = Len(transcript) /\ announced = persisted
  /\ capturing' = FALSE
  /\ UNCHANGED <<stream, persisted, announced, session, bubble, stale, stray, rows, failures, counts,
                 intact>>

\* After an assistant's entry: the row goes, or loses its text while a tool runs.
RetireText ==
  IF transcript[announced'] # "assistant" THEN UNCHANGED <<bubble, failures>>
  ELSE IF turn # NoTurn /\ turn.tool THEN WriteActivity("tool", [turn EXCEPT !.text = 0])
  ELSE ClearActivity

\* Mutant: entries that arrive during a backfill are left to it.
OnEntryUnlessReading ==
  /\ announced < persisted
  /\ announced' = announced + 1
  /\ rows' = IF reading THEN rows ELSE rows \cup {announced'}
  /\ RetireText
  /\ UNCHANGED <<stream, capturing, persisted, session, stale, stray, counts, intact>>

\* onEntry
OnEntry ==
  /\ announced < persisted
  /\ announced' = announced + 1
  /\ rows' = rows \cup {announced'}
  /\ RetireText
  /\ UNCHANGED <<stream, capturing, persisted, session, stale, stray, counts, intact>>

\* onEntry, where the upsert of the message throws: logged, and gone.
OnEntryMisses ==
  /\ announced < persisted /\ failures < MaxFailures
  /\ announced' = announced + 1
  /\ failures' = failures + 1 /\ intact' = FALSE
  /\ IF transcript[announced'] # "assistant" THEN UNCHANGED bubble
     ELSE IF turn # NoTurn /\ turn.tool
     THEN /\ turn' = [turn EXCEPT !.text = 0] /\ active' = TRUE /\ orphaned' = FALSE
          /\ activity' = [kind |-> "tool", text |-> 0, queued |-> turn.queued]
     ELSE /\ turn' = NoTurn /\ active' = FALSE
          /\ activity' = IF active THEN [kind |-> "idle", text |-> 0, queued |-> FALSE]
                         ELSE activity
          /\ orphaned' = (orphaned /\ ~active)
  /\ UNCHANGED <<stream, capturing, persisted, session, stale, stray, rows, counts>>

-----------------------------------------------------------------------------
(* Sessions *)

\* The store's getEntries: all rows, in order, as they are now.
GetEntries == persisted

\* Mutant: history is backfilled for a session only once it is live.
EnsureSubscribed ==
  /\ subscribed' = TRUE
  /\ IF hosted /\ ~backfilled
     THEN backfilled' = TRUE /\ reading' = TRUE /\ snapshot' = GetEntries
     ELSE UNCHANGED <<backfilled, reading, snapshot>>

\* ensureSession: subscribe once, and backfill once, marked as done before the
\* read that nobody awaits.
EnsureSession ==
  /\ subscribed' = TRUE
  /\ IF backfilled THEN UNCHANGED <<backfilled, reading, snapshot>>
     ELSE backfilled' = TRUE /\ reading' = TRUE /\ snapshot' = GetEntries

\* A client opens the session (POST /projection, or reads its entries).
Open ==
  /\ EnsureSession
  /\ opened' = persisted
  /\ UNCHANGED <<stream, commits, hosted, bubble, stale, stray, rows, failures, losses, restarts, intact>>

\* The registry instantiates a runtime.
Host ==
  /\ ~hosted
  /\ hosted' = TRUE
  /\ EnsureSession
  /\ UNCHANGED <<stream, commits, bubble, stale, stray, rows, failures, counts, intact>>

\* Mutant: history is taken from the live transcript.
RebuiltFromMemory ==
  /\ reading
  /\ reading' = FALSE
  /\ rows' = rows \cup 1..Len(transcript)
  /\ UNCHANGED <<stream, commits, hosted, subscribed, backfilled, snapshot, bubble, stale, stray,
                 failures, counts, intact>>

\* rebuild has its entries and projects them all.
Rebuilt ==
  /\ reading
  /\ reading' = FALSE
  /\ rows' = rows \cup 1..snapshot
  /\ UNCHANGED <<stream, commits, hosted, subscribed, backfilled, snapshot, bubble, stale, stray,
                 failures, counts, intact>>

\* rebuild, where upserts throw for some entries, or the read, and so for all.
RebuildMisses(missed) ==
  /\ reading /\ failures < MaxFailures
  /\ missed # {} /\ missed \subseteq 1..snapshot
  /\ reading' = FALSE
  /\ rows' = rows \cup (1..snapshot \ missed)
  /\ failures' = failures + 1 /\ intact' = FALSE
  /\ UNCHANGED <<stream, commits, hosted, subscribed, backfilled, snapshot, bubble, stale, stray,
                 counts>>

-----------------------------------------------------------------------------
(* Restarts *)

\* The in-memory sync server comes back empty; the backend does not notice.
SyncServerRestarts ==
  /\ losses < MaxLosses /\ losses' = losses + 1
  /\ rows' = {} /\ activity' = [kind |-> "none", text |-> 0, queued |-> FALSE]
  /\ opened' = 0 /\ intact' = FALSE
  /\ UNCHANGED <<stream, commits, session, turn, active, orphaned, stale, stray, failures, restarts>>

\* The backend comes back with what was persisted; Jazz keeps its rows.
BackendRestarts ==
  /\ restarts < MaxRestarts /\ restarts' = restarts + 1
  /\ phase' = "idle" /\ transcript' = SubSeq(transcript, 1, persisted)
  /\ capturing' = FALSE /\ announced' = persisted
  /\ hosted' = FALSE /\ subscribed' = FALSE /\ backfilled' = FALSE
  /\ reading' = FALSE /\ snapshot' = 0
  /\ turn' = NoTurn /\ active' = FALSE /\ stale' = FALSE /\ stray' = FALSE
  /\ orphaned' = (activity.kind \notin {"none", "idle"})
  /\ opened' = 0 /\ intact' = TRUE
  /\ UNCHANGED <<persisted, rows, activity, failures, losses>>

Next ==
  \/ UserStart \/ ReplyStart \/ Delta \/ Flush \/ StaleFlush \/ ReplyEnd \/ Tool
  \/ \E queued \in BOOLEAN : QueueUpdate(queued)
  \/ TurnEnd \/ AgentEnd \/ Evict
  \/ Persist \/ CaptureEnds \/ OnEntry \/ OnEntryMisses
  \/ Open \/ Host \/ Rebuilt
  \/ \E missed \in SUBSET (1..MaxMessages) : RebuildMisses(missed)
  \/ SyncServerRestarts \/ BackendRestarts

Spec == Init /\ [][Next]_vars

\* Reads and captures settle; nothing is asked of pi, of clients or of Jazz.
FairSpec ==
  /\ Spec
  /\ WF_vars(Persist) /\ WF_vars(OnEntry \/ OnEntryMisses) /\ WF_vars(CaptureEnds)
  /\ WF_vars(Rebuilt \/ \E missed \in SUBSET (1..MaxMessages) : RebuildMisses(missed))

-----------------------------------------------------------------------------
TypeOK ==
  /\ phase \in {"idle", "asking", "replying", "acting", "between"}
  /\ transcript \in Seq({"user", "assistant"})
  /\ announced \in 0..persisted /\ persisted \in announced..(announced + 1)
  /\ persisted <= Len(transcript) /\ snapshot \in 0..persisted
  /\ {capturing, hosted, subscribed, backfilled, reading, stale, active, intact, orphaned, stray}
       \subseteq BOOLEAN
  /\ turn = NoTurn \/ turn \in [text : 0..MaxMessages, tool : BOOLEAN, queued : BOOLEAN,
                                timer : BOOLEAN]
  /\ activity \in [kind : {"none", "thinking", "streaming", "tool", "idle"},
                   text : 0..MaxMessages, queued : BOOLEAN]
  /\ rows \subseteq 1..persisted

\* The read model is complete: whenever a backfill is done, between what it read
\* and what onEntry was given no entry fell through, however the two overlap and
\* however often the backend restarts, unless a call has failed.
ProjectionComplete == intact /\ backfilled /\ ~reading => 1..announced \subseteq rows

\* The live bubble is honest.  It is retired with the run: no timer, late entry
\* or tool brings it back once pi is idle, unless the run was cut off by an evict
\* or a prompt was queued when it was idle.  And "drop the live copy of its text"
\* (160): a message that has its row is not shown as live text too, though its
\* entry may be committed while its own tools still run.
BubbleHonest ==
  ~orphaned =>
    /\ phase = "idle" /\ ~stray => activity.kind \in {"none", "idle"} /\ ~activity.queued
    /\ activity.text \notin rows

\* Without those exceptions: the row shows "the in-flight turn" (9), so nothing
\* when there is none.
BubbleRetired == phase = "idle" /\ ~orphaned => activity.kind \in {"none", "idle"}

\* A tool that runs is shown as such, so that the UI does not show "a stale
\* streaming bubble" and look hung (256-258).
ToolShown == turn # NoTurn /\ turn.tool /\ ~orphaned => activity.kind \in {"tool", "none"}

\* The read model "has this session's history" (gateway.ts:104) after a client
\* asked for it: everything that was in the store is shown in the end.
OpenShowsHistory == opened > 0 ~> 1..opened \subseteq rows

\* It has, unless a call failed or the sync server lost its rows.
OpenShowsIntactHistory == opened > 0 ~> (~intact \/ 1..opened \subseteq rows)
=============================================================================
