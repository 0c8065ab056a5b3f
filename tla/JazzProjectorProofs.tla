------------------------ MODULE JazzProjectorProofs -------------------------
(***************************************************************************)
(* The read model's safety, for transcripts of any length and any number   *)
(* of failures, evicts and restarts.  That the rows are complete rests on  *)
(* what the backfill under way will bring (Backfilling); that the activity *)
(* row is honest rests on the turn it is written from, and on #active,     *)
(* which says that there is something to clear (TurnAndRun, RowAndTurn).   *)
(* What an evicted runtime leaves in them is told apart by `stray`.        *)
(*                                                                         *)
(* Then PanelAgrees of what the tab shows beside it, the skills panel      *)
(* (SkillsPanel): an answer may be outdated by a toggle of the tab itself, *)
(* but the tab asks again when it learns of it (Unaware, Newest).          *)
(***************************************************************************)
EXTENDS JazzProjector, SkillsPanel, SequenceTheorems, TLAPS

Roles == {"user", "assistant"}
TurnState == [text : 0..MaxMessages, tool : BOOLEAN, queued : BOOLEAN, timer : BOOLEAN]
Blank == {"none", "idle"}
Shown == {"thinking", "streaming", "tool"}
Activity == [kind : Blank \cup Shown, text : 0..MaxMessages, queued : BOOLEAN]

\* Entries are committed and announced in the order of the transcript.
Commits ==
  /\ phase \in {"idle", "asking", "replying", "acting", "between"}
  /\ transcript \in Seq(Roles)
  /\ persisted \in Nat /\ announced \in Nat /\ snapshot \in Nat
  /\ announced <= persisted /\ persisted <= announced + 1
  /\ persisted <= Len(transcript) /\ snapshot <= persisted
  /\ capturing \in BOOLEAN
  /\ rows \subseteq 1..announced \cup 1..snapshot

\* No text, or that of a reply that has no row and gets none from a backfill.
Live(text) ==
  \/ text = 0
  \/ /\ backfilled /\ text > announced /\ text > snapshot
     /\ text <= Len(transcript) => transcript[text] = "assistant"

\* While pi is idle there is a turn to show only if it was cut off or is queued.
TurnAndRun ==
  /\ active \in BOOLEAN /\ stale \in BOOLEAN /\ stray \in BOOLEAN
  /\ phase = "replying" => Len(transcript) < MaxMessages
  /\ phase = "idle" /\ ~stray => ~active /\ turn = NoTurn
  /\ turn = NoTurn \/ (turn \in TurnState /\ Live(turn.text))

\* A row that no dead process left shows what a turn shows, or nothing.
RowAndTurn ==
  /\ activity \in Activity /\ orphaned \in BOOLEAN
  /\ activity.kind \in Blank => activity.text = 0 /\ ~activity.queued
  /\ ~orphaned => (activity.kind \in Blank \/ active) /\ Live(activity.text)

\* What onEntry was given after the read began has its row; the read has the rest.
Backfilling ==
  /\ hosted \in BOOLEAN /\ subscribed \in BOOLEAN /\ backfilled \in BOOLEAN
  /\ reading \in BOOLEAN /\ intact \in BOOLEAN
  /\ hosted => backfilled
  /\ phase # "idle" => hosted
  /\ intact /\ backfilled =>
       IF reading THEN (snapshot + 1)..announced \subseteq rows ELSE 1..announced \subseteq rows

IInv == Commits /\ TurnAndRun /\ RowAndTurn /\ Backfilling

-----------------------------------------------------------------------------
(* The activity row *)

LEMMA BoundType == MaxMessages \in Nat
BY ProjectorAssumption

\* A turn is told from no turn by its fields.
LEMMA TurnIsNotNone == \A t \in TurnState : t # NoTurn
<1> SUFFICES ASSUME NEW t \in TurnState PROVE t # NoTurn
  OBVIOUS
<1>1. "text" \in DOMAIN t
  BY DEF TurnState
<1>2. "text" \notin DOMAIN NoTurn
  BY DEF NoTurn
<1> QED
  BY <1>1, <1>2

\* The turn an event works on: the one there is, or a new one.
LEMMA TurnInHand ==
  ASSUME TurnAndRun
  PROVE  TurnOr(Empty) \in TurnState /\ Live(TurnOr(Empty).text)
<1>1. Empty \in TurnState /\ Empty.text = 0
  BY BoundType DEF Empty, TurnState
<1> QED
  BY <1>1 DEF TurnAndRun, TurnOr, Live

\* What the events make of a turn.
LEMMA TurnMade ==
  ASSUME NEW t \in TurnState
  PROVE  /\ [t EXCEPT !.text = 0] \in TurnState /\ [t EXCEPT !.text = 0].text = 0
         /\ [t EXCEPT !.timer = FALSE] \in TurnState /\ [t EXCEPT !.timer = FALSE].text = t.text
         /\ [t EXCEPT !.tool = TRUE] \in TurnState /\ [t EXCEPT !.tool = TRUE].text = t.text
         /\ \A q \in BOOLEAN : /\ [t EXCEPT !.queued = q] \in TurnState
                               /\ [t EXCEPT !.queued = q].text = t.text
<1>1. 0 \in 0..MaxMessages
  BY BoundType
<1> QED
  BY <1>1 DEF TurnState

\* What a turn shows stays live while nothing is announced, read or cut.
LEMMA LiveKept ==
  ASSUME Commits, NEW text \in Nat, Live(text),
         UNCHANGED <<announced, snapshot>>, backfilled => backfilled',
         \/ transcript' = transcript
         \/ \E role \in Roles : transcript' = Append(transcript, role) /\ role = "assistant"
         \/ transcript' = SubSeq(transcript, 1, persisted)
  PROVE  Live(text)'
<1>1. CASE transcript' = transcript
  BY <1>1 DEF Live
<1>2. CASE transcript' = Append(transcript, "assistant") /\ text # 0
  <2>1. /\ Len(transcript') = Len(transcript) + 1 /\ Len(transcript) \in Nat
        /\ transcript'[Len(transcript) + 1] = "assistant"
        /\ \A i \in 1..Len(transcript) : transcript'[i] = transcript[i]
    BY <1>2 DEF Commits
  <2> QED
    BY <1>2, <2>1 DEF Live, Commits
<1>3. CASE transcript' = SubSeq(transcript, 1, persisted) /\ text # 0
  <2>1. \A i \in 1..persisted : transcript[i] \in Roles
    BY DEF Commits
  <2>2. Len(transcript') = persisted /\ \A i \in 1..persisted : transcript'[i] = transcript[i]
    BY <1>3, <2>1, SubSeqProperties DEF Commits
  <2> QED
    BY <1>3, <2>2 DEF Live, Commits
<1>4. CASE text = 0
  BY <1>4 DEF Live
<1> QED
  BY <1>1, <1>2, <1>3, <1>4

\* An upsert of the row while pi runs or the row is stray.
LEMMA RowPut ==
  ASSUME RowAndTurn, NEW kind \in Shown, NEW t \in TurnState, Live(t.text)',
         active \in BOOLEAN,
         \/ Put(kind, t) /\ active' = TRUE
         \/ PutFails /\ UNCHANGED active
  PROVE  RowAndTurn' /\ active' \in BOOLEAN
<1>1. ASSUME Put(kind, t) /\ active' = TRUE PROVE RowAndTurn'
  <2> DEFINE row == [kind |-> kind, text |-> t.text, queued |-> t.queued]
  <2>1. activity' = row /\ orphaned' = FALSE /\ active'
    BY <1>1 DEF Put
  <2>2. row \in Activity /\ row.kind = kind /\ row.text = t.text
    BY DEF Activity, TurnState
  <2>3. activity'.kind \notin Blank /\ activity'.text = t.text
    BY <2>1, <2>2 DEF Blank, Shown
  <2>4. Live(activity.text)'
    BY <2>3 DEF Live
  <2> QED
    BY <2>1, <2>2, <2>3, <2>4 DEF RowAndTurn
<1>2. ASSUME PutFails PROVE RowAndTurn'
  BY <1>2 DEF PutFails, RowAndTurn
<1> QED
  BY <1>1, <1>2

\* #writeActivity of a turn that shows no message that has its row.
LEMMA RowWritten ==
  ASSUME TurnAndRun, RowAndTurn, NEW kind \in Shown, NEW t \in TurnState, WriteActivity(kind, t),
         Live(t.text)', stale' \in BOOLEAN, stray' \in BOOLEAN,
         phase' = "idle" => stray', phase' = "replying" => Len(transcript') < MaxMessages
  PROVE  TurnAndRun' /\ RowAndTurn'
<1>1. /\ turn' = t /\ active \in BOOLEAN
      /\ (Put(kind, t) /\ active' = TRUE) \/ (PutFails /\ UNCHANGED active)
  BY DEF WriteActivity, TurnAndRun
<1>2. RowAndTurn' /\ active' \in BOOLEAN
  BY <1>1, RowPut
<1>3. Live(turn.text)'
  BY <1>1 DEF Live
<1> QED
  BY <1>1, <1>2, <1>3 DEF TurnAndRun

\* #clearActivity, whatever pi does next.
LEMMA RowCleared ==
  ASSUME TurnAndRun, RowAndTurn, ClearActivity, UNCHANGED <<stale, stray>>,
         phase' = "replying" => Len(transcript') < MaxMessages
  PROVE  TurnAndRun' /\ RowAndTurn'
<1>1. turn' = NoTurn /\ active' = FALSE
  BY DEF ClearActivity
<1>2. TurnAndRun'
  BY <1>1 DEF TurnAndRun
<1>3. ASSUME active /\ Put("idle", Empty) PROVE RowAndTurn'
  <2> DEFINE row == [kind |-> "idle", text |-> 0, queued |-> FALSE]
  <2>1. activity' = row /\ orphaned' = FALSE
    BY <1>3 DEF Put, Empty
  <2>2. row \in Activity /\ row.kind = "idle" /\ row.text = 0 /\ row.queued = FALSE
    BY BoundType DEF Activity, Blank
  <2> QED
    BY <2>1, <2>2 DEF RowAndTurn, Live, Blank
<1>4. ASSUME active /\ PutFails PROVE RowAndTurn'
  BY <1>4 DEF PutFails, RowAndTurn
<1>5. ASSUME ~active /\ UNCHANGED <<activity, orphaned>> PROVE RowAndTurn'
  BY <1>5 DEF RowAndTurn, Live
<1> QED
  BY <1>2, <1>3, <1>4, <1>5 DEF ClearActivity, TurnAndRun

\* Nothing is written, and what is shown stays live.
LEMMA RowLeft ==
  ASSUME TurnAndRun, RowAndTurn, UNCHANGED bubble, stale' \in BOOLEAN, stray' \in BOOLEAN,
         turn # NoTurn => Live(turn.text)', ~orphaned => Live(activity.text)',
         phase' = "idle" /\ ~stray' => phase = "idle" /\ ~stray,
         phase' = "replying" => Len(transcript') < MaxMessages
  PROVE  TurnAndRun' /\ RowAndTurn'
<1>1. UNCHANGED <<turn, active, activity, orphaned>>
  BY DEF bubble
<1> QED
  BY <1>1 DEF TurnAndRun, RowAndTurn

\* The same, where neither the transcript nor the commits move.
LEMMA RowIdles ==
  ASSUME TurnAndRun, RowAndTurn, UNCHANGED <<bubble, stream, stale, stray, announced>>,
         \/ UNCHANGED <<snapshot, backfilled>>
         \/ ~backfilled
  PROVE  TurnAndRun' /\ RowAndTurn'
<1>1. UNCHANGED <<turn, active, activity, orphaned, phase, transcript>>
  BY DEF bubble, stream
<1>2. turn # NoTurn => Live(turn.text)'
  BY <1>1 DEF TurnAndRun, Live
<1>3. ~orphaned => Live(activity.text)'
  BY <1>1 DEF RowAndTurn, Live
<1> QED
  BY <1>1, <1>2, <1>3 DEF TurnAndRun, RowAndTurn

\* What the events of a run write.
LEMMA LiveEventStep ==
  ASSUME IInv,
         \/ UserStart \/ ReplyStart \/ Delta \/ Flush \/ StaleFlush \/ Tool
         \/ \E queued \in BOOLEAN : QueueUpdate(queued)
  PROVE  TurnAndRun' /\ RowAndTurn'
<1>0. /\ Commits /\ TurnAndRun /\ RowAndTurn
      /\ stale \in BOOLEAN /\ stray \in BOOLEAN
  BY DEF IInv, TurnAndRun
<1>1. PICK g \in TurnState : g = TurnOr(Empty) /\ Live(g.text)
  BY <1>0, TurnInHand
<1>2. ASSUME UNCHANGED <<commits, session, stream>>, NEW text, Live(text) PROVE Live(text)'
  BY <1>2 DEF Live, commits, session, stream
<1>3. CASE UserStart
  <2>1. Empty \in TurnState /\ Empty.text = 0 /\ "thinking" \in Shown
    BY BoundType DEF Empty, TurnState, Shown
  <2>2. PICK t \in TurnState : t = Empty /\ t.text = 0
    BY <2>1
  <2>3. WriteActivity("thinking", t) /\ phase' = "asking" /\ Live(t.text)'
    BY <1>3, <2>2 DEF UserStart, Live
  <2>4. stale' \in BOOLEAN /\ stray' \in BOOLEAN
    <3>1. turn # NoTurn => turn.timer \in BOOLEAN
      BY <1>0 DEF TurnAndRun, TurnState
    <3> QED
      BY <1>0, <1>3, <3>1 DEF UserStart
  <2> QED
    BY <1>0, <2>1, <2>3, <2>4, RowWritten
<1>4. CASE ReplyStart
  <2>1. PICK t \in TurnState : t = [g EXCEPT !.text = 0] /\ t.text = 0
    BY TurnMade
  <2>2. /\ WriteActivity("streaming", t) /\ phase' = "replying" /\ Len(transcript') < MaxMessages
        /\ UNCHANGED <<stale, stray>>
    BY <1>1, <1>4, <2>1 DEF ReplyStart
  <2>3. Live(t.text)' /\ "streaming" \in Shown
    BY <2>1 DEF Live, Shown
  <2> QED
    BY <1>0, <2>2, <2>3, RowWritten
<1>5. CASE Delta
  <2> DEFINE t == [g EXCEPT !.tool = FALSE, !.text = Replying, !.timer = TRUE]
  <2>1. phase = "replying" /\ turn' = t
        /\ UNCHANGED <<commits, session, stream, active, activity, orphaned, stale, stray>>
    BY <1>1, <1>5 DEF Delta
  <2>2. UNCHANGED <<phase, transcript, announced, snapshot, backfilled>>
    BY <2>1 DEF stream, commits, session
  <2>3. Replying \in 0..MaxMessages
    BY <1>0, <2>1, BoundType DEF Replying, TurnAndRun, Commits
  <2>4. t \in TurnState /\ t.text = Replying
    BY <2>3 DEF TurnState
  <2>5. backfilled /\ Replying > announced /\ Replying > snapshot /\ Replying > Len(transcript)
    BY <1>0, <2>1 DEF IInv, Backfilling, Commits, Replying
  <2>6. Live(turn.text)'
    <3>1. PICK k \in 0..MaxMessages : k = Replying
      BY <2>3
    <3>2. k > Len(transcript) /\ Len(transcript) \in Nat /\ turn'.text = k
      BY <1>0, <2>1, <2>4, <2>5, <3>1 DEF Commits
    <3> QED
      BY <1>0, <2>2, <2>5, <3>1, <3>2 DEF Live, Commits
  <2>7. TurnAndRun'
    BY <1>0, <2>1, <2>2, <2>4, <2>6 DEF TurnAndRun
  <2>8. RowAndTurn'
    BY <1>0, <1>2, <2>1 DEF RowAndTurn
  <2> QED
    BY <2>7, <2>8
<1>6. CASE Flush
  <2>1. turn \in TurnState /\ Live(turn.text)
    BY <1>0, <1>6 DEF Flush, TurnAndRun
  <2>2. PICK t \in TurnState : t = [turn EXCEPT !.timer = FALSE] /\ t.text = turn.text
    BY <2>1, TurnMade
  <2>3. WriteActivity("streaming", t) /\ UNCHANGED <<commits, session, stream, stale, stray>>
    BY <1>6, <2>2 DEF Flush
  <2>4. Live(t.text)' /\ "streaming" \in Shown
    BY <1>2, <2>1, <2>2, <2>3 DEF Shown
  <2>5. (phase' = "idle" => stray') /\ (phase' = "replying" => Len(transcript') < MaxMessages)
    BY <1>0, <1>6, <2>3 DEF Flush, TurnAndRun, stream
  <2> QED
    BY <1>0, <2>3, <2>4, <2>5, RowWritten
<1>7. CASE StaleFlush
  <2>1. /\ UNCHANGED <<commits, session, stream, turn>> /\ stale' = FALSE
        /\ stray' = (stray \/ phase = "idle") /\ active \in BOOLEAN
        /\ (Put("streaming", g) /\ active' = TRUE) \/ (PutFails /\ UNCHANGED active)
    BY <1>0, <1>1, <1>7 DEF StaleFlush, TurnAndRun
  <2>2. Live(g.text)' /\ "streaming" \in Shown
    BY <1>1, <1>2, <2>1 DEF Shown
  <2>3. RowAndTurn' /\ active' \in BOOLEAN
    BY <1>0, <2>1, <2>2, RowPut
  <2>4. turn # NoTurn => Live(turn.text)'
    BY <1>0, <1>2, <2>1 DEF TurnAndRun
  <2>5. UNCHANGED <<phase, transcript>>
    BY <2>1 DEF stream
  <2> QED
    BY <1>0, <2>1, <2>3, <2>4, <2>5 DEF TurnAndRun
<1>8. CASE Tool
  <2>1. PICK t \in TurnState : t = [g EXCEPT !.tool = TRUE] /\ t.text = g.text
    BY TurnMade
  <2>2. /\ WriteActivity("tool", t) /\ phase # "idle" /\ UNCHANGED <<commits, session, stream, stale, stray>>
    BY <1>1, <1>8, <2>1 DEF Tool
  <2>3. Live(t.text)' /\ "tool" \in Shown
    BY <1>1, <1>2, <2>1, <2>2 DEF Shown
  <2>4. phase' # "idle" /\ (phase' = "replying" => Len(transcript') < MaxMessages)
    BY <1>0, <2>2 DEF TurnAndRun, stream
  <2> QED
    BY <1>0, <2>2, <2>3, <2>4, RowWritten
<1>9. ASSUME NEW queued \in BOOLEAN, QueueUpdate(queued) PROVE TurnAndRun' /\ RowAndTurn'
  <2>1. PICK t \in TurnState : t = [g EXCEPT !.queued = queued] /\ t.text = g.text
    BY TurnMade
  <2>2. UNCHANGED <<commits, session, stream, stale>> /\ stray' = (stray \/ phase = "idle")
    BY <1>9 DEF QueueUpdate
  <2>3. PICK kind \in Shown : WriteActivity(kind, t)
    BY <1>1, <1>9, <2>1 DEF QueueUpdate, Shown
  <2>4. Live(t.text)'
    BY <1>1, <1>2, <2>1, <2>2
  <2>5. (phase' = "idle" => stray') /\ (phase' = "replying" => Len(transcript') < MaxMessages)
    BY <1>0, <2>2 DEF TurnAndRun, stream
  <2> QED
    BY <1>0, <2>2, <2>3, <2>4, <2>5, RowWritten
<1> QED
  BY <1>3, <1>4, <1>5, <1>6, <1>7, <1>8, <1>9

\* What the ends leave: of a reply, of a turn or run, or of the runtime.
LEMMA EndStep ==
  ASSUME IInv, ReplyEnd \/ TurnEnd \/ AgentEnd \/ Evict
  PROVE  TurnAndRun' /\ RowAndTurn'
<1>0. Commits /\ TurnAndRun /\ RowAndTurn /\ stale \in BOOLEAN /\ stray \in BOOLEAN
  BY DEF IInv, TurnAndRun
<1>1. CASE TurnEnd \/ AgentEnd
  <2>1. ClearActivity /\ phase' # "replying" /\ UNCHANGED <<stale, stray>>
    BY <1>1 DEF TurnEnd, AgentEnd
  <2> QED
    BY <1>0, <2>1, RowCleared
<1>2. CASE ReplyEnd \/ Evict
  <2>1. /\ UNCHANGED <<bubble, announced, snapshot, backfilled, stale>> /\ phase' \in {"acting", "idle"}
        /\ stray' \in BOOLEAN
        /\ phase' = "idle" /\ ~stray' => phase = "idle" /\ ~stray
        /\ transcript' \in {transcript, Append(transcript, "assistant"),
                            SubSeq(transcript, 1, persisted)}
    BY <1>0, <1>2 DEF ReplyEnd, Evict, commits, session
  <2>2. ASSUME NEW text \in Nat, Live(text) PROVE Live(text)'
    <3>1. \/ transcript' = transcript
          \/ \E role \in Roles : transcript' = Append(transcript, role) /\ role = "assistant"
          \/ transcript' = SubSeq(transcript, 1, persisted)
      BY <2>1 DEF Roles
    <3> QED
      BY <1>0, <2>1, <2>2, <3>1, LiveKept
  <2>3. turn # NoTurn => turn.text \in Nat /\ Live(turn.text)
    BY <1>0, BoundType DEF TurnAndRun, TurnState
  <2>4. ~orphaned => activity.text \in Nat /\ Live(activity.text)
    BY <1>0, BoundType DEF RowAndTurn, Activity
  <2>5. UNCHANGED <<turn, activity>>
    BY <2>1 DEF bubble
  <2>6. turn # NoTurn => Live(turn.text)'
    BY <2>2, <2>3, <2>5
  <2>7. ~orphaned => Live(activity.text)'
    BY <2>2, <2>4, <2>5
  <2> QED
    BY <1>0, <2>1, <2>6, <2>7, RowLeft
<1> QED
  BY <1>1, <1>2

\* What an entry leaves of the activity row, whether or not its row was written.
LEMMA EntryStep ==
  ASSUME IInv, OnEntry \/ OnEntryMisses
  PROVE  TurnAndRun' /\ RowAndTurn'
<1>0. /\ Commits /\ TurnAndRun /\ RowAndTurn /\ stale \in BOOLEAN /\ stray \in BOOLEAN
      /\ phase' = "replying" => Len(transcript') < MaxMessages
      /\ UNCHANGED <<phase, transcript, snapshot, backfilled, stale, stray>>
      /\ announced' = announced + 1 /\ announced + 1 <= persisted
      /\ announced \in Nat
  BY DEF IInv, Commits, TurnAndRun, OnEntry, OnEntryMisses, stream, session
<1>1. ASSUME turn # NoTurn
      PROVE  /\ turn \in TurnState /\ (phase = "idle" => stray)
             /\ [turn EXCEPT !.text = 0] \in TurnState /\ [turn EXCEPT !.text = 0].text = 0
  BY <1>0, <1>1, TurnMade DEF TurnAndRun
\* What is shown is not of a user's message.
<1>2. ASSUME transcript[announced + 1] # "assistant", UNCHANGED bubble PROVE TurnAndRun' /\ RowAndTurn'
  <2>1. ASSUME NEW text \in Nat, Live(text) PROVE Live(text)'
    BY <1>0, <1>2, <2>1 DEF Live, Commits
  <2>2. turn # NoTurn => turn.text \in Nat /\ Live(turn.text)
    BY <1>0, BoundType DEF TurnAndRun, TurnState
  <2>3. ~orphaned => activity.text \in Nat /\ Live(activity.text)
    BY <1>0, BoundType DEF RowAndTurn, Activity
  <2>4. UNCHANGED <<turn, activity>>
    BY <1>2 DEF bubble
  <2>5. turn # NoTurn => Live(turn.text)'
    BY <2>1, <2>2, <2>4
  <2>6. ~orphaned => Live(activity.text)'
    BY <2>1, <2>3, <2>4
  <2> QED
    BY <1>0, <1>2, <2>5, <2>6, RowLeft
<1>3. CASE OnEntry
  <2>1. CASE transcript[announced + 1] # "assistant" /\ UNCHANGED bubble
    BY <1>2, <2>1
  <2>2. CASE turn # NoTurn /\ WriteActivity("tool", [turn EXCEPT !.text = 0])
    <3>1. PICK t \in TurnState : t = [turn EXCEPT !.text = 0] /\ t.text = 0
      BY <1>1, <2>2
    <3>2. WriteActivity("tool", t) /\ Live(t.text)' /\ "tool" \in Shown
      BY <2>2, <3>1 DEF Live, Shown
    <3> QED
      BY <1>0, <1>1, <2>2, <3>2, RowWritten
  <2>3. CASE ClearActivity
    BY <1>0, <2>3, RowCleared
  <2> QED
    BY <1>0, <1>3, <2>1, <2>2, <2>3 DEF OnEntry, RetireText
<1>4. CASE OnEntryMisses
  <2>1. CASE transcript[announced + 1] # "assistant" /\ UNCHANGED bubble
    BY <1>2, <2>1
  <2>2. CASE /\ turn # NoTurn /\ turn' = [turn EXCEPT !.text = 0]
             /\ active' = TRUE /\ orphaned' = FALSE
             /\ activity' = [kind |-> "tool", text |-> 0, queued |-> turn.queued]
    <3> DEFINE row == [kind |-> "tool", text |-> 0, queued |-> turn.queued]
    <3>1. row \in Activity /\ row.kind = "tool" /\ row.text = 0
      BY <1>1, <2>2, BoundType DEF Activity, Shown, TurnState
    <3>2. "tool" \notin Blank
      BY DEF Blank
    <3>3. TurnAndRun'
      BY <1>0, <1>1, <2>2 DEF TurnAndRun, Live
    <3> QED
      BY <1>0, <2>2, <3>1, <3>2, <3>3 DEF RowAndTurn, Live
  <2>3. CASE /\ turn' = NoTurn /\ active' = FALSE /\ active
             /\ activity' = [kind |-> "idle", text |-> 0, queued |-> FALSE]
    <3> DEFINE row == [kind |-> "idle", text |-> 0, queued |-> FALSE]
    <3>1. row \in Activity /\ row.kind \in Blank /\ row.text = 0 /\ row.queued = FALSE
      BY BoundType DEF Activity, Blank
    <3>2. orphaned' \in BOOLEAN
      BY <1>0, <1>4, <2>3, <1>1 DEF OnEntryMisses, bubble, RowAndTurn
    <3>3. TurnAndRun'
      BY <1>0, <2>3 DEF TurnAndRun
    <3> QED
      BY <2>3, <3>1, <3>2, <3>3 DEF RowAndTurn, Live
  <2>4. CASE /\ turn' = NoTurn /\ active' = FALSE /\ ~active
             /\ activity' = activity /\ orphaned' = orphaned
    BY <1>0, <2>4 DEF TurnAndRun, RowAndTurn, Live
  <2> QED
    BY <1>0, <1>4, <2>1, <2>2, <2>3, <2>4 DEF OnEntryMisses, TurnAndRun, RowAndTurn
<1> QED
  BY <1>3, <1>4

\* The row's properties over the remaining steps.
LEMMA RowStep ==
  ASSUME IInv, [Next]_vars
  PROVE  TurnAndRun' /\ RowAndTurn'
<1>0. Commits /\ TurnAndRun /\ RowAndTurn
  BY DEF IInv
<1>1. CASE \/ UserStart \/ ReplyStart \/ Delta \/ Flush \/ StaleFlush \/ Tool
           \/ \E queued \in BOOLEAN : QueueUpdate(queued)
  BY <1>1, LiveEventStep
<1>2. CASE ReplyEnd \/ TurnEnd \/ AgentEnd \/ Evict
  BY <1>2, EndStep
<1>3. CASE OnEntry \/ OnEntryMisses
  BY <1>3, EntryStep
<1>4. CASE \/ Persist \/ CaptureEnds \/ Open \/ Host \/ Rebuilt
           \/ \E missed \in SUBSET (1..MaxMessages) : RebuildMisses(missed)
           \/ UNCHANGED vars
  <2>1. /\ UNCHANGED <<bubble, stream, stale, stray, announced>>
        /\ UNCHANGED <<snapshot, backfilled>> \/ ~backfilled
    BY <1>4 DEF Persist, CaptureEnds, Open, Host, EnsureSession, Rebuilt, RebuildMisses,
                vars, commits, session
  <2> QED
    BY <1>0, <2>1, RowIdles
<1>5. CASE SyncServerRestarts
  <2> DEFINE row == [kind |-> "none", text |-> 0, queued |-> FALSE]
  <2>1. row \in Activity /\ row.kind \in Blank /\ row.text = 0 /\ row.queued = FALSE
    BY BoundType DEF Activity, Blank
  <2>2. activity' = row /\ UNCHANGED <<turn, active, orphaned, phase, transcript, stale, stray>>
        /\ UNCHANGED <<announced, snapshot, backfilled>>
    BY <1>5 DEF SyncServerRestarts, stream, commits, session
  <2>3. turn # NoTurn => Live(turn.text)'
    BY <1>0, <2>2 DEF TurnAndRun, Live
  <2> QED
    BY <1>0, <2>1, <2>2, <2>3 DEF TurnAndRun, RowAndTurn, Live
<1>6. CASE BackendRestarts
  <2>1. /\ phase' = "idle" /\ turn' = NoTurn /\ active' = FALSE /\ activity' = activity
        /\ stale' = FALSE /\ stray' = FALSE
        /\ orphaned' = (activity.kind \notin Blank)
    BY <1>6 DEF BackendRestarts, Blank
  <2>2. TurnAndRun'
    BY <2>1 DEF TurnAndRun
  <2> QED
    BY <1>0, <2>1, <2>2 DEF RowAndTurn, Live
<1> QED
  BY <1>1, <1>2, <1>3, <1>4, <1>5, <1>6 DEF Next

-----------------------------------------------------------------------------
(* Entries and rows *)

\* A message is finished, or a message begins: the transcript only grows.
LEMMA TranscriptGrows ==
  ASSUME Commits, NEW role \in Roles
  PROVE  /\ Append(transcript, role) \in Seq(Roles)
         /\ Len(Append(transcript, role)) = Len(transcript) + 1 /\ Len(transcript) \in Nat
BY DEF Commits

\* It is cut back to what was persisted, which loses nothing persisted.
LEMMA TranscriptCutBack ==
  ASSUME Commits
  PROVE  /\ SubSeq(transcript, 1, persisted) \in Seq(Roles)
         /\ Len(SubSeq(transcript, 1, persisted)) = persisted
<1>1. \A i \in 1..persisted : transcript[i] \in Roles
  BY DEF Commits
<1>2. persisted \in Int /\ 1 \in Int /\ persisted >= 0
  BY DEF Commits
<1>3. /\ SubSeq(transcript, 1, persisted) \in Seq(Roles)
      /\ Len(SubSeq(transcript, 1, persisted)) = IF 1 <= persisted THEN persisted - 1 + 1 ELSE 0
  BY <1>1, <1>2, SubSeqProperties
<1> QED
  BY <1>2, <1>3

LEMMA CommitsStep ==
  ASSUME IInv, [Next]_vars
  PROVE  Commits'
<1>0. Commits
  BY DEF IInv
<1>1. ASSUME UNCHANGED <<stream, persisted, announced, rows, snapshot>>, capturing' \in BOOLEAN
      PROVE  Commits'
  BY <1>0, <1>1 DEF Commits, stream
<1>2. CASE UserStart
  <2>1. transcript' \in Seq(Roles) /\ Len(transcript') = Len(transcript) + 1 /\ Len(transcript) \in Nat
    BY <1>0, <1>2, TranscriptGrows DEF UserStart, Roles
  <2> QED
    BY <1>0, <1>2, <2>1 DEF UserStart, Commits, commits, session
<1>3. CASE \/ ReplyStart \/ Delta \/ Flush \/ StaleFlush \/ Tool
           \/ \E queued \in BOOLEAN : QueueUpdate(queued)
  BY <1>0, <1>3 DEF ReplyStart, Delta, Flush, StaleFlush, Tool, QueueUpdate, Commits, commits,
                    session, stream
<1>4. CASE ReplyEnd \/ TurnEnd \/ AgentEnd
  <2>1. transcript' \in {transcript, Append(transcript, "assistant")}
    BY <1>4 DEF ReplyEnd, TurnEnd, AgentEnd
  <2>2. transcript' \in Seq(Roles) /\ Len(transcript') >= Len(transcript)
        /\ Len(transcript') \in Nat /\ Len(transcript) \in Nat
    BY <1>0, <2>1, TranscriptGrows DEF Commits, Roles
  <2>3. /\ phase' \in {"idle", "acting", "between"}
        /\ UNCHANGED <<persisted, announced, snapshot, rows>>
    BY <1>4 DEF ReplyEnd, TurnEnd, AgentEnd, session, commits
  <2>4. capturing' \in BOOLEAN
    BY <1>0, <1>4 DEF ReplyEnd, TurnEnd, AgentEnd, commits, Commits
  <2> QED
    BY <1>0, <2>2, <2>3, <2>4 DEF Commits
<1>5. CASE Evict
  <2>1. transcript' \in {transcript, SubSeq(transcript, 1, persisted)}
    BY <1>5 DEF Evict
  <2>2. transcript' \in Seq(Roles) /\ persisted <= Len(transcript')
    BY <1>0, <2>1, TranscriptCutBack DEF Commits
  <2>3. phase' = "idle" /\ UNCHANGED <<capturing, persisted, announced, snapshot, rows>>
    BY <1>5 DEF Evict, commits
  <2> QED
    BY <1>0, <2>2, <2>3 DEF Commits
<1>6. CASE Persist
  BY <1>0, <1>6 DEF Persist, Commits, session, stream
<1>7. CASE CaptureEnds
  BY <1>0, <1>1, <1>7 DEF CaptureEnds, Commits, session
<1>8. CASE OnEntry
  <2>1. rows \cup {announced + 1} \subseteq 1..(announced + 1) \cup 1..snapshot
    BY <1>0 DEF Commits
  <2> QED
    BY <1>0, <1>8, <2>1 DEF OnEntry, Commits, session, stream
<1>9. CASE OnEntryMisses
  <2>1. rows \subseteq 1..(announced + 1) \cup 1..snapshot
    BY <1>0 DEF Commits
  <2> QED
    BY <1>0, <1>9, <2>1 DEF OnEntryMisses, Commits, session, stream
<1>10. CASE Open \/ Host
  <2>1. UNCHANGED <<stream, commits, rows>> /\ snapshot' \in {snapshot, persisted}
    BY <1>10 DEF Open, Host, EnsureSession, GetEntries
  <2>2. capturing' = capturing
    BY <2>1 DEF commits
  <2> QED
    BY <1>0, <2>1, <2>2 DEF Commits, commits, stream
<1>11. CASE Rebuilt
  BY <1>0, <1>11 DEF Rebuilt, Commits, commits, stream
<1>12. CASE \E missed \in SUBSET (1..MaxMessages) : RebuildMisses(missed)
  BY <1>0, <1>12 DEF RebuildMisses, Commits, commits, stream
<1>13. CASE SyncServerRestarts
  BY <1>0, <1>13 DEF SyncServerRestarts, Commits, commits, session, stream
<1>14. CASE BackendRestarts
  <2>1. transcript' \in Seq(Roles) /\ Len(transcript') = persisted
    BY <1>0, <1>14, TranscriptCutBack DEF BackendRestarts
  <2>2. /\ phase' = "idle" /\ announced' = persisted /\ snapshot' = 0
        /\ persisted' = persisted /\ rows' = rows
    BY <1>14 DEF BackendRestarts
  <2>3. rows \subseteq 1..persisted
    BY <1>0 DEF Commits
  <2>4. capturing' \in BOOLEAN
    BY <1>14 DEF BackendRestarts
  <2> QED
    BY <1>0, <2>1, <2>2, <2>3, <2>4 DEF Commits
<1>15. CASE UNCHANGED vars
  BY <1>0, <1>15 DEF vars, Commits, commits, session, stream
<1> QED
  BY <1>2, <1>3, <1>4, <1>5, <1>6, <1>7, <1>8, <1>9, <1>10, <1>11, <1>12, <1>13, <1>14, <1>15 DEF Next

LEMMA BackfillStep ==
  ASSUME IInv, [Next]_vars
  PROVE  Backfilling'
<1>0. Commits /\ Backfilling
  BY DEF IInv
<1>1. ASSUME UNCHANGED <<announced, rows, session, intact>>, phase' # "idle" => hosted PROVE Backfilling'
  BY <1>0, <1>1 DEF Backfilling, session
<1>2. CASE \/ UserStart \/ ReplyStart \/ Delta \/ Flush \/ StaleFlush \/ ReplyEnd \/ Tool
           \/ \E queued \in BOOLEAN : QueueUpdate(queued)
           \/ TurnEnd \/ AgentEnd \/ Persist \/ CaptureEnds \/ UNCHANGED vars
  <2>1. UNCHANGED <<announced, rows, session, intact>>
    BY <1>2 DEF UserStart, ReplyStart, Delta, Flush, StaleFlush, ReplyEnd, Tool, QueueUpdate,
                TurnEnd, AgentEnd, Persist, CaptureEnds, vars, commits
  <2>2. phase' # "idle" => hosted
    BY <1>0, <1>2 DEF UserStart, ReplyStart, Delta, Flush, StaleFlush, ReplyEnd, Tool, QueueUpdate,
                      TurnEnd, AgentEnd, Persist, CaptureEnds, vars, stream, Backfilling
  <2> QED
    BY <1>1, <2>1, <2>2
<1>3. CASE OnEntry
  <2>1. /\ announced' = announced + 1 /\ rows' = rows \cup {announced + 1}
        /\ UNCHANGED <<session, intact, phase>>
    BY <1>3 DEF OnEntry, stream
  <2> QED
    BY <1>0, <2>1 DEF Backfilling, Commits, session
<1>4. CASE OnEntryMisses
  BY <1>0, <1>4 DEF OnEntryMisses, Backfilling, session, stream
<1>5. CASE Open \/ Host
  <2>1. UNCHANGED <<announced, rows, intact, phase>> /\ EnsureSession
    BY <1>5 DEF Open, Host, commits, stream
  <2>2. hosted' \in BOOLEAN /\ (hosted => hosted')
    BY <1>0, <1>5 DEF Open, Host, Backfilling
  <2>3. CASE backfilled
    <3>1. UNCHANGED <<backfilled, reading, snapshot>> /\ subscribed' = TRUE
      BY <2>1, <2>3 DEF EnsureSession
    <3> QED
      BY <1>0, <2>1, <2>2, <2>3, <3>1 DEF Backfilling
  <2>4. CASE ~backfilled
    <3>1. backfilled' = TRUE /\ reading' = TRUE /\ snapshot' = persisted /\ subscribed' = TRUE
      BY <2>1, <2>4 DEF EnsureSession, GetEntries
    <3>2. (persisted + 1)..announced = {}
      BY <1>0 DEF Commits
    <3> QED
      BY <1>0, <2>1, <2>2, <3>1, <3>2 DEF Backfilling
  <2> QED
    BY <2>3, <2>4
<1>6. CASE Rebuilt
  <2>1. /\ reading /\ reading' = FALSE /\ rows' = rows \cup 1..snapshot
        /\ UNCHANGED <<announced, hosted, subscribed, backfilled, snapshot, intact, phase>>
    BY <1>6 DEF Rebuilt, commits, stream
  <2>2. ASSUME intact, backfilled, NEW i \in 1..announced PROVE i \in rows'
    <3>1. CASE i <= snapshot
      BY <1>0, <2>1, <3>1 DEF Commits
    <3>2. CASE i > snapshot
      <4>1. i \in (snapshot + 1)..announced
        BY <1>0, <3>2 DEF Commits
      <4> QED
        BY <1>0, <2>1, <2>2, <4>1 DEF Backfilling
    <3> QED
      BY <1>0, <3>1, <3>2 DEF Commits
  <2> QED
    BY <1>0, <2>1, <2>2 DEF Backfilling
<1>7. CASE \E missed \in SUBSET (1..MaxMessages) : RebuildMisses(missed)
  <2>1. /\ reading' = FALSE /\ intact' = FALSE
        /\ UNCHANGED <<hosted, subscribed, backfilled, phase>>
    BY <1>7 DEF RebuildMisses, stream
  <2> QED
    BY <1>0, <2>1 DEF Backfilling
<1>8. CASE SyncServerRestarts
  BY <1>0, <1>8 DEF SyncServerRestarts, Backfilling, session, stream
<1>9. CASE BackendRestarts
  BY <1>9 DEF BackendRestarts, Backfilling
<1>10. CASE Evict
  <2>1. /\ UNCHANGED <<announced, rows, subscribed, backfilled, reading, snapshot, intact>>
        /\ hosted' = FALSE /\ phase' = "idle"
    BY <1>10 DEF Evict, commits
  <2> QED
    BY <1>0, <2>1 DEF Backfilling
<1> QED
  BY <1>2, <1>3, <1>4, <1>5, <1>6, <1>7, <1>8, <1>9, <1>10 DEF Next

-----------------------------------------------------------------------------
\* Initially pi is idle, nothing is written and nothing is shown.
LEMMA IInvInit == Init => IInv
<1> SUFFICES ASSUME Init PROVE IInv
  OBVIOUS
<1> DEFINE row == [kind |-> "none", text |-> 0, queued |-> FALSE]
<1>1. row \in Activity /\ row.kind \in Blank /\ row.text = 0 /\ row.queued = FALSE
  BY BoundType DEF Activity, Blank
<1>2. RowAndTurn
  BY <1>1 DEF Init, RowAndTurn, Live
<1>3. transcript \in Seq(Roles) /\ Len(transcript) = 0
  <2>1. <<>> \in Seq(Roles) /\ Len(<<>>) = 0
    OBVIOUS
  <2> QED
    BY <2>1 DEF Init
<1>4. Commits
  <2>1. capturing \in BOOLEAN /\ rows = {}
    BY DEF Init
  <2>2. phase = "idle" /\ persisted = 0 /\ announced = 0 /\ snapshot = 0
    BY DEF Init
  <2> QED
    BY <1>3, <2>1, <2>2 DEF Commits
<1>5. TurnAndRun /\ Backfilling
  BY DEF Init, TurnAndRun, Backfilling
<1> QED
  BY <1>2, <1>4, <1>5 DEF IInv

\* The inductive invariant holds of every behaviour of the projector.
THEOREM Invariance == Spec => []IInv
<1>1. IInv /\ [Next]_vars => IInv'
  BY RowStep, CommitsStep, BackfillStep DEF IInv
<1> QED
  BY <1>1, IInvInit, PTL DEF Spec

\* Every variable keeps its type, and the counts of entries their order.
THEOREM TypeCorrect == Spec => []TypeOK
<1>1. IInv => TypeOK
  <2> SUFFICES ASSUME IInv PROVE TypeOK
    OBVIOUS
  <2>1. /\ announced \in 0..persisted /\ persisted \in announced..(announced + 1)
        /\ snapshot \in 0..persisted
    BY DEF IInv, Commits
  <2>2. {capturing, hosted, subscribed, backfilled, reading, stale, active, intact, orphaned, stray}
          \subseteq BOOLEAN
    BY DEF IInv, Commits, TurnAndRun, RowAndTurn, Backfilling
  <2>3. turn = NoTurn \/ turn \in TurnState
    BY DEF IInv, TurnAndRun
  <2>4. activity \in [kind : {"none", "thinking", "streaming", "tool", "idle"},
                      text : 0..MaxMessages, queued : BOOLEAN]
    BY DEF IInv, RowAndTurn, Activity, Blank, Shown
  <2>5. rows \subseteq 1..persisted
    BY DEF IInv, Commits
  <2> QED
    BY <2>1, <2>2, <2>3, <2>4, <2>5 DEF IInv, Commits, TypeOK, TurnState, Roles
<1> QED
  BY <1>1, Invariance, PTL

\* However backfill and entries overlap, and however often the backend restarts,
\* no entry falls between what the backfill read and what onEntry was given,
\* unless a call has failed.
THEOREM NothingFallsThrough == Spec => []ProjectionComplete
<1>1. IInv => ProjectionComplete
  BY DEF IInv, Backfilling, ProjectionComplete
<1> QED
  BY <1>1, Invariance, PTL

\* The live bubble is retired with the run, unless an evict cut it off or a
\* prompt was queued when pi was idle, and never shows the text of a message that
\* has its row.
THEOREM BubbleIsHonest == Spec => []BubbleHonest
<1>1. IInv => BubbleHonest
  <2> SUFFICES ASSUME IInv, ~orphaned
               PROVE  /\ phase = "idle" /\ ~stray => activity.kind \in Blank /\ ~activity.queued
                      /\ activity.text \notin rows
    BY DEF BubbleHonest, Blank
  <2>1. (activity.kind \in Blank \/ active) /\ Live(activity.text)
    BY DEF IInv, RowAndTurn
  <2>2. phase = "idle" /\ ~stray => activity.kind \in Blank /\ ~activity.queued
    BY <2>1 DEF IInv, RowAndTurn, TurnAndRun
  <2>3. activity.text \notin rows
    <3>1. activity.text \in Nat
      BY BoundType DEF IInv, RowAndTurn, Activity
    <3> QED
      BY <2>1, <3>1 DEF Live, IInv, Commits
  <2> QED
    BY <2>2, <2>3
<1> QED
  BY <1>1, Invariance, PTL

-----------------------------------------------------------------------------
(* The skills panel *)

Lists == (SUBSET Names) \cup {Unknown}
LoadCall == [kind : {"load"}, at : {"sent", "answered", "refused"}, n : Nat, list : Lists, impact : Lists,
             stale : SUBSET Sessions, current : BOOLEAN]
ToggleCall == [kind : {"toggle"}, at : {"sent", "answered", "refused"}, name : Names, hide : BOOLEAN]
PromptCall == [kind : {"prompt"}, at : {"sent", "answered", "refused"}, wanted : BOOLEAN]
PanelCall == LoadCall \cup ToggleCall \cup PromptCall \cup {Free}

PanelTypes ==
  /\ hidden \subseteq Owned
  /\ baked \in [Sessions -> (SUBSET Owned) \cup {Cold}]
  /\ call \in [Calls -> PanelCall]
  /\ skills \in Lists /\ budget \in Lists
  /\ banner \subseteq Sessions /\ error \in Names \cup {NoError}
  /\ asked \in Nat /\ shown \in 0..asked /\ current \in BOOLEAN

\* A toggle that the server has made, of which the tab does not know yet.
Unaware == \E c \in Calls : call[c].kind = "toggle" /\ call[c].at = "answered"

\* What the newest load has read is so still, unless a toggle came between;
\* that toggle asks for a newer one.
Newest(q) ==
  q.kind = "load" =>
    /\ q.n <= asked
    /\ q.at = "answered" => q.list # Unknown /\ q.impact # Unknown
    /\ q.current /\ q.n = asked /\ ~Unaware =>
         /\ q.list # Unknown => q.list = Dark
         /\ q.impact # Unknown => q.impact = Dark
         /\ q.at = "answered" => q.stale = Stale

LoadsNewest == \A c \in Calls : Newest(call[c])

\* So is what the newest answer has put on display.
DisplayNewest ==
  current /\ shown = asked /\ ~Unaware =>
    skills = Dark /\ budget = Dark /\ banner = Stale

PanelInv == PanelTypes /\ LoadsNewest /\ DisplayNewest

-----------------------------------------------------------------------------
(* Calls *)

LEMMA KindsTell ==
  ASSUME NEW q \in PanelCall
  PROVE  /\ q.kind \in {"free", "load", "toggle", "prompt"}
         /\ q.kind = "load" <=> q \in LoadCall
         /\ q.kind = "toggle" <=> q \in ToggleCall
         /\ q.kind = "prompt" <=> q \in PromptCall
         /\ q.kind = "free" <=> q = Free
BY DEF PanelCall, LoadCall, ToggleCall, PromptCall, Free

LEMMA LoadOutdated ==
  ASSUME NEW q \in LoadCall
  PROVE  LET p == [q EXCEPT !.current = FALSE]
         IN /\ p \in LoadCall /\ p.kind = "load" /\ p.at = q.at /\ p.n = q.n /\ p.list = q.list
            /\ p.impact = q.impact /\ p.stale = q.stale /\ p.current = FALSE
BY DEF LoadCall

LEMMA LoadListed ==
  ASSUME NEW q \in LoadCall, NEW l \in Lists
  PROVE  LET p == [q EXCEPT !.list = l]
         IN /\ p \in LoadCall /\ p.kind = "load" /\ p.at = q.at /\ p.n = q.n /\ p.list = l
            /\ p.impact = q.impact /\ p.stale = q.stale /\ p.current = q.current
BY DEF LoadCall

LEMMA LoadWeighed ==
  ASSUME NEW q \in LoadCall, NEW l \in Lists
  PROVE  LET p == [q EXCEPT !.impact = l]
         IN /\ p \in LoadCall /\ p.kind = "load" /\ p.at = q.at /\ p.n = q.n /\ p.list = q.list
            /\ p.impact = l /\ p.stale = q.stale /\ p.current = q.current
BY DEF LoadCall

LEMMA LoadStale ==
  ASSUME NEW q \in LoadCall, NEW l \in SUBSET Sessions
  PROVE  LET p == [q EXCEPT !.stale = l]
         IN /\ p \in LoadCall /\ p.kind = "load" /\ p.at = q.at /\ p.n = q.n /\ p.list = q.list
            /\ p.impact = q.impact /\ p.stale = l /\ p.current = q.current
BY DEF LoadCall

LEMMA LoadAt ==
  ASSUME NEW q \in LoadCall, NEW at \in {"sent", "answered", "refused"}
  PROVE  LET p == [q EXCEPT !.at = at]
         IN /\ p \in LoadCall /\ p.kind = "load" /\ p.at = at /\ p.n = q.n /\ p.list = q.list
            /\ p.impact = q.impact /\ p.stale = q.stale /\ p.current = q.current
BY DEF LoadCall

LEMMA ToggleAt ==
  ASSUME NEW q \in ToggleCall, NEW at \in {"sent", "answered", "refused"}
  PROVE  LET p == [q EXCEPT !.at = at] IN p \in ToggleCall /\ p.kind = "toggle" /\ p.at = at
BY DEF ToggleCall

LEMMA PromptAt ==
  ASSUME NEW q \in PromptCall, NEW at \in {"sent", "answered", "refused"}
  PROVE  LET p == [q EXCEPT !.at = at] IN p \in PromptCall /\ p.kind = "prompt"
BY DEF PromptCall

LEMMA PromptUnwanted ==
  ASSUME NEW q \in PromptCall
  PROVE  LET p == [q EXCEPT !.wanted = FALSE] IN p \in PromptCall /\ p.kind = "prompt"
BY DEF PromptCall

\* A new load: it has read nothing yet.
LEMMA NewLoad ==
  ASSUME PanelInv, asked' \in Nat
  PROVE  \E q \in PanelCall :
           /\ q = Load /\ q.kind = "load" /\ Newest(q)'
<1>1. PICK n \in Nat : n = asked'
  OBVIOUS
<1> DEFINE q == [kind |-> "load", at |-> "sent", n |-> n, list |-> Unknown,
                 impact |-> Unknown, stale |-> {}, current |-> TRUE]
<1>2. q = Load
  BY <1>1 DEF Load
<1>4. Unknown \in Lists
  BY DEF Lists
<1> HIDE DEF Lists
<1>5. /\ q \in LoadCall /\ q.kind = "load" /\ q.at = "sent" /\ q.n = n
      /\ q.list = Unknown /\ q.impact = Unknown
  BY <1>4 DEF LoadCall
<1> HIDE DEF q
<1>3. Newest(q)'
  BY <1>1, <1>5 DEF Newest
<1> QED
  BY <1>2, <1>3, <1>5 DEF PanelCall

-----------------------------------------------------------------------------
(* The steps of the panel *)

\* One call moves.  If the tab becomes aware of a toggle, it asks again.
LEMMA PanelMoves ==
  ASSUME PanelInv, NEW c \in Calls, NEW q \in PanelCall, call' = [call EXCEPT ![c] = q],
         UNCHANGED <<hidden, baked>>, asked' \in Nat,
         \/ asked' > asked
         \/ asked' = asked /\ ~(call[c].kind = "toggle" /\ call[c].at = "answered"),
         Newest(q)',
         skills' \in Lists, budget' \in Lists, banner' \subseteq Sessions,
         error' \in Names \cup {NoError}, shown' \in 0..asked', current' \in BOOLEAN,
         \/ UNCHANGED <<skills, budget, banner, shown, current>>
         \/ DisplayNewest'
  PROVE  PanelInv'
<1>1. call' \in [Calls -> PanelCall] /\ call'[c] = q /\ \A d \in Calls \ {c} : call'[d] = call[d]
  BY DEF PanelInv, PanelTypes
<1>2. asked \in Nat /\ shown \in 0..asked
  BY DEF PanelInv, PanelTypes
<1>3. asked' = asked /\ ~Unaware' => ~Unaware
  BY <1>1, <1>2 DEF Unaware
<1>4. Dark' = Dark /\ Stale' = Stale
  BY DEF Dark, Stale
<1>5. ASSUME NEW p, Newest(p), p.kind = "load" => p.n \in Nat PROVE Newest(p)'
  BY <1>2, <1>3, <1>4, <1>5 DEF Newest
<1>6. ASSUME NEW d \in Calls, d # c PROVE \E p : call'[d] = p /\ Newest(p)'
  <2>1. PICK p \in PanelCall : call[d] = p /\ Newest(p)
    BY DEF PanelInv, PanelTypes, LoadsNewest
  <2>2. p.kind = "load" => p.n \in Nat
    BY KindsTell DEF LoadCall
  <2> QED
    BY <1>1, <1>5, <1>6, <2>1, <2>2
<1>7. LoadsNewest'
  BY <1>1, <1>6 DEF LoadsNewest
<1>8. DisplayNewest'
  <2>1. CASE UNCHANGED <<skills, budget, banner, shown, current>>
    BY <1>2, <1>3, <1>4, <2>1 DEF PanelInv, DisplayNewest
  <2> QED
    BY <2>1
<1>9. PanelTypes'
  BY <1>1 DEF PanelInv, PanelTypes
<1> QED
  BY <1>7, <1>8, <1>9 DEF PanelInv

\* Something has changed that no load takes into account: none counts as current.
LEMMA PanelOutdated ==
  ASSUME PanelInv, UNCHANGED <<skills, budget, banner, error, asked, shown>>, current' = FALSE,
         hidden' \subseteq Owned, baked' \in [Sessions -> (SUBSET Owned) \cup {Cold}],
         call' = [d \in Calls |-> call'[d]],
         \A d \in Calls :
           \/ call'[d] = Free
           \/ call[d].kind = "load" /\ call'[d] = [call[d] EXCEPT !.current = FALSE]
           \/ call[d].kind # "load" /\ call'[d] = call[d]
  PROVE  PanelInv'
<1>1. ASSUME NEW d \in Calls PROVE \E p \in PanelCall : call'[d] = p /\ Newest(p)'
  <2>1. PICK p \in PanelCall : call[d] = p /\ Newest(p)
    BY DEF PanelInv, PanelTypes, LoadsNewest
  <2>2. CASE call'[d] = Free
    BY <2>2 DEF Newest, Free, PanelCall
  <2>3. CASE p.kind = "load" /\ call'[d] = [p EXCEPT !.current = FALSE]
    <3> DEFINE r == [p EXCEPT !.current = FALSE]
    <3>1. call'[d] = r
      BY <2>1, <2>3
    <3>2. /\ r \in LoadCall /\ r.kind = "load" /\ r.at = p.at /\ r.n = p.n /\ r.list = p.list
          /\ r.impact = p.impact /\ r.current = FALSE
      BY <2>3, LoadOutdated, KindsTell
    <3> HIDE DEF r
    <3>3. Newest(r)'
      BY <2>1, <2>3, <3>2 DEF Newest
    <3> QED
      BY <3>1, <3>2, <3>3 DEF PanelCall
  <2>4. CASE p.kind # "load" /\ call'[d] = p
    BY <2>1, <2>4 DEF Newest
  <2> QED
    BY <2>1, <2>2, <2>3, <2>4
<1>2. call' \in [Calls -> PanelCall] /\ LoadsNewest'
  BY <1>1 DEF LoadsNewest
<1>3. PanelTypes'
  BY <1>2 DEF PanelInv, PanelTypes
<1> QED
  BY <1>2, <1>3 DEF PanelInv, DisplayNewest

\* Nothing that the display is about has changed, nor any load or toggle.
LEMMA PanelIdles ==
  ASSUME PanelInv, UNCHANGED <<hidden, skills, budget, banner, error, asked, shown, current>>,
         baked' \in [Sessions -> (SUBSET Owned) \cup {Cold}], Stale' = Stale,
         \A d \in Calls : \/ call'[d] = call[d]
                          \/ call[d].kind = "prompt" /\ call'[d] \in PromptCall \cup {Free},
         DOMAIN call' = Calls, call' = [d \in Calls |-> call'[d]]
  PROVE  PanelInv'
<1>1. Dark' = Dark
  BY DEF Dark
<1>2. ASSUME NEW d \in Calls
      PROVE  /\ call'[d] \in PanelCall
             /\ call'[d].kind \in {"load", "toggle"} \/ call[d].kind \in {"load", "toggle"} =>
                  call'[d] = call[d]
  BY DEF PanelInv, PanelTypes, PanelCall, PromptCall, Free
<1>3. Unaware' <=> Unaware
  BY <1>2 DEF Unaware
<1>4. ASSUME NEW d \in Calls PROVE \E p : call'[d] = p /\ Newest(p)'
  <2>1. PICK p : p = call'[d]
    OBVIOUS
  <2>2. CASE p.kind = "load"
    <3>1. call[d] = p /\ Newest(p)
      BY <1>2, <2>1, <2>2 DEF PanelInv, LoadsNewest
    <3> QED
      BY <1>1, <1>3, <2>1, <3>1 DEF Newest
  <2>3. CASE p.kind # "load"
    BY <2>1, <2>3 DEF Newest
  <2> QED
    BY <2>2, <2>3
<1>5. LoadsNewest'
  BY <1>4 DEF LoadsNewest
<1>6. DisplayNewest'
  BY <1>1, <1>3 DEF PanelInv, DisplayNewest
<1>7. PanelTypes'
  BY <1>2 DEF PanelInv, PanelTypes
<1> QED
  BY <1>5, <1>6, <1>7 DEF PanelInv

LEMMA Others ==
  ASSUME PanelInv,
         \/ \E n \in Owned : ToggleElsewhere(n)
         \/ \E s \in Sessions : Build(s) \/ Chill(s)
  PROVE  PanelInv'
<1>1. baked \in [Sessions -> (SUBSET Owned) \cup {Cold}] /\ hidden \subseteq Owned
      /\ call \in [Calls -> PanelCall]
  BY DEF PanelInv, PanelTypes
<1>2. ASSUME Outdated, UNCHANGED <<skills, budget, banner, error, asked, shown>>,
             hidden' \subseteq Owned, baked' \in [Sessions -> (SUBSET Owned) \cup {Cold}]
      PROVE  PanelInv'
  <2>1. /\ current' = FALSE /\ call' = [d \in Calls |-> call'[d]]
        /\ \A d \in Calls :
             \/ call[d].kind = "load" /\ call'[d] = [call[d] EXCEPT !.current = FALSE]
             \/ call[d].kind # "load" /\ call'[d] = call[d]
    BY <1>2 DEF Outdated
  <2> QED
    BY <1>2, <2>1, PanelOutdated
<1>3. ASSUME UNCHANGED <<hidden, call, skills, budget, banner, error, asked, shown, current>>,
             baked' \in [Sessions -> (SUBSET Owned) \cup {Cold}], Stale' = Stale
      PROVE  PanelInv'
  BY <1>1, <1>3, PanelIdles
<1>4. ASSUME NEW n \in Owned, ToggleElsewhere(n) PROVE PanelInv'
  BY <1>1, <1>2, <1>4 DEF ToggleElsewhere, client
<1>5. ASSUME NEW s \in Sessions, Build(s) PROVE PanelInv'
  <2>1. /\ baked[s] = Cold /\ baked' = [baked EXCEPT ![s] = hidden]
        /\ UNCHANGED <<hidden, call, skills, budget, banner, error, asked, shown, current>>
    BY <1>5 DEF Build, client, history
  <2>2. Stale' = Stale
    BY <1>1, <2>1 DEF Stale
  <2> QED
    BY <1>1, <1>3, <2>1, <2>2
<1>6. ASSUME NEW s \in Sessions, Chill(s) PROVE PanelInv'
  <2>1. /\ baked' = [baked EXCEPT ![s] = Cold]
        /\ UNCHANGED <<hidden, skills, budget, banner, error, asked, shown>>
    BY <1>6 DEF Chill, client
  <2>2. CASE s \in Stale
    BY <1>1, <1>2, <1>6, <2>1, <2>2 DEF Chill
  <2>3. CASE s \notin Stale
    <3>1. UNCHANGED <<call, current>>
      BY <1>6, <2>3 DEF Chill
    <3>2. Stale' = Stale
      BY <1>1, <2>1, <2>3 DEF Stale
    <3> QED
      BY <1>1, <1>3, <2>1, <3>1, <3>2
  <2> QED
    BY <2>2, <2>3
<1> QED
  BY <1>4, <1>5, <1>6

\* What most steps leave alone.
LEMMA PanelFacts ==
  ASSUME PanelInv
  PROVE  /\ call \in [Calls -> PanelCall] /\ skills \in Lists /\ budget \in Lists
         /\ banner \subseteq Sessions /\ error \in Names \cup {NoError}
         /\ asked \in Nat /\ shown \in 0..asked /\ current \in BOOLEAN
         /\ hidden \subseteq Owned /\ baked \in [Sessions -> (SUBSET Owned) \cup {Cold}]
         /\ Dark \in Lists /\ Stale \in SUBSET Sessions
<1>1. Dark \in Lists /\ Stale \in SUBSET Sessions
  BY DEF PanelInv, PanelTypes, Lists, Dark, Stale, Names
<1> QED
  BY <1>1 DEF PanelInv, PanelTypes

LEMMA PanelAsks ==
  ASSUME PanelInv, NEW c \in Calls,
         \/ OpenPanel(c) \/ TogglePrompt(c)
         \/ \E n \in Names : Toggle(c, n)
  PROVE  PanelInv'
<1>1. CASE OpenPanel(c)
  <2>1. asked' = asked + 1 /\ asked' \in Nat /\ asked' > asked
    BY <1>1, PanelFacts DEF OpenPanel
  <2>2. PICK q \in PanelCall : q = Load /\ Newest(q)'
    BY <2>1, NewLoad
  <2>3. call' = [call EXCEPT ![c] = q] /\ shown \in 0..asked'
        /\ UNCHANGED <<hidden, baked, skills, budget, banner, error, shown, current>>
    BY <1>1, <2>1, <2>2, PanelFacts DEF OpenPanel, server, client
  <2> QED
    BY <2>1, <2>2, <2>3, PanelFacts, PanelMoves
<1>2. CASE TogglePrompt(c)
  <2>1. UNCHANGED <<hidden, baked, skills, budget, banner, error, asked, shown, current>>
    BY <1>2 DEF TogglePrompt, server, client, history
  <2>2. Stale' = Stale
    BY <2>1 DEF Stale
  <2>3. CASE call' = [d \in Calls |-> IF call[d].kind = "prompt"
                                       THEN [call[d] EXCEPT !.wanted = FALSE] ELSE call[d]]
    <3>1. ASSUME NEW d \in Calls, call[d].kind = "prompt" PROVE call'[d] \in PromptCall
      BY <2>3, <3>1, PanelFacts, KindsTell, PromptUnwanted
    <3> QED
      BY <2>1, <2>2, <2>3, <3>1, PanelFacts, PanelIdles
  <2>4. CASE /\ call[c] = Free
             /\ call' = [call EXCEPT ![c] = [kind |-> "prompt", at |-> "sent", wanted |-> TRUE]]
    <3> DEFINE q == [kind |-> "prompt", at |-> "sent", wanted |-> TRUE]
    <3>1. q \in PromptCall /\ q.kind = "prompt"
      BY DEF PromptCall
    <3>2. call' = [call EXCEPT ![c] = q] /\ call[c].kind = "free"
      BY <2>4 DEF Free
    <3> HIDE DEF q
    <3>3. Newest(q)'
      BY <3>1 DEF Newest
    <3> QED
      BY <2>1, <3>1, <3>2, <3>3, PanelFacts, PanelMoves DEF PanelCall
  <2> QED
    BY <1>2, <2>3, <2>4 DEF TogglePrompt
<1>3. ASSUME NEW n \in Names, Toggle(c, n) PROVE PanelInv'
  <2>1. UNCHANGED <<hidden, baked, skills, budget, banner, error, asked, shown, current>>
    BY <1>3 DEF Toggle, server, client, history
  <2>2. PICK b \in BOOLEAN : b = (n \notin skills)
    OBVIOUS
  <2> DEFINE q == [kind |-> "toggle", at |-> "sent", name |-> n, hide |-> b]
  <2>3. q \in ToggleCall /\ q.kind = "toggle"
    BY DEF ToggleCall
  <2>4. call' = [call EXCEPT ![c] = q] /\ call[c].kind = "free"
    BY <1>3, <2>2 DEF Toggle, Free
  <2> HIDE DEF q
  <2>5. Newest(q)'
    BY <2>3 DEF Newest
  <2> QED
    BY <2>1, <2>3, <2>4, <2>5, PanelFacts, PanelMoves DEF PanelCall
<1> QED
  BY <1>1, <1>2, <1>3

\* The panel is closed: its prompts are for nobody.
LEMMA PanelCloses == ASSUME PanelInv, ClosePanel PROVE PanelInv'
<1>1. /\ UNCHANGED <<hidden, baked, skills, budget, banner, error, asked, shown, current>>
      /\ call' = [c \in Calls |-> IF call[c].kind = "prompt" THEN Free ELSE call[c]]
  BY DEF ClosePanel, server, client, history
<1>2. Stale' = Stale
  BY <1>1 DEF Stale
<1> QED
  BY <1>1, <1>2, PanelFacts, PanelIdles

\* The server's part of the calls.
LEMMA PanelServed ==
  ASSUME PanelInv, NEW c \in Calls,
         \/ ListRead(c) \/ ImpactRead(c) \/ Answered(c)
         \/ PreviewSystemPrompt(c) \/ Refuse(c)
  PROVE  PanelInv'
<1>1. /\ UNCHANGED <<hidden, baked, skills, budget, banner, error, asked, shown, current>>
      /\ call[c].at = "sent"
  BY DEF ListRead, ImpactRead, Answered, PreviewSystemPrompt, Refuse,
         Sent, server, client, history
<1>2. PICK q \in PanelCall : call[c] = q /\ Newest(q)
  BY PanelFacts DEF PanelInv, LoadsNewest
<1>3. Dark' = Dark /\ Stale' = Stale
  BY <1>1 DEF Dark, Stale
<1>4. PICK l \in Lists, t \in SUBSET Sessions : l = Dark /\ t = Stale
  BY PanelFacts
<1>5. ASSUME NEW p \in PanelCall, call' = [call EXCEPT ![c] = p], Newest(p)' PROVE PanelInv'
  BY <1>1, <1>5, PanelFacts, PanelMoves
<1>6. ASSUME NEW p, call' = [call EXCEPT ![c] = p],
             ~(p.kind = "toggle" /\ p.at = "answered") PROVE Unaware' <=> Unaware
  <2>1. call'[c] = p /\ \A d \in Calls \ {c} : call'[d] = call[d]
    BY <1>6, PanelFacts
  <2> QED
    BY <1>1, <1>6, <2>1 DEF Unaware
<1>7. CASE ListRead(c)
  <2>1. q \in LoadCall /\ q.at = "sent"
    BY <1>1, <1>2, <1>7, KindsTell DEF ListRead, Sent
  <2> DEFINE p == [q EXCEPT !.list = l]
  <2>2. call' = [call EXCEPT ![c] = p]
    BY <1>2, <1>4, <1>7, PanelFacts DEF ListRead
  <2>3. /\ p \in LoadCall /\ p.kind = "load" /\ p.at = q.at /\ p.n = q.n /\ p.list = l
        /\ p.impact = q.impact /\ p.current = q.current
    BY <2>1, LoadListed
  <2> HIDE DEF p
  <2>4. Unaware' <=> Unaware
    BY <1>6, <2>2, <2>3
  <2>5. q.kind = "load"
    BY <2>1, KindsTell
  <2>6. Newest(p)'
    BY <1>1, <1>2, <1>3, <1>4, <2>1, <2>3, <2>4, <2>5 DEF Newest
  <2> QED
    BY <1>5, <2>2, <2>3, <2>6 DEF PanelCall
<1>8. CASE ImpactRead(c)
  <2>1. q \in LoadCall /\ q.at = "sent"
    BY <1>1, <1>2, <1>8, KindsTell DEF ImpactRead, Sent
  <2> DEFINE p == [q EXCEPT !.impact = l]
  <2>2. call' = [call EXCEPT ![c] = p]
    BY <1>2, <1>4, <1>8, PanelFacts DEF ImpactRead
  <2>3. /\ p \in LoadCall /\ p.kind = "load" /\ p.at = q.at /\ p.n = q.n /\ p.list = q.list
        /\ p.impact = l /\ p.current = q.current
    BY <2>1, LoadWeighed
  <2> HIDE DEF p
  <2>4. Unaware' <=> Unaware
    BY <1>6, <2>2, <2>3
  <2>5. q.kind = "load"
    BY <2>1, KindsTell
  <2>6. Newest(p)'
    BY <1>1, <1>2, <1>3, <1>4, <2>1, <2>3, <2>4, <2>5 DEF Newest
  <2> QED
    BY <1>5, <2>2, <2>3, <2>6 DEF PanelCall
<1>9. CASE Answered(c)
  <2>1. q \in LoadCall /\ q.list # Unknown /\ q.impact # Unknown
    BY <1>1, <1>2, <1>9, KindsTell DEF Answered, Sent
  <2> DEFINE r == [q EXCEPT !.stale = t]
             p == [r EXCEPT !.at = "answered"]
  <2>2. call' = [call EXCEPT ![c] = p]
    BY <1>2, <1>4, <1>9, PanelFacts DEF Answered
  <2>3. /\ r \in LoadCall /\ r.kind = "load" /\ r.n = q.n /\ r.list = q.list
        /\ r.impact = q.impact /\ r.stale = t /\ r.current = q.current
    BY <2>1, LoadStale
  <2> HIDE DEF r
  <2>4. /\ p \in LoadCall /\ p.kind = "load" /\ p.at = "answered" /\ p.n = q.n /\ p.list = q.list
        /\ p.impact = q.impact /\ p.stale = t /\ p.current = q.current
    BY <2>3, LoadAt
  <2> HIDE DEF p
  <2>5. Unaware' <=> Unaware
    BY <1>6, <2>2, <2>4
  <2>6. q.kind = "load"
    BY <2>1, KindsTell
  <2>7. Newest(p)'
    BY <1>1, <1>2, <1>3, <1>4, <2>1, <2>4, <2>5, <2>6 DEF Newest
  <2> QED
    BY <1>5, <2>2, <2>4, <2>7 DEF PanelCall
<1>10. CASE PreviewSystemPrompt(c)
  <2>1. q \in PromptCall
    BY <1>2, <1>10, KindsTell DEF PreviewSystemPrompt, Sent
  <2> DEFINE p == [q EXCEPT !.at = "answered"]
  <2>2. call' = [call EXCEPT ![c] = p]
    BY <1>2, <1>10, PanelFacts DEF PreviewSystemPrompt
  <2>3. p \in PromptCall /\ p.kind = "prompt"
    BY <2>1, PromptAt
  <2> HIDE DEF p
  <2>4. Newest(p)'
    BY <2>3 DEF Newest
  <2> QED
    BY <1>5, <2>2, <2>3, <2>4 DEF PanelCall
<1>11. CASE Refuse(c)
  <2> DEFINE p == [q EXCEPT !.at = "refused"]
  <2>1. call' = [call EXCEPT ![c] = p] /\ q # Free
    BY <1>2, <1>11, PanelFacts DEF Refuse
  <2>2. CASE q \in LoadCall
    <3>1. /\ p \in LoadCall /\ p.kind = "load" /\ p.at = "refused" /\ p.n = q.n /\ p.list = q.list
          /\ p.impact = q.impact /\ p.current = q.current
      BY <2>2, LoadAt
    <3> HIDE DEF p
    <3>2. Unaware' <=> Unaware
      BY <1>6, <2>1, <3>1
    <3>3. q.kind = "load"
      BY <2>2, KindsTell
    <3>4. Newest(p)'
      BY <1>1, <1>2, <1>3, <3>1, <3>2, <3>3 DEF Newest
    <3> QED
      BY <1>5, <2>1, <3>1, <3>4 DEF PanelCall
  <2>3. CASE q \in ToggleCall \cup PromptCall
    <3>1. p \in ToggleCall \cup PromptCall /\ p.kind # "load"
      BY <2>3, ToggleAt, PromptAt
    <3> HIDE DEF p
    <3>2. Newest(p)'
      BY <3>1 DEF Newest
    <3> QED
      BY <1>5, <2>1, <3>1, <3>2 DEF PanelCall
  <2> QED
    BY <2>1, <2>2, <2>3 DEF PanelCall
<1> QED
  BY <1>7, <1>8, <1>9, <1>10, <1>11

\* A toggle is made: until the tab knows, nothing is claimed of its display.
LEMMA Toggled ==
  ASSUME PanelInv, NEW c \in Calls, SetHiddenFromPrompt(c)
  PROVE  PanelInv'
<1>1. /\ UNCHANGED <<baked, skills, budget, banner, error, asked, shown, current>>
      /\ call[c].kind = "toggle" /\ call[c].at = "sent"
  BY DEF SetHiddenFromPrompt, Sent, client, history
<1>2. PICK q \in ToggleCall : call[c] = q
  BY <1>1, PanelFacts, KindsTell
<1>3. CASE q.name \in Owned
  <2> DEFINE p == [q EXCEPT !.at = "answered"]
  <2>1. call' = [call EXCEPT ![c] = p] /\ hidden' \subseteq Owned
    BY <1>2, <1>3, PanelFacts DEF SetHiddenFromPrompt
  <2>2. p \in ToggleCall /\ p.kind = "toggle" /\ p.at = "answered"
    BY ToggleAt
  <2> HIDE DEF p
  <2>3. /\ call' \in [Calls -> PanelCall] /\ call'[c] = p
        /\ \A d \in Calls \ {c} : call'[d] = call[d]
    BY <2>1, <2>2, PanelFacts DEF PanelCall
  <2>4. Unaware'
    BY <2>2, <2>3 DEF Unaware
  <2>5. ASSUME NEW d \in Calls PROVE \E r : call'[d] = r /\ Newest(r)'
    <3>1. PICK r : r = call'[d]
      OBVIOUS
    <3>2. CASE d = c
      BY <2>2, <2>3, <3>1, <3>2 DEF Newest
    <3>3. CASE d # c
      <4>1. call[d] = r /\ Newest(r)
        BY <2>3, <3>1, <3>3 DEF PanelInv, LoadsNewest
      <4>2. Newest(r)'
        BY <1>1, <2>4, <4>1 DEF Newest
      <4> QED
        BY <3>1, <4>2
    <3> QED
      BY <3>2, <3>3
  <2>6. LoadsNewest' /\ DisplayNewest'
    BY <2>4, <2>5 DEF LoadsNewest, DisplayNewest
  <2>7. PanelTypes'
    BY <1>1, <2>1, <2>3 DEF PanelInv, PanelTypes
  <2> QED
    BY <2>6, <2>7 DEF PanelInv
<1>4. CASE q.name \notin Owned
  <2> DEFINE p == [q EXCEPT !.at = "refused"]
  <2>1. call' = [call EXCEPT ![c] = p] /\ hidden' = hidden
    BY <1>2, <1>4, PanelFacts DEF SetHiddenFromPrompt
  <2>2. p \in ToggleCall /\ p.kind = "toggle"
    BY ToggleAt
  <2> HIDE DEF p
  <2>3. Newest(p)'
    BY <2>2 DEF Newest
  <2> QED
    BY <1>1, <2>1, <2>2, <2>3, PanelFacts, PanelMoves DEF PanelCall
<1> QED
  BY <1>3, <1>4

\* The answers.
LEMMA PanelLands ==
  ASSUME PanelInv, NEW c \in Calls,
         SkillsLand(c) \/ ToggleLands(c) \/ PromptLands(c)
  PROVE  PanelInv'
<1>1. UNCHANGED <<hidden, baked>>
  BY DEF SkillsLand, ToggleLands, PromptLands, server
<1>2. PICK q \in PanelCall : call[c] = q /\ Newest(q)
  BY PanelFacts DEF PanelInv, LoadsNewest
<1>3. Dark' = Dark /\ Stale' = Stale
  BY <1>1 DEF Dark, Stale
<1>4. Free \in PanelCall /\ Newest(Free)'
  BY DEF PanelCall, Newest, Free
<1>5. CASE SkillsLand(c)
  <2>1. /\ call' = [call EXCEPT ![c] = Free] /\ UNCHANGED <<error, asked>>
        /\ q.kind = "load"
    BY <1>2, <1>5 DEF SkillsLand, Done, Landed
  <2>2. q \in LoadCall
    BY <2>1, KindsTell
  <2>3. CASE /\ q.at = "answered" /\ skills' = q.list /\ budget' = q.impact /\ banner' = q.stale
             /\ shown' = q.n /\ current' = q.current
    <3>1. /\ q.list \in Lists /\ q.impact \in Lists /\ q.stale \in SUBSET Sessions
          /\ q.n \in Nat /\ q.current \in BOOLEAN
      BY <2>2 DEF LoadCall
    <3>2. q.n \in 0..asked
      BY <1>2, <2>1, <3>1, PanelFacts DEF Newest
    <3>3. Unaware' <=> Unaware
      <4>1. call'[c] = Free /\ \A d \in Calls \ {c} : call'[d] = call[d]
        BY <2>1, PanelFacts
      <4> QED
        BY <1>2, <2>1, <4>1 DEF Unaware, Free
    <3>4. DisplayNewest'
      BY <1>2, <1>3, <2>1, <2>3, <3>3 DEF DisplayNewest, Newest
    <3> QED
      BY <1>1, <1>2, <1>4, <2>1, <2>3, <3>1, <3>2, <3>4, PanelFacts, PanelMoves
  <2>4. CASE current' = FALSE /\ UNCHANGED <<skills, budget, banner, shown>>
    <3>1. DisplayNewest'
      BY <2>4 DEF DisplayNewest
    <3> QED
      BY <1>1, <1>2, <1>4, <2>1, <2>4, <3>1, PanelFacts, PanelMoves
  <2> QED
    BY <1>2, <1>5, <2>3, <2>4 DEF SkillsLand, Landed
<1>6. CASE ToggleLands(c)
  <2>1. UNCHANGED <<skills, budget, banner, shown, current>> /\ q.kind = "toggle"
    BY <1>2, <1>6 DEF ToggleLands, Landed
  <2>2. q.name \in Names
    BY <2>1, KindsTell DEF ToggleCall
  <2>3. CASE /\ error' = NoError /\ asked' = asked + 1
             /\ call' = [call EXCEPT ![c] = Load]
    <3>1. asked' \in Nat /\ asked' > asked /\ shown' \in 0..asked'
      BY <2>1, <2>3, PanelFacts
    <3>2. PICK p \in PanelCall : p = Load /\ Newest(p)'
      BY <3>1, NewLoad
    <3> QED
      BY <1>1, <2>1, <2>3, <3>1, <3>2, PanelFacts, PanelMoves
  <2>4. CASE /\ q.at = "refused" /\ error' = q.name /\ UNCHANGED asked
             /\ call' = [call EXCEPT ![c] = Free]
    BY <1>1, <1>2, <1>4, <2>1, <2>2, <2>4, PanelFacts, PanelMoves
  <2> QED
    BY <1>2, <1>6, <2>3, <2>4 DEF ToggleLands, Landed, Done
<1>7. CASE PromptLands(c)
  <2>1. /\ call' = [call EXCEPT ![c] = Free] /\ q.kind = "prompt"
        /\ UNCHANGED <<skills, budget, banner, error, asked, shown, current>>
    BY <1>2, <1>7 DEF PromptLands, Done, client, history
  <2> QED
    BY <1>1, <1>2, <1>4, <2>1, PanelFacts, PanelMoves
<1> QED
  BY <1>5, <1>6, <1>7

LEMMA PanelCallLost == ASSUME PanelInv, NEW c \in Calls, CallLost(c) PROVE PanelInv'
<1>1. /\ UNCHANGED <<hidden, baked, skills, budget, banner, error, asked, shown>> /\ current' = FALSE
      /\ call' = [d \in Calls |-> call'[d]]
      /\ \A d \in Calls :
           \/ call'[d] = Free
           \/ call[d].kind = "load" /\ call'[d] = [call[d] EXCEPT !.current = FALSE]
           \/ call[d].kind # "load" /\ call'[d] = call[d]
  BY DEF CallLost, server, client
<1> QED
  BY <1>1, PanelFacts, PanelOutdated

\* The panel's invariant holds in every reachable state.
THEOREM PanelInductive == PanelSpec => []PanelInv
<1>1. PanelInit => PanelInv
  <2> SUFFICES ASSUME PanelInit PROVE PanelInv
    OBVIOUS
  <2>1. Unknown \in Lists
    BY DEF Lists
  <2>2. Free \in PanelCall /\ Free.kind = "free"
    BY DEF PanelCall, Free
  <2>3. PanelTypes
    <3>1. baked \in [Sessions -> (SUBSET Owned) \cup {Cold}]
      BY DEF PanelInit
    <3>2. call \in [Calls -> PanelCall]
      BY <2>2 DEF PanelInit
    <3>3. skills \in Lists /\ budget \in Lists
      BY <2>1 DEF PanelInit
    <3>4. /\ hidden \subseteq Owned /\ banner \subseteq Sessions
          /\ error \in Names \cup {NoError} /\ current \in BOOLEAN
      BY DEF PanelInit
    <3>5. asked \in Nat /\ shown \in 0..asked
      BY DEF PanelInit
    <3> QED
      BY <3>1, <3>2, <3>3, <3>4, <3>5 DEF PanelTypes
  <2>4. LoadsNewest
    BY <2>2 DEF PanelInit, LoadsNewest, Newest
  <2>5. DisplayNewest
    BY DEF PanelInit, DisplayNewest
  <2> QED
    BY <2>3, <2>4, <2>5 DEF PanelInv
<1>2. PanelInv /\ [PanelNext]_(panelVars) => PanelInv'
  <2> SUFFICES ASSUME PanelInv, [PanelNext]_(panelVars) PROVE PanelInv'
    OBVIOUS
  <2>1. CASE UNCHANGED panelVars
    <3>1. UNCHANGED <<hidden, baked, call, skills, budget, banner, error, asked, shown, current>>
      BY <2>1 DEF panelVars
    <3>2. Stale' = Stale
      BY <3>1 DEF Stale
    <3> QED
      BY <3>1, <3>2, PanelFacts, PanelIdles
  <2>2. ASSUME NEW c \in Calls,
               \/ OpenPanel(c) \/ TogglePrompt(c)
               \/ \E n \in Names : Toggle(c, n)
        PROVE  PanelInv'
    BY <2>2, PanelAsks
  <2>3. ASSUME NEW c \in Calls,
               \/ ListRead(c) \/ ImpactRead(c) \/ Answered(c)
               \/ PreviewSystemPrompt(c) \/ Refuse(c)
        PROVE  PanelInv'
    BY <2>3, PanelServed
  <2>4. ASSUME NEW c \in Calls, SetHiddenFromPrompt(c) PROVE PanelInv'
    BY <2>4, Toggled
  <2>5. ASSUME NEW c \in Calls, SkillsLand(c) \/ ToggleLands(c) \/ PromptLands(c)
        PROVE  PanelInv'
    BY <2>5, PanelLands
  <2>6. ASSUME NEW c \in Calls, CallLost(c) PROVE PanelInv'
    BY <2>6, PanelCallLost
  <2> QED
    BY <2>1, <2>2, <2>3, <2>4, <2>5, <2>6, Others, PanelCloses DEF PanelNext
<1> QED
  BY <1>1, <1>2, PTL DEF PanelSpec

\* The panel's type invariant, for any skills, sessions and calls.
THEOREM PanelTypeCorrect == PanelSpec => []PanelTypeOK
<1>1. PanelInv => PanelTypeOK
  <2> SUFFICES ASSUME PanelInv PROVE PanelTypeOK
    OBVIOUS
  <2>1. ASSUME NEW c \in Calls PROVE call[c].kind \in {"free", "load", "toggle", "prompt"}
    BY DEF PanelInv, PanelTypes, PanelCall, LoadCall, ToggleCall, PromptCall, Free
  <2> QED
    BY <2>1 DEF PanelInv, PanelTypes, Lists, PanelTypeOK
<1> QED
  BY <1>1, PanelInductive, PTL

\* The panel agrees with the server once its calls are answered, for any
\* number of calls, clicks, changes by others and faults.
THEOREM PanelsAgree == PanelSpec => []PanelAgrees
<1>1. PanelInv => PanelAgrees
  <2> SUFFICES ASSUME PanelInv, Quiet, current, shown = asked
               PROVE  skills = Dark /\ budget = Dark /\ banner = Stale
    BY DEF PanelAgrees
  <2>1. ~Unaware
    BY DEF Unaware, Quiet
  <2> QED
    BY <2>1 DEF PanelInv, DisplayNewest
<1> QED
  BY <1>1, PanelInductive, PTL
=============================================================================
