------------------------ MODULE SessionRuntimeProofs ------------------------
(***************************************************************************)
(* What a session's transcript keeps in the store, for any number of       *)
(* actors, messages, clock values, refused writes and crashes: no gap, the *)
(* order of pi, the chain of parents and timestamps, nothing announced     *)
(* that is not stored, and a dispose that waits for what had ended.        *)
(*                                                                         *)
(* The argument follows High, how far the store is known to mirror the     *)
(* transcript: #persistedCount between captures, the loop's counter during *)
(* one.  A refused write throws High back, not the rows, which is why only *)
(* NoGap survives it.                                                      *)
(***************************************************************************)
EXTENDS SessionRuntime, SequenceTheorems, TLAPS

High == IF stage = "idle" THEN persistedCount ELSE IF stage = "head" THEN at - 1 ELSE at

StoredRow == [parent : Nat, uid : 1..MaxMessages, role : {"user", "assistant"},
              by : Actors \cup {NoActor}, ts : Nat, life : Nat, actor : Actors \cup {NoActor}]

Typed ==
  /\ TypeOK
  /\ rows \in Seq(StoredRow) /\ published \in Seq(Nat)
  /\ said \in 0..MaxMessages /\ failures \in Nat /\ crashes \in Nat
  /\ at \in Nat /\ due \in Nat /\ promised \in Nat
  /\ persistedCount <= High /\ High <= Len(messages)

\* A message not yet captured is unlike all others; rows hold what was said.
Fresh ==
  /\ \A i \in DOMAIN messages : messages[i].uid <= said
  /\ \A i \in DOMAIN rows : rows[i].uid <= said /\ rows[i].life <= crashes
  /\ \A i, j \in DOMAIN messages :
       j > persistedCount /\ messages[i].uid = messages[j].uid => i = j

PrefixStored == \A j \in DOMAIN messages : j <= High => messages[j].uid \in Uids(rows)

Mirrored ==
  failures = 0 => Len(rows) = High /\ \A i \in DOMAIN rows : rows[i].uid = messages[i].uid

\* The row that the next one of this runtime follows.
Last == IF Len(rows) > 0 /\ rows[Len(rows)].life = crashes THEN Len(rows) ELSE 0

Linked ==
  /\ stage \in {"idle", "head"} => lastEntryId = Last
  /\ stage \in {"saving", "sinking"} => Last # 0
  /\ Last # 0 => rows[Last].ts <= lastTs

Announced == stage = "saving" => \A k \in DOMAIN published : published[k] < Len(rows)

\* What dispose has promised is captured once it has nothing to wait for.
Kept ==
  /\ due <= Len(messages) /\ promised <= Len(messages)
  /\ life = "disposed" => waitFor = 0
  /\ failures = 0 /\ links = 0 => due <= persistedCount
  /\ failures = 0 /\ life # "live" /\ waitFor = 0 => promised <= persistedCount

IInv ==
  /\ Typed /\ Fresh /\ PrefixStored /\ NoGap /\ Mirrored
  /\ RowsChained /\ Linked /\ PublishedDurable /\ Announced /\ Kept

-----------------------------------------------------------------------------
LEMMA Lengths ==
  ASSUME Typed
  PROVE  /\ DOMAIN messages = 1 .. Len(messages) /\ Len(messages) \in Nat
         /\ DOMAIN rows = 1 .. Len(rows) /\ Len(rows) \in Nat
         /\ DOMAIN published = 1 .. Len(published) /\ Len(published) \in Nat
         /\ High \in Nat /\ persistedCount \in Nat
         /\ \A i \in DOMAIN rows : rows[i] \in StoredRow
         /\ \A i \in DOMAIN messages : messages[i] \in Message
         /\ \A k \in DOMAIN published : published[k] \in Nat
<1>1. /\ messages \in Seq(Message) /\ rows \in Seq(StoredRow) /\ published \in Seq(Nat)
      /\ persistedCount \in 0..Len(messages)
      /\ at \in Nat
      /\ stage # "idle" => at \in 1..(Len(messages) + 1)
  BY DEF Typed, TypeOK
<1>2. /\ DOMAIN messages = 1 .. Len(messages) /\ Len(messages) \in Nat
      /\ DOMAIN rows = 1 .. Len(rows) /\ Len(rows) \in Nat
      /\ DOMAIN published = 1 .. Len(published) /\ Len(published) \in Nat
  BY <1>1
<1>3. persistedCount \in Nat
  BY <1>1, <1>2
<1>4. stage # "idle" => at \in Nat /\ at >= 1
  BY <1>1, <1>2
<1>5. High \in Nat
  <2>1. CASE stage = "idle"
    BY <1>3, <2>1 DEF High
  <2>2. CASE stage # "idle"
    <3>1. at \in Nat /\ at - 1 \in Nat
      BY <1>4, <2>2
    <3> QED
      BY <2>2, <3>1 DEF High
  <2> QED
    BY <2>1, <2>2
<1> QED
  BY <1>1, <1>2, <1>3, <1>5, ElementOfSeq

-----------------------------------------------------------------------------
(* The driver and the commands *)

\* A message joins the transcript, and perhaps a capture is scheduled.
LEMMA SayKeeps ==
  ASSUME IInv, NEW role \in {"user", "assistant"}, NEW actor \in Actors \cup {NoActor},
         Say(role, actor), UNCHANGED <<capture, store, disposal, stage, at>>,
         \/ UNCHANGED <<links, due>>
         \/ links' = links + 1 /\ due' = Len(messages'),
         streaming' \in BOOLEAN, waiting' \in Seq(Actors), lastActor' \in Actors \cup {NoActor}
  PROVE  IInv'
<1> DEFINE n == Len(messages) + 1
<1>1. /\ Typed /\ TypeOK /\ said \in 0..MaxMessages /\ said < MaxMessages /\ said' = said + 1
      /\ UNCHANGED <<failures, crashes, persistedCount, lastEntryId, lastTs, rows, published,
                     life, waitFor, promised, stage, at>>
      /\ MaxMessages \in Nat
  BY RuntimeAssumption DEF IInv, Typed, Say, capture, store, disposal
<1>2. PICK m \in Message : messages' = Append(messages, m) /\ m.uid = said + 1
  BY <1>1 DEF Say, Message
<1>3. /\ messages' \in Seq(Message) /\ Len(messages') = n /\ DOMAIN messages' = 1 .. n
      /\ \A i \in DOMAIN messages : messages'[i] = messages[i]
      /\ messages'[n] = m
      /\ DOMAIN messages = 1 .. Len(messages) /\ Len(messages) \in Nat
  BY <1>1, <1>2, Lengths DEF TypeOK
<1>4. High' = High /\ High \in Nat /\ persistedCount \in Nat /\ High <= Len(messages)
  BY <1>1, Lengths DEF High, Typed
<1>5. Typed'
  <2>1. /\ persistedCount \in 0..Len(messages) /\ (stage # "idle" => at \in 1..(Len(messages) + 1))
        /\ links \in Nat /\ waitFor \in 0..links /\ (stage # "idle" => links > 0)
    BY <1>1 DEF TypeOK
  <2>2. links' \in Nat /\ waitFor \in 0..links' /\ (stage # "idle" => links' > 0)
    BY <2>1
  <2>3. due' \in Nat
    BY <1>1, <1>3 DEF Typed
  <2>4. TypeOK'
    BY <1>1, <1>3, <2>1, <2>2 DEF TypeOK
  <2> QED
    BY <1>1, <1>3, <1>4, <2>3, <2>4 DEF Typed
<1>6. Fresh'
  BY <1>1, <1>2, <1>3, <1>4, Lengths DEF IInv, Fresh, StoredRow, Message
<1>7. PrefixStored'
  BY <1>1, <1>3, <1>4 DEF IInv, PrefixStored, Uids
<1>8. NoGap'
  <2>1. m.uid \notin Uids(rows)
    BY <1>1, <1>2, Lengths DEF IInv, Fresh, Uids, StoredRow
  <2>2. Uids(rows)' = Uids(rows)
    BY <1>1 DEF Uids
  <2> SUFFICES ASSUME NEW i \in DOMAIN messages', messages'[i].uid \in Uids(rows), NEW j \in 1..i
               PROVE  messages'[j].uid \in Uids(rows)
    BY <2>2 DEF NoGap
  <2>3. i \in DOMAIN messages /\ j \in DOMAIN messages
    BY <1>3, <2>1
  <2> QED
    BY <1>3, <2>3 DEF IInv, NoGap
<1>9. Mirrored'
  BY <1>1, <1>3, <1>4, Lengths DEF IInv, Mirrored
<1>10. RowsChained' /\ Linked' /\ PublishedDurable' /\ Announced'
  BY <1>1 DEF IInv, RowsChained, Linked, Last, PublishedDurable, Announced
<1>11. Kept'
  <2>1. due' \in {due, Len(messages')} /\ links \in Nat /\ (due' # due => links' = links + 1)
    BY <1>1 DEF TypeOK
  <2> QED
    BY <1>1, <1>3, <2>1 DEF IInv, Kept, Typed
<1> QED
  BY <1>5, <1>6, <1>7, <1>8, <1>9, <1>10, <1>11 DEF IInv

\* A step that says and stores nothing: the capture goes on, or is abandoned.
LEMMA QuietKeeps ==
  ASSUME IInv, UNCHANGED <<messages, said, crashes, rows>>,
         \/ failures' = failures /\ High' = High
         \/ failures' = failures + 1 /\ High' <= High,
         High' \in Nat, persistedCount <= persistedCount', persistedCount' <= High',
         published' \in Seq(Nat), at' \in Nat, due' \in Nat, promised' \in Nat,
         TypeOK', Linked', PublishedDurable', Announced', Kept'
  PROVE  IInv'
<1>1. /\ Typed /\ failures \in Nat /\ High <= Len(messages)
      /\ DOMAIN messages = 1 .. Len(messages) /\ Len(messages) \in Nat
      /\ High \in Nat /\ persistedCount \in Nat /\ persistedCount' \in Nat
  BY Lengths DEF IInv, Typed, TypeOK
<1>2. failures' \in Nat /\ High' <= High /\ (failures' = 0 => failures = 0 /\ High' = High)
  BY <1>1
<1>3. Typed'
  BY <1>1, <1>2 DEF Typed
<1>4. Fresh'
  <2>1. \A j \in DOMAIN messages : j > persistedCount' => j > persistedCount
    BY <1>1
  <2> QED
    BY <2>1 DEF IInv, Fresh
<1>5. PrefixStored'
  BY <1>1, <1>2 DEF IInv, PrefixStored, Uids
<1>6. NoGap'
  BY DEF IInv, NoGap, Uids
<1>7. Mirrored'
  BY <1>2 DEF IInv, Mirrored
<1>8. RowsChained'
  BY DEF IInv, RowsChained
<1> QED
  BY <1>3, <1>4, <1>5, <1>6, <1>7, <1>8 DEF IInv

LEMMA IInvFacts ==
  ASSUME IInv
  PROVE  /\ Typed /\ TypeOK /\ Linked /\ PublishedDurable /\ Announced /\ Kept
         /\ published \in Seq(Nat) /\ at \in Nat /\ due \in Nat /\ promised \in Nat
         /\ persistedCount <= High /\ High <= Len(messages) /\ High \in Nat
         /\ persistedCount \in Nat /\ Len(messages) \in Nat /\ Len(rows) \in Nat
         /\ failures \in Nat /\ links \in Nat /\ waitFor \in 0..links /\ lastTs \in Nat
BY Lengths DEF IInv, Typed, TypeOK

LEMMA PromptRejectedKeeps == ASSUME IInv, NEW a \in Actors, PromptRejected(a) PROVE IInv'
<1> USE DEF PromptRejected, driver, chain, capture, store, counts, disposal
<1>1. High' = High /\ TypeOK' /\ Linked' /\ PublishedDurable' /\ Announced' /\ Kept'
  BY IInvFacts DEF High, TypeOK, Linked, Last, PublishedDurable, Announced, Kept
<1> QED
  BY <1>1, IInvFacts, QuietKeeps

LEMMA QueueKeeps == ASSUME IInv, NEW a \in Actors, Queue(a) PROVE IInv'
<1> USE DEF Queue, chain, capture, store, counts, disposal
<1>1. waiting' \in Seq(Actors)
  BY IInvFacts DEF TypeOK
<1>2. High' = High /\ TypeOK' /\ Linked' /\ PublishedDurable' /\ Announced' /\ Kept'
  BY <1>1, IInvFacts DEF High, TypeOK, Linked, Last, PublishedDurable, Announced, Kept
<1> QED
  BY <1>2, IInvFacts, QuietKeeps

LEMMA AgentEndKeeps == ASSUME IInv, AgentEnd PROVE IInv'
<1> USE DEF AgentEnd, ScheduleCapture, counts, capture, store, disposal
<1>1. links' \in Nat /\ waitFor' \in 0..links' /\ links' > 0 /\ due' = Len(messages)
  BY IInvFacts
<1>2. TypeOK'
  BY <1>1, IInvFacts DEF TypeOK
<1>3. Kept'
  BY <1>1, IInvFacts DEF Kept
<1>4. High' = High /\ Linked' /\ PublishedDurable' /\ Announced'
  BY IInvFacts DEF High, Linked, Last, PublishedDurable, Announced
<1> QED
  BY <1>1, <1>2, <1>3, <1>4, IInvFacts, QuietKeeps

LEMMA PromptKeeps == ASSUME IInv, NEW a \in Actors, Prompt(a) PROVE IInv'
<1>1. waiting \in Seq(Actors)
  BY IInvFacts DEF TypeOK
<1> QED
  BY <1>1, SayKeeps DEF Prompt, chain

LEMMA DeliverKeeps == ASSUME IInv, Deliver PROVE IInv'
<1>1. waiting \in Seq(Actors) /\ waiting # <<>> /\ streaming' \in BOOLEAN
      /\ lastActor' \in Actors \cup {NoActor}
  BY IInvFacts DEF Deliver, TypeOK
<1>2. Head(waiting) \in Actors /\ Tail(waiting) \in Seq(Actors)
  BY <1>1
<1> QED
  BY <1>1, <1>2, SayKeeps DEF Deliver, chain

LEMMA TurnEndKeeps == ASSUME IInv, TurnEnd PROVE IInv'
<1>1. waiting' \in Seq(Actors) /\ streaming' \in BOOLEAN /\ lastActor' \in Actors \cup {NoActor}
  BY IInvFacts DEF TurnEnd, TypeOK
<1> QED
  BY <1>1, SayKeeps DEF TurnEnd, ScheduleCapture

-----------------------------------------------------------------------------
(* The capture *)

LEMMA CaptureStartKeeps == ASSUME IInv, CaptureStart PROVE IInv'
<1> USE DEF CaptureStart, driver, capture, store, counts, disposal
<1>1. at' = persistedCount + 1 /\ at' \in Nat /\ at' \in 1..(Len(messages) + 1)
  BY IInvFacts
<1>2. High' = High
  BY <1>1, IInvFacts DEF High
<1>3. TypeOK'
  BY <1>1, IInvFacts DEF TypeOK
<1>4. Linked' /\ PublishedDurable' /\ Announced' /\ Kept'
  BY IInvFacts DEF Linked, Last, PublishedDurable, Announced, Kept
<1> QED
  BY <1>1, <1>2, <1>3, <1>4, IInvFacts, QuietKeeps

LEMMA SavedKeeps == ASSUME IInv, Saved PROVE IInv'
<1> USE DEF Saved, driver, capture, counts, disposal
<1> DEFINE n == Len(published)
<1>1. /\ published' = Append(published, Len(rows)) /\ published' \in Seq(Nat)
      /\ n \in Nat /\ DOMAIN published = 1..n /\ DOMAIN published' = 1..(n + 1)
      /\ \A k \in DOMAIN published : published'[k] = published[k]
      /\ published'[n + 1] = Len(rows)
      /\ DOMAIN rows = 1..Len(rows) /\ Len(rows) \in Nat
  BY IInvFacts, Lengths
<1>2. Last # 0 /\ Last \in DOMAIN rows /\ Len(rows) > 0
  BY <1>1, IInvFacts DEF Linked, Last
<1>3. PublishedDurable'
  <2>1. \A k \in DOMAIN published : published[k] \in DOMAIN rows /\ published[k] < Len(rows)
    BY IInvFacts DEF PublishedDurable, Announced
  <2>2. \A k \in DOMAIN published' : published'[k] \in DOMAIN rows
    BY <1>1, <1>2, <2>1
  <2>3. ASSUME NEW k \in DOMAIN published', NEW l \in DOMAIN published', k < l
        PROVE  published'[k] < published'[l]
    <3>1. k \in DOMAIN published
      BY <1>1, <2>3
    <3>2. CASE l \in DOMAIN published
      BY <1>1, <2>3, <3>1, <3>2, IInvFacts DEF PublishedDurable
    <3>3. CASE l = n + 1
      BY <1>1, <2>1, <3>1, <3>3
    <3> QED
      BY <1>1, <3>2, <3>3
  <2> QED
    BY <2>2, <2>3 DEF PublishedDurable
<1>4. High' = High /\ TypeOK' /\ Linked' /\ Announced' /\ Kept'
  BY IInvFacts DEF High, TypeOK, Linked, Last, Announced, Kept
<1> QED
  BY <1>1, <1>3, <1>4, IInvFacts, QuietKeeps

LEMMA SunkKeeps == ASSUME IInv, Sunk PROVE IInv'
<1> USE DEF Sunk, driver, store, counts, disposal
<1>1. at' = at + 1 /\ at' \in Nat /\ at' - 1 = at /\ at' \in 1..(Len(messages) + 1)
  BY IInvFacts DEF High
<1>2. High' = High
  BY <1>1 DEF High
<1>3. TypeOK'
  BY <1>1, IInvFacts DEF TypeOK
<1>4. Linked' /\ PublishedDurable' /\ Announced' /\ Kept'
  BY IInvFacts DEF Linked, Last, PublishedDurable, Announced, Kept
<1> QED
  BY <1>1, <1>2, <1>3, <1>4, IInvFacts, QuietKeeps

LEMMA CaptureDoneKeeps == ASSUME IInv, CaptureDone PROVE IInv'
<1> USE DEF CaptureDone, LinkSettled, driver, store, counts
<1>1. at - 1 = Len(messages) /\ links > 0
  BY IInvFacts DEF High, TypeOK
<1>2. High' = High /\ High = Len(messages)
  BY <1>1 DEF High
<1>3. links' \in Nat /\ waitFor' \in 0..links'
  BY <1>1, IInvFacts
<1>4. TypeOK'
  BY <1>3, IInvFacts DEF TypeOK
<1>5. Kept'
  BY <1>1, IInvFacts DEF Kept
<1>6. Linked' /\ PublishedDurable' /\ Announced'
  BY IInvFacts DEF Linked, Last, PublishedDurable, Announced
<1> QED
  BY <1>2, <1>4, <1>5, <1>6, IInvFacts, QuietKeeps

LEMMA SaveFailsKeeps == ASSUME IInv, NEW now \in 0..MaxClock, SaveFails(now) PROVE IInv'
<1> USE DEF SaveFails, LinkSettled, driver, store
<1>1. links > 0 /\ failures' = failures + 1 /\ failures' # 0
  BY IInvFacts DEF TypeOK
<1>2. links' \in Nat /\ waitFor' \in 0..links'
  BY <1>1, IInvFacts
<1>3. lastTs' \in Nat /\ lastTs' >= lastTs
  BY IInvFacts
<1>4. High' = persistedCount
  BY DEF High
<1>5. TypeOK'
  BY <1>2, <1>3, IInvFacts DEF TypeOK
<1>6. Linked'
  <2>1. Last' = Last /\ lastEntryId = Last
    BY IInvFacts DEF Linked, Last
  <2>2. Last # 0 => rows[Last].ts \in Nat
    BY Lengths, IInvFacts DEF Last, StoredRow
  <2> QED
    <3>0. Last # 0 => rows[Last].ts <= lastTs
      BY IInvFacts DEF Linked
    <3>a. PICK x, y, z : x = rows[Last].ts /\ y = lastTs /\ z = lastTs'
      OBVIOUS
    <3>b. z \in Nat /\ y \in Nat /\ y <= z /\ (Last # 0 => x \in Nat /\ x <= y)
      BY <1>3, <2>2, <3>0, <3>a, IInvFacts
    <3>c. Last # 0 => x <= z
      BY <3>b
    <3>1. Last # 0 => rows[Last].ts <= lastTs'
      BY <3>a, <3>c
    <3>2. stage' = "idle" /\ lastEntryId' = Last' /\ rows' = rows
      BY <2>1
    <3> QED
      BY <2>1, <3>1, <3>2 DEF Linked
<1>7. Kept'
  BY <1>1, IInvFacts DEF Kept
<1>8. PublishedDurable' /\ Announced'
  BY IInvFacts DEF PublishedDurable, Announced
<1> QED
  BY <1>1, <1>4, <1>5, <1>6, <1>7, <1>8, IInvFacts, QuietKeeps

LEMMA SaveKeeps == ASSUME IInv, NEW now \in 0..MaxClock, Save(now) PROVE IInv'
<1> DEFINE n == Len(rows) + 1
<1>1. /\ stage = "head" /\ stage' = "saving" /\ at <= Len(messages) /\ High = at - 1 /\ High' = at
      /\ at \in DOMAIN messages /\ links > 0 /\ at \in Nat
      /\ UNCHANGED <<driver, lastActor, links, at, persistedCount, lastEntryId,
                     published, counts, disposal, due>>
  BY IInvFacts, Lengths DEF Save, High, TypeOK
<1>2. PICK ts : /\ ts = (IF now > lastTs THEN now ELSE lastTs + 1)
                /\ lastTs' = ts /\ rows' = Append(rows, Row(ts))
  BY DEF Save
<1>3. ts \in Nat /\ ts > lastTs
  BY <1>2, IInvFacts, RuntimeAssumption
<1>4. PICK r : r = Row(ts)
  OBVIOUS
<1>5. /\ r \in StoredRow /\ r.uid = messages[at].uid /\ r.ts = ts /\ r.life = crashes
      /\ r.parent = lastEntryId
  <2>1. messages[at] \in Message /\ lastActor \in Actors \cup {NoActor} /\ crashes \in Nat
        /\ lastEntryId \in Nat
    BY <1>1, Lengths, IInvFacts DEF Typed, TypeOK
  <2> QED
    BY <1>3, <1>4, <2>1 DEF Row, StoredRow, Message
<1>6. /\ rows' \in Seq(StoredRow) /\ Len(rows') = n /\ DOMAIN rows' = 1..n /\ n \in Nat
      /\ \A i \in DOMAIN rows : rows'[i] = rows[i]
      /\ rows'[n] = r /\ DOMAIN rows = 1..Len(rows) /\ Len(rows) \in Nat
  <2>1. rows \in Seq(StoredRow) /\ rows' = Append(rows, r)
    BY <1>2, <1>4, IInvFacts DEF Typed
  <2> QED
    BY <1>5, <2>1, Lengths, IInvFacts
<1>7. Uids(rows)' = Uids(rows) \cup {messages[at].uid}
  BY <1>5, <1>6 DEF Uids
<1>8. TypeOK'
  BY <1>1, <1>2, <1>3, <1>6, IInvFacts DEF TypeOK, driver, disposal
<1>9. Typed'
  BY <1>1, <1>6, <1>8, IInvFacts DEF Typed, driver, counts, disposal
<1>10. Fresh'
  <2>1. UNCHANGED <<messages, persistedCount, said, crashes>>
    BY <1>1 DEF driver, counts
  <2>2. messages[at].uid <= said /\ crashes <= crashes
    BY <1>1, IInvFacts DEF IInv, Fresh, Typed
  <2>3. \A i \in DOMAIN rows' : rows'[i].uid <= said /\ rows'[i].life <= crashes
    BY <1>5, <1>6, <2>2 DEF IInv, Fresh
  <2> QED
    BY <2>1, <2>3 DEF IInv, Fresh
<1>11. PrefixStored'
  BY <1>1, <1>7, IInvFacts, Lengths DEF IInv, PrefixStored, driver
<1>12. NoGap'
  <2> SUFFICES ASSUME NEW i \in DOMAIN messages', messages'[i].uid \in Uids(rows)', NEW j \in 1..i
               PROVE  messages'[j].uid \in Uids(rows)'
    BY DEF NoGap, Uids
  <2>1. messages' = messages /\ i \in Nat /\ j \in Nat /\ j <= i /\ j \in DOMAIN messages
    BY <1>1, Lengths, IInvFacts DEF driver
  <2>2. CASE messages[i].uid \in Uids(rows)
    BY <1>7, <2>1, <2>2 DEF IInv, NoGap
  <2>3. CASE messages[i].uid = messages[at].uid
    <3>1. at > persistedCount
      BY <1>1, IInvFacts
    <3>2. i = at
      BY <1>1, <2>1, <2>3, <3>1 DEF IInv, Fresh
    <3> QED
      BY <1>1, <1>11, <2>1, <3>2 DEF PrefixStored, Uids
  <2> QED
    BY <1>7, <2>1, <2>2, <2>3
<1>13. Mirrored'
  <2> SUFFICES ASSUME failures' = 0
               PROVE  Len(rows') = High' /\ \A i \in DOMAIN rows' : rows'[i].uid = messages'[i].uid
    BY DEF Mirrored
  <2>1. /\ failures = 0 /\ messages' = messages /\ Len(rows) = High
        /\ \A i \in DOMAIN rows : rows[i].uid = messages[i].uid
    BY <1>1 DEF IInv, Mirrored, driver, counts
  <2>2. n = at
    BY <1>1, <2>1
  <2> QED
    BY <1>1, <1>5, <1>6, <2>1, <2>2
<1>14. Last = lastEntryId /\ Last' = n
  BY <1>1, <1>5, <1>6, IInvFacts DEF Linked, Last, counts
<1>15. RowsChained'
  <2> SUFFICES ASSUME NEW i \in DOMAIN rows'
               PROVE  IF i > 1 /\ rows'[i-1].life = rows'[i].life
                      THEN rows'[i].parent = i - 1 /\ rows'[i-1].ts < rows'[i].ts
                      ELSE rows'[i].parent = 0
    BY DEF RowsChained
  <2>1. CASE i # n
    <3>1. i \in DOMAIN rows /\ (i > 1 => i - 1 \in DOMAIN rows)
      BY <1>6, <2>1
    <3> QED
      BY <1>6, <3>1 DEF IInv, RowsChained
  <2>2. CASE i = n
    <3>1. i > 1 => i - 1 = Len(rows) /\ i - 1 \in DOMAIN rows
      BY <1>6, <2>2
    <3>2. CASE i > 1 /\ rows[Len(rows)].life = crashes
      <4>0. Len(rows) > 0 /\ rows[Len(rows)] \in StoredRow
        BY <1>6, <3>1, <3>2, Lengths, IInvFacts
      <4>1. Last = Len(rows) /\ rows[Last].ts <= lastTs /\ rows[Last].ts \in Nat /\ lastTs \in Nat
        BY <3>2, <4>0, <1>6, IInvFacts DEF Last, Linked, StoredRow
      <4> QED
        BY <1>3, <1>5, <1>6, <1>14, <2>2, <3>1, <3>2, <4>1
    <3>3. CASE ~(i > 1 /\ rows[Len(rows)].life = crashes)
      <4>1. Last = 0
        BY <1>6, <2>2, <3>3 DEF Last
      <4> QED
        BY <1>5, <1>6, <1>14, <2>2, <3>1, <3>3, <4>1
    <3> QED
      BY <3>2, <3>3
  <2> QED
    BY <2>1, <2>2
<1>16. Linked'
  BY <1>1, <1>2, <1>3, <1>5, <1>6, <1>14 DEF Linked
<1>17. PublishedDurable' /\ Announced'
  <2>1. \A k \in DOMAIN published : published[k] \in DOMAIN rows
    BY IInvFacts DEF PublishedDurable
  <2>2. DOMAIN rows \subseteq DOMAIN rows' /\ \A k \in DOMAIN rows : k < Len(rows')
    BY <1>6
  <2> QED
    BY <1>1, <2>1, <2>2, IInvFacts DEF PublishedDurable, Announced
<1>18. Kept'
  BY <1>1, IInvFacts DEF Kept, driver, counts, disposal
<1> QED
  BY <1>9, <1>10, <1>11, <1>12, <1>13, <1>15, <1>16, <1>17, <1>18 DEF IInv

-----------------------------------------------------------------------------
(* The end of a runtime *)

LEMMA DisposeKeeps == ASSUME IInv, Dispose PROVE IInv'
<1> USE DEF Dispose, driver, chain, capture, store, counts
<1>1. TypeOK' /\ Kept'
  BY IInvFacts DEF TypeOK, Kept
<1>2. High' = High /\ Linked' /\ PublishedDurable' /\ Announced'
  BY IInvFacts DEF High, Linked, Last, PublishedDurable, Announced
<1> QED
  BY <1>1, <1>2, IInvFacts, QuietKeeps

LEMMA DisposedKeeps == ASSUME IInv, Disposed PROVE IInv'
<1> USE DEF Disposed, chain, capture, store, counts
<1>1. TypeOK' /\ Kept'
  BY IInvFacts DEF TypeOK, Kept
<1>2. High' = High /\ Linked' /\ PublishedDurable' /\ Announced'
  BY IInvFacts DEF High, Linked, Last, PublishedDurable, Announced
<1> QED
  BY <1>1, <1>2, IInvFacts, QuietKeeps

LEMMA CrashKeeps == ASSUME IInv, Crash PROVE IInv'
<1> DEFINE n == Len(rows)
<1>1. /\ crashes' = crashes + 1
      /\ messages' = [i \in DOMAIN rows |->
                        [uid |-> rows[i].uid, role |-> rows[i].role, by |-> rows[i].by]]
      /\ persistedCount' = n /\ streaming' = FALSE /\ waiting' = <<>>
      /\ life' = "live" /\ waitFor' = 0 /\ promised' = 0 /\ due' = 0
      /\ lastActor' = NoActor /\ lastEntryId' = 0 /\ lastTs' = 0
      /\ links' = 0 /\ stage' = "idle" /\ at' = 0
      /\ UNCHANGED <<rows, published, said, failures>>
  BY DEF Crash, Rebuilt, store
<1>2. /\ DOMAIN rows = 1..n /\ n \in Nat /\ \A i \in DOMAIN rows : rows[i] \in StoredRow
      /\ Typed /\ crashes \in Nat
  BY IInvFacts, Lengths DEF Typed
<1>3. /\ messages' \in Seq(Message) /\ Len(messages') = n /\ DOMAIN messages' = 1..n
      /\ \A i \in 1..n : messages'[i].uid = rows[i].uid
  <2>1. \A i \in 1..n : [uid |-> rows[i].uid, role |-> rows[i].role, by |-> rows[i].by] \in Message
    BY <1>2 DEF StoredRow, Message
  <2>2. messages' \in [1..n -> Message]
    BY <1>1, <1>2, <2>1
  <2> QED
    BY <1>1, <1>2, <2>2
<1>4. High' = n
  BY <1>1 DEF High
<1>5. TypeOK'
  <2>1. <<>> \in Seq(Actors) /\ n \in 0..n /\ 0 \in 0..n /\ 0 \in 0..0 /\ 0 \in Nat
    BY <1>2
  <2> QED
    BY <1>1, <1>3, <2>1 DEF TypeOK
<1>6. Typed'
  BY <1>1, <1>2, <1>3, <1>4, <1>5 DEF Typed
<1>7. Fresh'
  <2>1. \A i \in DOMAIN rows : rows[i].uid <= said /\ rows[i].life <= crashes
                               /\ rows[i].life \in Nat
    BY <1>2 DEF IInv, Fresh, StoredRow
  <2> QED
    BY <1>1, <1>2, <1>3, <2>1 DEF Fresh
<1>8. Uids(rows)' = Uids(rows) /\ \A i \in 1..n : messages'[i].uid \in Uids(rows)
  BY <1>1, <1>2, <1>3 DEF Uids
<1>9. PrefixStored'
  BY <1>1, <1>3, <1>8 DEF PrefixStored
<1>10. NoGap'
  BY <1>1, <1>2, <1>3, <1>8 DEF NoGap
<1>11. Mirrored'
  BY <1>1, <1>2, <1>3, <1>4 DEF Mirrored
<1>12. RowsChained'
  BY <1>1 DEF IInv, RowsChained
<1>13. Linked'
  <2>1. n > 0 => rows[n].life <= crashes /\ rows[n].life \in Nat
    BY <1>2 DEF IInv, Fresh, StoredRow
  <2>2. Last' = 0
    BY <1>1, <1>2, <2>1 DEF Last
  <2> QED
    BY <1>1, <2>2 DEF Linked
<1>14. PublishedDurable' /\ Announced' /\ Kept'
  BY <1>1, <1>2, <1>3, IInvFacts DEF PublishedDurable, Announced, Kept
<1> QED
  BY <1>6, <1>7, <1>9, <1>10, <1>11, <1>12, <1>13, <1>14 DEF IInv

-----------------------------------------------------------------------------
(* The theorems *)

\* Types, fresh messages, the stored prefix, the chain of rows and what dispose
\* keeps hold together at every step.
THEOREM RuntimeInductive == Spec => []IInv
<1>1. Init => IInv
  <2> SUFFICES ASSUME Init PROVE IInv
    OBVIOUS
  <2>1. TypeOK
    <3>1. <<>> \in Seq(Actors) /\ <<>> \in Seq(Message) /\ Len(messages) = 0 /\ Len(rows) = 0
      BY DEF Init
    <3>2. /\ persistedCount \in 0..Len(messages) /\ lastEntryId \in 0..Len(rows)
          /\ lastTs \in Nat /\ links \in Nat /\ waitFor \in 0..links
      BY <3>1 DEF Init
    <3>3. messages \in Seq(Message) /\ waiting \in Seq(Actors) /\ streaming \in BOOLEAN
      BY <3>1 DEF Init
    <3> QED
      BY <3>2, <3>3 DEF Init, TypeOK
  <2>2. High = 0
    BY DEF Init, High
  <2>3. Typed
    BY <2>1, <2>2, RuntimeAssumption DEF Init, Typed
  <2>4. Fresh /\ PrefixStored /\ NoGap /\ Mirrored
    BY <2>2 DEF Init, Fresh, PrefixStored, NoGap, Mirrored
  <2>5. RowsChained /\ Linked /\ PublishedDurable /\ Announced /\ Kept
    BY DEF Init, RowsChained, Linked, Last, PublishedDurable, Announced, Kept
  <2> QED
    BY <2>3, <2>4, <2>5 DEF IInv
<1>2. IInv /\ [Next]_vars => IInv'
  <2> SUFFICES ASSUME IInv, [Next]_vars PROVE IInv'
    OBVIOUS
  <2>1. CASE Next
    BY <2>1, PromptKeeps, PromptRejectedKeeps, QueueKeeps, DeliverKeeps, TurnEndKeeps, AgentEndKeeps,
       CaptureStartKeeps, SaveKeeps, SaveFailsKeeps, SavedKeeps, SunkKeeps, CaptureDoneKeeps,
       DisposeKeeps, DisposedKeeps, CrashKeeps DEF Next
  <2>2. CASE UNCHANGED vars
    <3> USE <2>2 DEF vars, driver, chain, capture, store, counts, disposal
    <3>1. High' = High /\ TypeOK' /\ Linked' /\ PublishedDurable' /\ Announced' /\ Kept'
      BY IInvFacts DEF High, TypeOK, Linked, Last, PublishedDurable, Announced, Kept
    <3> QED
      BY <3>1, IInvFacts, QuietKeeps
  <2> QED
    BY <2>1, <2>2
<1> QED
  BY <1>1, <1>2, PTL DEF Spec

\* The runtime's, the driver's and the chain's state keep their types: the
\* high-water mark never passes the transcript, no link settles twice.
THEOREM RuntimeTypeCorrect == Spec => []TypeOK
<1>1. IInv => TypeOK
  BY DEF IInv, Typed
<1> QED
  BY <1>1, RuntimeInductive, PTL

\* The store has no gap, and mirrors the transcript while it accepts its writes,
\* whatever crashes there are between two rows.
THEOREM StoreMirrors == Spec => []RowsMirror
<1>1. IInv => RowsMirror
  <2> SUFFICES ASSUME IInv PROVE RowsMirror
    OBVIOUS
  <2>1. failures = 0 => \A i \in DOMAIN rows : i \in DOMAIN messages /\ rows[i].uid = messages[i].uid
    BY IInvFacts, Lengths DEF IInv, Mirrored
  <2> QED
    BY <2>1 DEF IInv, RowsMirror
<1> QED
  BY <1>1, RuntimeInductive, PTL

\* Parents and timestamps chain the rows of one runtime, whatever the clock and
\* the store do.
THEOREM ChainHolds == Spec => []RowsChained
<1>1. IInv => RowsChained
  BY DEF IInv
<1> QED
  BY <1>1, RuntimeInductive, PTL

\* What is announced is stored, in the store's order and once.
THEOREM AnnouncedIsDurable == Spec => []PublishedDurable
<1>1. IInv => PublishedDurable
  BY DEF IInv
<1> QED
  BY <1>1, RuntimeInductive, PTL

\* dispose resolves after the captures scheduled before it have stored their
\* messages.
THEOREM DisposeKeepsPromise == Spec => []DisposeWaits
<1>1. IInv => DisposeWaits
  <2> SUFFICES ASSUME IInv, life = "disposed", failures = 0, NEW i \in 1..promised
               PROVE  messages[i].uid \in Uids(rows)
    BY DEF DisposeWaits
  <2>1. promised <= persistedCount /\ promised <= Len(messages)
    BY DEF IInv, Kept
  <2>2. i \in DOMAIN messages /\ i <= High
    BY <2>1, IInvFacts, Lengths
  <2> QED
    BY <2>2 DEF IInv, PrefixStored
<1> QED
  BY <1>1, RuntimeInductive, PTL
=============================================================================
