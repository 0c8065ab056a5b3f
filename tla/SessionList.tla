----------------------------- MODULE SessionList ----------------------------
(***************************************************************************)
(* The list of conversations, from end to end: the durable rows of         *)
(* runtime/src/session-index.ts, the projected rows that the browser       *)
(* renders, the registry that writes both (session-registry.ts), and the   *)
(* AkkoClient of one tab (web/src/lib/client.svelte.ts), whose calls are   *)
(* answered in any order.                                                  *)
(*                                                                         *)
(* A ref is cut down to what changes: title, model and updatedAt, which is *)
(* counted in edits.                                                       *)
(***************************************************************************)
EXTENDS Naturals, FiniteSets

CONSTANTS
  Sessions, Existing, NoSession, Titles, Models, NoTitle, NoModel,
  Ops,         \* registry.get calls under way
  Calls,       \* bound: calls of the tab under way
  MaxEdits,    \* bound: changes of the index
  MaxSends,    \* bound: calls of the tab, ever
  MaxFaults    \* bound: failing calls, writes and restarts

ASSUME ListAssumption ==
  /\ NoSession \notin Sessions /\ Existing \subseteq Sessions
  /\ {MaxEdits, MaxSends, MaxFaults} \subseteq Nat

VARIABLES
  index,      \* the sessions table
  row,        \* the projected session rows
  runtime,    \* #live: the ref each live runtime was built with
  late,       \* sessions with an evicted runtime, whose mailbox may still be at work
  get,        \* the ref each get has read
  list,       \* AkkoClient.sessions: the ids (the titles and models it echoes are not displayed)
  sound,      \* "list"; "holed" with an undefined element; "undefined" for no list at all
  active,     \* activeSessionId
  call,       \* the tab's calls
  slipped,    \* history: sessions whose row was lost, not written, or written by a get overtaken
  intended,   \* history: the title and model that were accepted last
  edits, sends, faults

server == <<index, row, runtime, late, get, slipped, intended>>
tab == <<list, sound, active, call, sends>>
vars == <<server, tab, edits, faults>>

NoRef == [title |-> "none"]
Ref == [title : Titles \cup {NoTitle}, model : Models \cup {NoModel}, updatedAt : 0..MaxEdits]
Idle == [session |-> NoSession]
Free == [kind |-> "free"]

Init ==
  /\ index = [s \in Sessions |-> IF s \in Existing
                               THEN [title |-> NoTitle, model |-> NoModel, updatedAt |-> 0] ELSE NoRef]
  /\ row = index /\ runtime = [s \in Sessions |-> NoRef] /\ late = {}
  /\ get = [o \in Ops |-> Idle]
  /\ list = {} /\ sound = "list" /\ active = NoSession
  /\ call = [c \in Calls |-> Free]
  /\ slipped = {} /\ intended = index /\ edits = 0 /\ sends = 0 /\ faults = 0

Known(s) == index[s] # NoRef
Edit == edits < MaxEdits /\ edits' = edits + 1
Fault == faults < MaxFaults /\ faults' = faults + 1

-----------------------------------------------------------------------------
(* The index and its projection *)

\* #projectSession: an upsert of the row, or an error that is logged.
Project(s, ref) ==
  \/ row' = [row EXCEPT ![s] = ref] /\ slipped' = slipped \ {s} /\ UNCHANGED faults
  \/ UNCHANGED row /\ slipped' = slipped \cup {s} /\ Fault

Upsert(s, ref) == Edit /\ index' = [index EXCEPT ![s] = [ref EXCEPT !.updatedAt = edits']]

\* Mutant: the runtime's own ref is written back.
OnRenamedFromRuntime(s, t) ==
  /\ Known(s)
  /\ Upsert(s, [runtime[s] EXCEPT !.title = t]) /\ Project(s, index'[s])

\* onRenamed: the row as it is now, with the title.
OnRenamed(s, t) ==
  /\ Known(s)
  /\ Upsert(s, [index[s] EXCEPT !.title = t]) /\ Project(s, index'[s])

\* Mutant: only the index is told.
OnModelChangedUnprojected(s, m) ==
  /\ Known(s)
  /\ Upsert(s, [index[s] EXCEPT !.model = m]) /\ UNCHANGED <<row, slipped, faults>>

\* onModelChanged
OnModelChanged(s, m) ==
  /\ Known(s)
  /\ Upsert(s, [index[s] EXCEPT !.model = m]) /\ Project(s, index'[s])

\* Who may still write: the live runtime, or one that evict has disposed of, which
\* stops neither its mailbox nor a capture.
HasWriter(s) == runtime[s] # NoRef \/ s \in late

\* History: the gets of the session have been overtaken.
Overtaken(s) ==
  [o \in Ops |-> IF get[o].session = s THEN [get[o] EXCEPT !.alone = FALSE] ELSE get[o]]

\* applyRename, applySetModel, in the mailbox of a runtime.
Apply(s, field, value) ==
  /\ HasWriter(s)
  /\ IF field = "title" THEN OnRenamed(s, value) ELSE OnModelChanged(s, value)
  /\ intended' = [intended EXCEPT ![s] = [@ EXCEPT ![field] = value]]
  /\ get' = Overtaken(s)
  /\ UNCHANGED <<runtime, late>>

\* A command of another member or tab.
Elsewhere(s, field, value) == Apply(s, field, value) /\ UNCHANGED tab

\* The touch sink, after an entry: touch, getRef, projectSessionMeta.
Touched(s) ==
  /\ HasWriter(s) /\ Known(s)
  /\ Upsert(s, index[s]) /\ Project(s, index'[s])
  /\ get' = Overtaken(s)
  /\ UNCHANGED <<runtime, late, intended, tab>>

\* registry.get of a cold session reads the ref, and awaits.  History: whether
\* another get of it was under way, or an evicted runtime wrote, in the meantime.
Get(o, s) ==
  /\ get[o] = Idle /\ Known(s) /\ runtime[s] = NoRef
  /\ LET others == {p \in Ops : get[p].session = s}
     IN get' = [Overtaken(s) EXCEPT ![o] = [session |-> s, ref |-> index[s], alone |-> others = {}]]
  /\ UNCHANGED <<index, row, runtime, late, slipped, intended, tab, edits, faults>>

\* #instantiate projects the ref that get has read; an overlapping get of the
\* session (SessionRegistry) or an evicted runtime may have changed it.
Instantiate(o) ==
  /\ get[o] # Idle
  /\ LET s == get[o].session
     IN /\ \/ /\ row' = [row EXCEPT ![s] = get[o].ref] /\ UNCHANGED faults
              /\ slipped' = IF get[o].alone THEN slipped \ {s} ELSE slipped \cup {s}
           \/ UNCHANGED row /\ slipped' = slipped \cup {s} /\ Fault
        /\ runtime' = [runtime EXCEPT ![s] = get[o].ref]
  /\ get' = [get EXCEPT ![o] = Idle]
  /\ UNCHANGED <<index, late, intended, tab, edits>>

Evict(s) ==
  /\ runtime[s] # NoRef
  /\ runtime' = [runtime EXCEPT ![s] = NoRef] /\ late' = late \cup {s}
  /\ UNCHANGED <<index, row, get, slipped, intended, tab, edits, faults>>

\* ensureProjected: the row of a session that somebody opens, live or not.
EnsureProjected(s) == Known(s) /\ Project(s, index[s])

\* The process starts again: registerWorkspace projects every ref of the index.
Boot ==
  /\ Fault
  /\ runtime' = [s \in Sessions |-> NoRef] /\ late' = {} /\ get' = [o \in Ops |-> Idle]
  /\ row' = [s \in Sessions |-> IF Known(s) THEN index[s] ELSE row[s]] /\ slipped' = {}
  /\ call' = [c \in Calls |-> IF call[c] = Free \/ call[c].at = "answered" THEN call[c]
                              ELSE [call[c] EXCEPT !.at = "failed"]]
  /\ UNCHANGED <<index, intended, list, sound, active, edits, sends>>

\* The in-memory sync server loses its rows; nobody tells the backend.
SyncServerRestarts ==
  /\ Fault
  /\ row' = [s \in Sessions |-> NoRef] /\ slipped' = {s \in Sessions : Known(s)}
  /\ UNCHANGED <<index, runtime, late, get, intended, tab, edits>>

-----------------------------------------------------------------------------
(* AkkoClient: calls *)

Send(c, kind, s, field, value) ==
  /\ call[c] = Free /\ sends < MaxSends /\ sends' = sends + 1
  /\ call' = [call EXCEPT ![c] =
       [kind |-> kind, at |-> "sent", session |-> s, field |-> field, value |-> value,
        listed |-> {}]]

LoadSessions(c) ==
  /\ \A d \in Calls : call[d] # Free => call[d].kind # "list"
  /\ Send(c, "list", NoSession, "none", "none")
  /\ UNCHANGED <<server, list, sound, active, edits, faults>>

\* createSession: the length of the list makes the title, and throws without one.
CreateSession(c) ==
  /\ sound # "undefined"
  /\ \E t \in Titles : Send(c, "create", NoSession, "title", t)
  /\ UNCHANGED <<server, list, sound, active, edits, faults>>

\* command
Command(c, s, field, value) ==
  /\ row[s] # NoRef
  /\ Send(c, "command", s, field, value)
  /\ UNCHANGED <<server, list, sound, active, edits, faults>>

\* setModel, from the picker.
SetModel(c, s, m) == Command(c, s, "model", m)

\* rename, of a row on the screen: a title that is not changed is not sent.
Rename(c, s, t) == row[s].title # t /\ Command(c, s, "title", t)

\* select, of a row on the screen: the call for its projection is not awaited.
Select(c, s) ==
  /\ row[s] # NoRef
  /\ active' = s /\ Send(c, "projection", s, "none", "none")
  /\ UNCHANGED <<server, list, sound, edits, faults>>

Sent(c, kind) == call[c] # Free /\ call[c].kind = kind /\ call[c].at = "sent"
Answered(c, at) == call' = [call EXCEPT ![c].at = at]

\* The server's part of the calls.
ServeList(c) ==
  /\ Sent(c, "list")
  /\ call' = [call EXCEPT ![c].at = "answered", ![c].listed = {s \in Sessions : Known(s)}]
  /\ UNCHANGED <<server, list, sound, active, edits, faults, sends>>

\* createConversation: an index row, a projected row and a live runtime.
ServeCreate(c) ==
  /\ Sent(c, "create")
  /\ \E s \in Sessions :
       /\ ~Known(s) /\ Upsert(s, [title |-> call[c].value, model |-> NoModel, updatedAt |-> 0])
       /\ Project(s, index'[s])
       /\ intended' = [intended EXCEPT ![s] = index'[s]]
       /\ runtime' = [runtime EXCEPT ![s] = index'[s]]
       /\ call' = [call EXCEPT ![c].at = "answered", ![c].session = s]
  /\ UNCHANGED <<late, get, list, sound, active, sends>>

ServeCommand(c) ==
  /\ Sent(c, "command")
  /\ Apply(call[c].session, call[c].field, call[c].value)
  /\ Answered(c, "answered") /\ UNCHANGED <<list, sound, active, sends>>

\* ensureProjected.  Nobody reads the answer.
ServeProjection(c) ==
  /\ Sent(c, "projection")
  /\ EnsureProjected(call[c].session)
  /\ call' = [call EXCEPT ![c] = Free]
  /\ UNCHANGED <<index, runtime, late, get, intended, list, sound, active, edits, sends>>

\* The server says no, with a reason: not a member, a viewer, a model it cannot resolve.
Reject(c) ==
  /\ call[c] # Free /\ call[c].at = "sent" /\ Fault
  /\ Answered(c, "refused")
  /\ UNCHANGED <<server, list, sound, active, edits, sends>>

-----------------------------------------------------------------------------
(* AkkoClient: answers *)

Landed(c, at) == call[c] # Free /\ call[c].at = at /\ call' = [call EXCEPT ![c] = Free]

\* loadSessions replaces the list, whatever the answer holds.
ListLands(c) ==
  /\ \/ Landed(c, "answered") /\ call[c].kind = "list" /\ list' = call[c].listed /\ sound' = "list"
     \/ /\ Landed(c, "refused") /\ call[c].kind = "list"
        /\ list' = {} /\ sound' = "undefined"
  /\ UNCHANGED <<server, active, edits, faults, sends>>

\* Mutant: the new session is only listed.
CreateLandsUnselected(c) ==
  /\ call[c] # Free /\ call[c].kind = "create"
  /\ \/ Landed(c, "answered") /\ list' = list \cup {call[c].session}
     \/ Landed(c, "refused") /\ UNCHANGED list
  /\ UNCHANGED <<server, sound, active, edits, faults, sends>>

\* createSession prepends the ref and selects it, which asks for its projection;
\* a refusal has no ref: an undefined element is prepended, and select throws.
CreateLands(c) ==
  /\ call[c] # Free /\ call[c].kind = "create"
  /\ \/ /\ call[c].at = "answered" /\ sound # "undefined"
        /\ list' = list \cup {call[c].session} /\ active' = call[c].session
        /\ call' = [call EXCEPT ![c] = [@ EXCEPT !.kind = "projection", !.at = "sent"]]
        /\ UNCHANGED sound
     \/ /\ Landed(c, "refused")
        /\ sound' = IF sound = "list" THEN "holed" ELSE sound
        /\ UNCHANGED <<list, active>>
  /\ UNCHANGED <<server, edits, faults, sends>>

\* command: the result, or the reason of the refusal or failure, is displayed.
CommandLands(c) ==
  /\ call[c] # Free /\ call[c].kind = "command"
  /\ \E at \in {"answered", "refused", "failed"} : Landed(c, at)
  /\ UNCHANGED <<server, list, sound, active, edits, faults, sends>>

\* A call without catch fails, and leaves everything as it was; so does the
\* projection, whose failure or refusal is swallowed.
CallLost(c) ==
  /\ \/ Landed(c, "failed") /\ call[c].kind # "command"
     \/ Landed(c, "refused") /\ call[c].kind = "projection"
     \/ /\ call[c] # Free /\ call[c].at = "answered" /\ call[c].kind = "create" /\ sound = "undefined"
        /\ call' = [call EXCEPT ![c] = Free]
  /\ UNCHANGED <<server, list, sound, active, edits, faults, sends>>

Lands(c) == ListLands(c) \/ CreateLands(c) \/ CommandLands(c) \/ CallLost(c)
Serves(c) == ServeList(c) \/ ServeCreate(c) \/ ServeCommand(c) \/ ServeProjection(c)
Fields == {"title", "model"}
Values(field) == IF field = "title" THEN Titles ELSE Models

Next ==
  \/ \E s \in Sessions :
       \/ \E field \in Fields : \E v \in Values(field) : Elsewhere(s, field, v)
       \/ Touched(s) \/ Evict(s) \/ \E o \in Ops : Get(o, s)
  \/ \E o \in Ops : Instantiate(o)
  \/ Boot \/ SyncServerRestarts
  \/ \E c \in Calls :
       \/ LoadSessions(c) \/ CreateSession(c)
       \/ \E s \in Sessions :
            \/ Select(c, s)
            \/ \E m \in Models : SetModel(c, s, m)
            \/ \E t \in Titles : Rename(c, s, t)
       \/ Serves(c) \/ Reject(c) \/ Lands(c)

\* Calls are answered, and their answers arrive.
Spec ==
  /\ Init /\ [][Next]_vars
  /\ \A c \in Calls : WF_vars(Serves(c) \/ Reject(c)) /\ WF_vars(Lands(c))

-----------------------------------------------------------------------------
Call == [kind : {"list", "create", "command", "projection"},
         at : {"sent", "answered", "refused", "failed"}, session : Sessions \cup {NoSession},
         field : Fields \cup {"none"}, value : Titles \cup Models \cup {"none"},
         listed : SUBSET Sessions]

TypeOK ==
  /\ {index, row, runtime} \subseteq [Sessions -> Ref \cup {NoRef}]
  /\ get \in [Ops -> {Idle} \cup [session : Sessions, ref : Ref, alone : BOOLEAN]]
  /\ list \subseteq Sessions /\ sound \in {"list", "holed", "undefined"}
  /\ active \in Sessions \cup {NoSession}
  /\ call \in [Calls -> Call \cup {Free}]
  /\ late \subseteq Sessions /\ slipped \subseteq Sessions

\* What every tab shows of a session is what the index says of it, however
\* renames, model changes, entries, rebuilds and restarts interleave, unless
\* its row was lost or not written, or a get of it was overtaken by another or by
\* an evicted runtime; then the next change, opening or boot makes it right.
RowsFollowIndex == \A s \in Sessions \ slipped : row[s] = index[s]

\* No accepted rename or change of model is undone by another writer of the ref.
EditsKept ==
  \A s \in Sessions : Known(s) =>
    index[s].title = intended[s].title /\ index[s].model = intended[s].model

\* A new session that the server has made is opened in the tab that asked for it
\* and has its row there, whatever else is asked, answered or refused meanwhile,
\* unless its row got lost or the tab has taken a refusal for its list.
CreateShown ==
  \A c \in Calls, s \in Sessions :
    (call[c] # Free /\ call[c].kind = "create" /\ call[c].at = "answered" /\ call[c].session = s)
      ~> ((active = s /\ row[s] # NoRef) \/ s \in slipped \/ sound = "undefined")

\* "a failed request is a no-op" (web/src/lib/client.svelte.vitest.ts:58, of
\* loadModels): the tab's list stays a list.
ListStaysSound == sound = "list"

\* "the projected session row" is refreshed with every change (session-registry.ts:533):
\* a row is never older than the index while all of the writes succeed.
RowsNeverStale == faults = 0 => \A s \in Sessions : row[s] # NoRef => row[s] = index[s]
=============================================================================
