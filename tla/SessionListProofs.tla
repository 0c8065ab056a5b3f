-------------------------- MODULE SessionListProofs --------------------------
(***************************************************************************)
(* The two safety invariants of the list of conversations, for any number  *)
(* of sessions, overlapping gets and calls, and for any edits and faults:  *)
(* the projected rows follow the index, and no accepted edit is undone.    *)
(*                                                                         *)
(* Neither is inductive: a get projects a ref that it read before its      *)
(* await, and a call carries what was on the screen when it was sent.      *)
(* GetsFresh says when such a ref is still the index's: as long as no other *)
(* get of the session and no runtime that evict has disposed of comes in   *)
(* between.                                                                *)
(***************************************************************************)
EXTENDS SessionList, TLAPS

ServerTypes ==
  /\ index \in [Sessions -> Ref \cup {NoRef}] /\ row \in [Sessions -> Ref \cup {NoRef}]
  /\ runtime \in [Sessions -> Ref \cup {NoRef}] /\ intended \in [Sessions -> Ref \cup {NoRef}]
  /\ get \in [Ops -> {Idle} \cup [session : Sessions, ref : Ref, alone : BOOLEAN]]
  /\ late \subseteq Sessions /\ slipped \subseteq Sessions /\ edits \in 0..MaxEdits

\* A get has found its session in the index.  If it is alone, nobody has changed
\* the ref since: there is no runtime, and no other get may make one.
GetsFresh ==
  \A o \in Ops : get[o] # Idle =>
    /\ Known(get[o].session)
    /\ get[o].alone =>
         /\ runtime[get[o].session] = NoRef /\ get[o].ref = index[get[o].session]
         /\ \A p \in Ops \ {o} : get[p] # Idle => get[p].session # get[o].session

\* A session that is not in the index has neither row nor runtime.
Mapped(s) ==
  /\ Known(s) => intended[s] \in Ref
  /\ ~Known(s) => row[s] = NoRef /\ runtime[s] = NoRef

ServerInv ==
  /\ ServerTypes /\ GetsFresh /\ \A s \in Sessions : Mapped(s)
  /\ RowsFollowIndex /\ EditsKept

\* What the server may rely on in a call: the tab has checked nothing else.
Addressed(c) ==
  /\ c.kind = "command" => c.session \in Sessions /\ c.field \in Fields /\ c.value \in Values(c.field)
  /\ c.kind = "projection" => c.session \in Sessions
  /\ c.kind = "create" => c.value \in Titles /\ (c.at = "answered" => c.session \in Sessions)

Calling == call \in [Calls -> Call \cup {Free}] /\ \A c \in Calls : call[c] # Free => Addressed(call[c])

ClientInv ==
  /\ list \subseteq Sessions /\ sound \in {"list", "holed", "undefined"}
  /\ active \in Sessions \cup {NoSession}
  /\ Calling

ListInv == ServerInv /\ ClientInv

-----------------------------------------------------------------------------
(* Refs *)

LEMMA RefIsNone == NoRef \notin Ref
<1>1. ASSUME NEW r \in Ref PROVE r # NoRef
  <2>1. DOMAIN r = {"title", "model", "updatedAt"}
    BY DEF Ref
  <2>2. DOMAIN NoRef = {"title"}
    BY DEF NoRef
  <2> QED
    BY <2>1, <2>2
<1> QED
  BY <1>1

LEMMA IdleIsNone == \A g \in [session : Sessions, ref : Ref, alone : BOOLEAN] : g # Idle
BY ListAssumption DEF Idle

LEMMA FreeIsNone == \A c \in Call : c # Free
BY DEF Call, Free

\* A ref whose title, model or recency is changed.
LEMMA Titled ==
  ASSUME NEW r \in Ref, NEW t \in Titles \cup {NoTitle}
  PROVE  /\ [r EXCEPT !.title = t] \in Ref
         /\ [r EXCEPT !.title = t].title = t /\ [r EXCEPT !.title = t].model = r.model
BY DEF Ref

LEMMA Modelled ==
  ASSUME NEW r \in Ref, NEW m \in Models \cup {NoModel}
  PROVE  /\ [r EXCEPT !.model = m] \in Ref
         /\ [r EXCEPT !.model = m].title = r.title /\ [r EXCEPT !.model = m].model = m
BY DEF Ref

LEMMA Dated ==
  ASSUME NEW r \in Ref, NEW u \in 0..MaxEdits
  PROVE  /\ [r EXCEPT !.updatedAt = u] \in Ref
         /\ [r EXCEPT !.updatedAt = u].title = r.title /\ [r EXCEPT !.updatedAt = u].model = r.model
BY DEF Ref

LEMMA KnownRef ==
  ASSUME ServerInv, NEW s \in Sessions
  PROVE  /\ Known(s) <=> index[s] \in Ref
         /\ Known(s) => intended[s] \in Ref /\ intended[s].title = index[s].title
                                            /\ intended[s].model = index[s].model
         /\ ~Known(s) => index[s] = NoRef
BY RefIsNone DEF ServerInv, ServerTypes, Known, Mapped, EditsKept

-----------------------------------------------------------------------------
(* The index and its projection *)

\* What overtaking the gets of a session leaves of them.
LEMMA OvertakenGets ==
  ASSUME ServerInv, NEW s \in Sessions
  PROVE  /\ Overtaken(s) \in [Ops -> {Idle} \cup [session : Sessions, ref : Ref, alone : BOOLEAN]]
         /\ \A p \in Ops :
              \/ Overtaken(s)[p] = get[p] /\ get[p].session # s
              \/ /\ get[p] # Idle /\ get[p].session = s
                 /\ Overtaken(s)[p].session = s /\ ~Overtaken(s)[p].alone
<1>1. ASSUME NEW p \in Ops, get[p] # Idle
      PROVE  /\ get[p] \in [session : Sessions, ref : Ref, alone : BOOLEAN]
             /\ [get[p] EXCEPT !.alone = FALSE] \in [session : Sessions, ref : Ref, alone : BOOLEAN]
             /\ [get[p] EXCEPT !.alone = FALSE].session = get[p].session
             /\ [get[p] EXCEPT !.alone = FALSE].alone = FALSE
  <2>1. get[p] \in [session : Sessions, ref : Ref, alone : BOOLEAN]
    BY <1>1 DEF ServerInv, ServerTypes
  <2> QED
    BY <2>1
<1>2. Idle.session # s
  BY ListAssumption DEF Idle
<1>3. ASSUME NEW p \in Ops
      PROVE  \/ Overtaken(s)[p] = get[p] /\ get[p].session # s
             \/ get[p] # Idle /\ get[p].session = s /\ Overtaken(s)[p] = [get[p] EXCEPT !.alone = FALSE]
  BY <1>2, <1>3 DEF Overtaken
<1>4. ASSUME NEW p \in Ops
      PROVE  Overtaken(s)[p] \in {Idle} \cup [session : Sessions, ref : Ref, alone : BOOLEAN]
  BY <1>1, <1>3 DEF ServerInv, ServerTypes
<1>5. Overtaken(s) \in [Ops -> {Idle} \cup [session : Sessions, ref : Ref, alone : BOOLEAN]]
  BY <1>4 DEF Overtaken
<1> QED
  BY <1>1, <1>3, <1>5

\* A change of a ref, with its projection: the gets that have read it are overtaken.
LEMMA ChangeKeeps ==
  ASSUME ServerInv, NEW s \in Sessions, NEW ref \in Ref,
         index' = [index EXCEPT ![s] = ref], edits' \in 0..MaxEdits,
         Project(s, ref), get' = Overtaken(s), late' \subseteq Sessions,
         runtime' \in [Sessions -> Ref \cup {NoRef}],
         intended' \in [Sessions -> Ref \cup {NoRef}],
         intended'[s] \in Ref /\ intended'[s].title = ref.title /\ intended'[s].model = ref.model,
         \A q \in Sessions \ {s} : runtime'[q] = runtime[q] /\ intended'[q] = intended[q]
  PROVE  ServerInv'
<1>1. /\ index' \in [Sessions -> Ref \cup {NoRef}] /\ index'[s] = ref /\ index'[s] # NoRef
      /\ \A q \in Sessions \ {s} : index'[q] = index[q]
  BY RefIsNone DEF ServerInv, ServerTypes
<1>2. \/ row' = [row EXCEPT ![s] = ref] /\ slipped' = slipped \ {s}
      \/ row' = row /\ slipped' = slipped \cup {s}
  BY DEF Project
<1>3. row' \in [Sessions -> Ref \cup {NoRef}] /\ slipped' \subseteq Sessions
      /\ \A q \in Sessions \ {s} : row'[q] = row[q] /\ (q \in slipped' <=> q \in slipped)
  BY <1>2 DEF ServerInv, ServerTypes
<1>4. ServerTypes'
  BY <1>1, <1>3, OvertakenGets DEF ServerInv, ServerTypes
<1>5. GetsFresh'
  <2>1. ASSUME NEW p \in Ops, get'[p] # Idle
        PROVE  /\ index'[get'[p].session] # NoRef
               /\ get'[p].alone =>
                    /\ runtime'[get'[p].session] = NoRef /\ get'[p].ref = index'[get'[p].session]
                    /\ \A q \in Ops \ {p} : get'[q] # Idle => get'[q].session # get'[p].session
    <3>1. CASE get'[p] = get[p] /\ get[p].session # s
      <4>1. /\ get[p].session \in Sessions /\ Known(get[p].session)
            /\ get[p].alone =>
                 /\ runtime[get[p].session] = NoRef /\ get[p].ref = index[get[p].session]
                 /\ \A q \in Ops \ {p} : get[q] # Idle => get[q].session # get[p].session
        BY <2>1, <3>1 DEF ServerInv, ServerTypes, GetsFresh
      <4>2. ASSUME get[p].alone, NEW q \in Ops \ {p}, get'[q] # Idle
            PROVE  get'[q].session # get'[p].session
        BY <3>1, <4>1, <4>2, OvertakenGets
      <4> QED
        BY <1>1, <3>1, <4>1, <4>2 DEF Known
    <3>2. CASE get'[p].session = s /\ ~get'[p].alone
      BY <1>1, <3>2
    <3> QED
      BY <3>1, <3>2, OvertakenGets
  <2> QED
    BY <2>1 DEF GetsFresh, Known
<1>6. ASSUME NEW q \in Sessions PROVE Mapped(q)'
  BY <1>1, <1>3 DEF ServerInv, Mapped, Known
<1>7. RowsFollowIndex'
  <2>1. ASSUME NEW q \in Sessions, q \notin slipped' PROVE row'[q] = index'[q]
    <3>1. CASE q = s
      BY <1>1, <1>2, <2>1, <3>1 DEF ServerInv, ServerTypes
    <3>2. CASE q # s
      BY <1>1, <1>3, <2>1, <3>2 DEF ServerInv, RowsFollowIndex
    <3> QED
      BY <3>1, <3>2
  <2> QED
    BY <2>1 DEF RowsFollowIndex
<1>8. EditsKept'
  BY <1>1 DEF ServerInv, EditsKept, Known
<1> QED
  BY <1>4, <1>5, <1>6, <1>7, <1>8 DEF ServerInv

\* The row alone is written, or is not.
LEMMA ProjectKeeps ==
  ASSUME ServerInv, NEW s \in Sessions, Known(s), Project(s, index[s]),
         UNCHANGED <<index, runtime, late, get, intended, edits>>
  PROVE  ServerInv'
<1>1. \/ row' = [row EXCEPT ![s] = index[s]] /\ slipped' = slipped \ {s}
      \/ row' = row /\ slipped' = slipped \cup {s}
  BY DEF Project
<1>2. ServerTypes'
  BY <1>1 DEF ServerInv, ServerTypes
<1>3. GetsFresh' /\ EditsKept'
  BY DEF ServerInv, GetsFresh, EditsKept, Known
<1>4. ASSUME NEW q \in Sessions PROVE Mapped(q)'
  BY <1>1 DEF ServerInv, ServerTypes, Mapped, Known
<1>5. RowsFollowIndex'
  BY <1>1 DEF ServerInv, ServerTypes, RowsFollowIndex
<1> QED
  BY <1>2, <1>3, <1>4, <1>5 DEF ServerInv

\* Nothing of the server changes.
LEMMA ServerSame == ASSUME ServerInv, UNCHANGED <<server, edits>> PROVE ServerInv'
BY DEF server, ServerInv, ServerTypes, GetsFresh, Mapped, RowsFollowIndex, EditsKept, Known

\* applyRename, applySetModel.
LEMMA ApplyKeeps ==
  ASSUME ServerInv, NEW s \in Sessions, NEW field \in Fields, NEW v \in Values(field), Apply(s, field, v)
  PROVE  ServerInv'
<1>1. Known(s) /\ get' = Overtaken(s) /\ UNCHANGED <<runtime, late>>
  BY DEF Apply, OnRenamed, OnModelChanged
<1>2. /\ Known(s) /\ index[s] \in Ref /\ intended[s] \in Ref
      /\ intended[s].title = index[s].title /\ intended[s].model = index[s].model
  BY <1>1, KnownRef
<1>3. runtime' \in [Sessions -> Ref \cup {NoRef}] /\ \A q \in Sessions \ {s} : runtime'[q] = runtime[q]
  BY <1>1 DEF ServerInv, ServerTypes
<1>4. CASE field = "title"
  <2>1. v \in Titles /\ OnRenamed(s, v)
    BY <1>4 DEF Apply, Values
  <2>2. edits' \in 0..MaxEdits /\ Project(s, index'[s])
        /\ index' = [index EXCEPT ![s] = [[index[s] EXCEPT !.title = v] EXCEPT !.updatedAt = edits']]
    BY <2>1, ListAssumption DEF OnRenamed, Upsert, Edit, ServerInv, ServerTypes
  <2>3. PICK ref \in Ref : /\ ref = [[index[s] EXCEPT !.title = v] EXCEPT !.updatedAt = edits']
                           /\ ref.title = v /\ ref.model = index[s].model
    <3>1. v \in Titles \cup {NoTitle}
      BY <2>1
    <3>2. PICK n \in Ref : /\ n = [index[s] EXCEPT !.title = v]
                           /\ n.title = v /\ n.model = index[s].model
      BY <1>2, <3>1, Titled
    <3>3. /\ [n EXCEPT !.updatedAt = edits'] \in Ref
          /\ [n EXCEPT !.updatedAt = edits'].title = n.title
          /\ [n EXCEPT !.updatedAt = edits'].model = n.model
      BY <2>2, <3>2, Dated
    <3> QED
      BY <3>2, <3>3
  <2>4. index' = [index EXCEPT ![s] = ref] /\ Project(s, ref)
    BY <2>2, <2>3 DEF ServerInv, ServerTypes
  <2>5. intended' = [intended EXCEPT ![s] = [intended[s] EXCEPT !.title = v]]
    BY <1>4 DEF Apply
  <2>6. /\ intended' \in [Sessions -> Ref \cup {NoRef}]
        /\ intended'[s] \in Ref /\ intended'[s].title = v /\ intended'[s].model = intended[s].model
        /\ \A q \in Sessions \ {s} : intended'[q] = intended[q]
    <3>1. /\ [intended[s] EXCEPT !.title = v] \in Ref
          /\ [intended[s] EXCEPT !.title = v].title = v
          /\ [intended[s] EXCEPT !.title = v].model = intended[s].model
      BY <1>2, <2>1 DEF Ref
    <3> QED
      BY <2>5, <3>1 DEF ServerInv, ServerTypes
  <2>7. /\ intended'[s] \in Ref /\ intended'[s].title = ref.title /\ intended'[s].model = ref.model
        /\ \A q \in Sessions \ {s} : runtime'[q] = runtime[q] /\ intended'[q] = intended[q]
    BY <1>2, <1>3, <2>3, <2>6
  <2>8. /\ index' = [index EXCEPT ![s] = ref] /\ Project(s, ref)
        /\ get' = Overtaken(s) /\ late' \subseteq Sessions
    BY <1>1, <2>4 DEF ServerInv, ServerTypes
  <2> QED
    BY <1>2, <1>3, <2>2, <2>6, <2>7, <2>8, ChangeKeeps
<1>5. CASE field = "model"
  <2>1. v \in Models /\ OnModelChanged(s, v)
    BY <1>5 DEF Apply, Values
  <2>2. edits' \in 0..MaxEdits /\ Project(s, index'[s])
        /\ index' = [index EXCEPT ![s] = [[index[s] EXCEPT !.model = v] EXCEPT !.updatedAt = edits']]
    BY <2>1, ListAssumption DEF OnModelChanged, Upsert, Edit, ServerInv, ServerTypes
  <2>3. PICK ref \in Ref : /\ ref = [[index[s] EXCEPT !.model = v] EXCEPT !.updatedAt = edits']
                           /\ ref.title = index[s].title /\ ref.model = v
    <3>1. v \in Models \cup {NoModel}
      BY <2>1
    <3>2. PICK n \in Ref : /\ n = [index[s] EXCEPT !.model = v]
                           /\ n.title = index[s].title /\ n.model = v
      BY <1>2, <3>1, Modelled
    <3>3. /\ [n EXCEPT !.updatedAt = edits'] \in Ref
          /\ [n EXCEPT !.updatedAt = edits'].title = n.title
          /\ [n EXCEPT !.updatedAt = edits'].model = n.model
      BY <2>2, <3>2, Dated
    <3> QED
      BY <3>2, <3>3
  <2>4. index' = [index EXCEPT ![s] = ref] /\ Project(s, ref)
    BY <2>2, <2>3 DEF ServerInv, ServerTypes
  <2>5. intended' = [intended EXCEPT ![s] = [intended[s] EXCEPT !.model = v]]
    BY <1>5 DEF Apply
  <2>6. /\ intended' \in [Sessions -> Ref \cup {NoRef}]
        /\ intended'[s] \in Ref /\ intended'[s].model = v /\ intended'[s].title = intended[s].title
        /\ \A q \in Sessions \ {s} : intended'[q] = intended[q]
    <3>1. /\ [intended[s] EXCEPT !.model = v] \in Ref
          /\ [intended[s] EXCEPT !.model = v].model = v
          /\ [intended[s] EXCEPT !.model = v].title = intended[s].title
      BY <1>2, <2>1 DEF Ref
    <3> QED
      BY <2>5, <3>1 DEF ServerInv, ServerTypes
  <2>7. /\ intended'[s] \in Ref /\ intended'[s].title = ref.title /\ intended'[s].model = ref.model
        /\ \A q \in Sessions \ {s} : runtime'[q] = runtime[q] /\ intended'[q] = intended[q]
    BY <1>2, <1>3, <2>3, <2>6
  <2>8. /\ index' = [index EXCEPT ![s] = ref] /\ Project(s, ref)
        /\ get' = Overtaken(s) /\ late' \subseteq Sessions
    BY <1>1, <2>4 DEF ServerInv, ServerTypes
  <2> QED
    BY <1>2, <1>3, <2>2, <2>6, <2>7, <2>8, ChangeKeeps
<1> QED
  BY <1>4, <1>5 DEF Fields

LEMMA TouchedKeeps == ASSUME ServerInv, NEW s \in Sessions, Touched(s) PROVE ServerInv'
<1>1. Known(s) /\ get' = Overtaken(s) /\ UNCHANGED <<runtime, late, intended>>
  BY DEF Touched
<1>2. /\ Known(s) /\ index[s] \in Ref /\ intended[s] \in Ref
      /\ intended[s].title = index[s].title /\ intended[s].model = index[s].model
  BY <1>1, KnownRef
<1>3. edits' \in 0..MaxEdits /\ Project(s, index'[s])
      /\ index' = [index EXCEPT ![s] = [index[s] EXCEPT !.updatedAt = edits']]
  BY ListAssumption DEF Touched, Upsert, Edit, ServerInv, ServerTypes
<1>4. PICK ref \in Ref : /\ ref = [index[s] EXCEPT !.updatedAt = edits']
                         /\ ref.title = index[s].title /\ ref.model = index[s].model
  <2>1. /\ [index[s] EXCEPT !.updatedAt = edits'] \in Ref
        /\ [index[s] EXCEPT !.updatedAt = edits'].title = index[s].title
        /\ [index[s] EXCEPT !.updatedAt = edits'].model = index[s].model
    BY <1>2, <1>3, Dated
  <2> QED
    BY <2>1
<1>5. index' = [index EXCEPT ![s] = ref] /\ Project(s, ref)
  BY <1>3, <1>4 DEF ServerInv, ServerTypes
<1>6. /\ runtime' \in [Sessions -> Ref \cup {NoRef}] /\ intended' \in [Sessions -> Ref \cup {NoRef}]
      /\ \A q \in Sessions \ {s} : runtime'[q] = runtime[q] /\ intended'[q] = intended[q]
  BY <1>1 DEF ServerInv, ServerTypes
<1>7. /\ intended'[s] \in Ref /\ intended'[s].title = ref.title /\ intended'[s].model = ref.model
      /\ get' = Overtaken(s) /\ late' \subseteq Sessions
  BY <1>1, <1>2, <1>4 DEF ServerInv, ServerTypes
<1> QED
  BY <1>2, <1>3, <1>5, <1>6, <1>7, ChangeKeeps

\* registry.get reads the ref of a cold session: nobody has written it since.
LEMMA GetKeeps == ASSUME ServerInv, NEW o \in Ops, NEW s \in Sessions, Get(o, s) PROVE ServerInv'
<1> DEFINE mine == [session |-> s, ref |-> index[s], alone |-> {p \in Ops : get[p].session = s} = {}]
<1>1. /\ get[o] = Idle /\ Known(s) /\ runtime[s] = NoRef
      /\ UNCHANGED <<index, row, runtime, late, slipped, intended, edits>>
      /\ get' = [Overtaken(s) EXCEPT ![o] = mine]
  BY DEF Get
<1>2. index[s] \in Ref /\ index[s] # NoRef
  BY <1>1, KnownRef DEF Known
<1>3. /\ mine \in [session : Sessions, ref : Ref, alone : BOOLEAN]
      /\ mine.session = s /\ mine.ref = index[s]
      /\ mine.alone => \A p \in Ops : get[p].session # s
  <2>1. ({p \in Ops : get[p].session = s} = {}) \in BOOLEAN
    OBVIOUS
  <2> QED
    BY <1>2, <2>1
<1> HIDE DEF mine
<1>4. ASSUME NEW p \in Ops, p # o
      PROVE  \/ get'[p] = get[p] /\ get[p].session # s
             \/ get[p] # Idle /\ get[p].session = s /\ get'[p].session = s /\ ~get'[p].alone
  BY <1>1, <1>4, OvertakenGets
<1>5. get'[o] = mine
  BY <1>1, OvertakenGets
<1>6. get' \in [Ops -> {Idle} \cup [session : Sessions, ref : Ref, alone : BOOLEAN]]
  BY <1>1, <1>3, OvertakenGets
<1>7. ServerTypes'
  BY <1>1, <1>6 DEF ServerInv, ServerTypes
<1>8. ASSUME NEW p \in Ops, get'[p] # Idle
       PROVE  /\ index'[get'[p].session] # NoRef
              /\ get'[p].alone =>
                   /\ runtime'[get'[p].session] = NoRef /\ get'[p].ref = index'[get'[p].session]
                   /\ \A q \in Ops \ {p} : get'[q] # Idle => get'[q].session # get'[p].session
  <2>1. CASE p = o
    <3>1. index'[get'[p].session] # NoRef
      BY <1>1, <1>3, <1>5, <2>1 DEF Known
    <3>2. ASSUME get'[p].alone
          PROVE  /\ runtime'[get'[p].session] = NoRef /\ get'[p].ref = index'[get'[p].session]
                 /\ \A q \in Ops \ {p} : get'[q] # Idle => get'[q].session # get'[p].session
      <4>1. \A q \in Ops : get[q].session # s
        BY <1>3, <1>5, <2>1, <3>2
      <4>2. \A q \in Ops \ {p} : get'[q] = get[q]
        BY <1>4, <2>1, <4>1
      <4> QED
        BY <1>1, <1>3, <1>5, <2>1, <4>1, <4>2
    <3> QED
      BY <3>1, <3>2
  <2>2. CASE p # o /\ get'[p] = get[p] /\ get[p].session # s
    <3>1. /\ Known(get[p].session)
          /\ get[p].alone =>
               /\ runtime[get[p].session] = NoRef /\ get[p].ref = index[get[p].session]
               /\ \A q \in Ops \ {p} : get[q] # Idle => get[q].session # get[p].session
      BY <1>8, <2>2 DEF ServerInv, GetsFresh
    <3>2. ASSUME NEW q \in Ops \ {p}, get'[q] # Idle, get[p].alone PROVE get'[q].session # get'[p].session
      <4>1. CASE q = o
        BY <1>3, <1>5, <2>2, <4>1
      <4>2. CASE q # o
        <5>1. get[q] # Idle => get[q].session # get[p].session
          BY <3>1, <3>2
        <5> QED
          BY <1>4, <2>2, <3>2, <4>2, <5>1
      <4> QED
        BY <4>1, <4>2
    <3> QED
      BY <1>1, <2>2, <3>1, <3>2 DEF Known
  <2>3. CASE get'[p].session = s /\ ~get'[p].alone
    BY <1>1, <2>3 DEF Known
  <2> QED
    BY <1>4, <2>1, <2>2, <2>3
<1>9. GetsFresh'
  BY <1>8 DEF GetsFresh, Known
<1>10. RowsFollowIndex' /\ EditsKept' /\ \A q \in Sessions : Mapped(q)'
  BY <1>1 DEF ServerInv, RowsFollowIndex, EditsKept, Mapped, Known
<1> QED
  BY <1>7, <1>9, <1>10 DEF ServerInv

\* #instantiate: the row of a get that was alone is the index's.
LEMMA InstantiateKeeps == ASSUME ServerInv, NEW o \in Ops, Instantiate(o) PROVE ServerInv'
<1>1. PICK s : s = get[o].session
  OBVIOUS
<1>2. /\ get[o] # Idle /\ s \in Sessions /\ get[o].ref \in Ref /\ get[o].alone \in BOOLEAN /\ Known(s)
      /\ get[o].alone => /\ get[o].ref = index[s]
                         /\ \A p \in Ops \ {o} : get[p] # Idle => get[p].session # s
  BY <1>1 DEF Instantiate, ServerInv, ServerTypes, GetsFresh
<1>3. /\ \/ /\ row' = [row EXCEPT ![s] = get[o].ref]
            /\ slipped' = IF get[o].alone THEN slipped \ {s} ELSE slipped \cup {s}
         \/ row' = row /\ slipped' = slipped \cup {s}
      /\ runtime' = [runtime EXCEPT ![s] = get[o].ref]
      /\ get' = [get EXCEPT ![o] = Idle]
      /\ UNCHANGED <<index, late, intended, edits>>
  BY <1>1 DEF Instantiate
<1>4. /\ row' \in [Sessions -> Ref \cup {NoRef}] /\ slipped' \subseteq Sessions
      /\ \A q \in Sessions \ {s} : row'[q] = row[q] /\ (q \in slipped' <=> q \in slipped)
      /\ s \notin slipped' => row'[s] = index[s]
  BY <1>2, <1>3 DEF ServerInv, ServerTypes
<1>5. runtime' \in [Sessions -> Ref \cup {NoRef}] /\ \A q \in Sessions \ {s} : runtime'[q] = runtime[q]
  BY <1>2, <1>3 DEF ServerInv, ServerTypes
<1>6. /\ get' \in [Ops -> {Idle} \cup [session : Sessions, ref : Ref, alone : BOOLEAN]]
      /\ get'[o] = Idle /\ \A p \in Ops \ {o} : get'[p] = get[p]
  BY <1>3 DEF ServerInv, ServerTypes
<1>7. ServerTypes'
  BY <1>3, <1>4, <1>5, <1>6 DEF ServerInv, ServerTypes
<1>8. GetsFresh'
  <2>1. ASSUME NEW p \in Ops \ {o}, get[p] # Idle
        PROVE  /\ Known(get[p].session)
               /\ get[p].alone =>
                    /\ runtime'[get[p].session] = NoRef /\ get[p].ref = index[get[p].session]
                    /\ \A q \in Ops \ {p} : get[q] # Idle => get[q].session # get[p].session
    <3>1. /\ Known(get[p].session) /\ get[p].session \in Sessions
          /\ get[p].alone =>
               /\ runtime[get[p].session] = NoRef /\ get[p].ref = index[get[p].session]
               /\ \A q \in Ops \ {p} : get[q] # Idle => get[q].session # get[p].session
      BY <2>1 DEF ServerInv, ServerTypes, GetsFresh
    <3>2. get[p].alone => get[p].session # s
      BY <1>1, <1>2, <3>1
    <3> QED
      BY <1>5, <3>1, <3>2
  <2> QED
    BY <1>3, <1>6, <2>1 DEF GetsFresh, Known
<1>9. \A q \in Sessions : Mapped(q)'
  BY <1>2, <1>3, <1>4, <1>5 DEF ServerInv, Mapped, Known
<1>10. RowsFollowIndex'
  BY <1>3, <1>4 DEF ServerInv, RowsFollowIndex
<1>11. EditsKept'
  BY <1>3 DEF ServerInv, EditsKept, Known
<1> QED
  BY <1>7, <1>8, <1>9, <1>10, <1>11 DEF ServerInv

LEMMA EvictKeeps == ASSUME ServerInv, NEW s \in Sessions, Evict(s) PROVE ServerInv'
<1>1. /\ runtime' = [runtime EXCEPT ![s] = NoRef] /\ late' = late \cup {s}
      /\ UNCHANGED <<index, row, get, slipped, intended, edits>>
  BY DEF Evict
<1>2. \A q \in Sessions : runtime'[q] = runtime[q] \/ runtime'[q] = NoRef
  BY <1>1 DEF ServerInv, ServerTypes
<1>3. ServerTypes'
  BY <1>1 DEF ServerInv, ServerTypes
<1>4. GetsFresh'
  BY <1>1, <1>2 DEF ServerInv, ServerTypes, GetsFresh, Known
<1>5. RowsFollowIndex' /\ EditsKept' /\ \A q \in Sessions : Mapped(q)'
  BY <1>1, <1>2 DEF ServerInv, RowsFollowIndex, EditsKept, Mapped, Known
<1> QED
  BY <1>3, <1>4, <1>5 DEF ServerInv

\* A restart of either side.
LEMMA RestartsKeep == ASSUME ServerInv, Boot \/ SyncServerRestarts PROVE ServerInv'
<1>1. CASE Boot
  <2>1. /\ runtime' = [s \in Sessions |-> NoRef] /\ late' = {} /\ get' = [o \in Ops |-> Idle]
        /\ row' = [s \in Sessions |-> IF Known(s) THEN index[s] ELSE row[s]] /\ slipped' = {}
        /\ UNCHANGED <<index, intended, edits>>
    BY <1>1 DEF Boot
  <2>2. ServerTypes' /\ GetsFresh'
    BY <2>1 DEF ServerInv, ServerTypes, GetsFresh
  <2>3. RowsFollowIndex'
    <3>1. ASSUME NEW s \in Sessions PROVE row'[s] = index[s]
      BY <2>1, KnownRef DEF ServerInv, Mapped
    <3> QED
      BY <2>1, <3>1 DEF RowsFollowIndex
  <2>4. EditsKept' /\ \A s \in Sessions : Mapped(s)'
    BY <2>1 DEF ServerInv, EditsKept, Mapped, Known
  <2> QED
    BY <2>2, <2>3, <2>4 DEF ServerInv
<1>2. CASE SyncServerRestarts
  <2>1. /\ row' = [s \in Sessions |-> NoRef] /\ slipped' = {s \in Sessions : Known(s)}
        /\ UNCHANGED <<index, runtime, late, get, intended, edits>>
    BY <1>2 DEF SyncServerRestarts
  <2>2. ServerTypes' /\ GetsFresh'
    BY <2>1 DEF ServerInv, ServerTypes, GetsFresh, Known
  <2>3. RowsFollowIndex'
    BY <2>1 DEF RowsFollowIndex, Known
  <2>4. EditsKept' /\ \A s \in Sessions : Mapped(s)'
    BY <2>1 DEF ServerInv, EditsKept, Mapped, Known
  <2> QED
    BY <2>2, <2>3, <2>4 DEF ServerInv
<1> QED
  BY <1>1, <1>2

\* createConversation: the session is new, so that no get can know of it.
LEMMA CreatedKeeps ==
  ASSUME ServerInv, ClientInv, NEW c \in Calls, ServeCreate(c)
  PROVE  ServerInv'
<1>1. call[c] # Free /\ call[c].value \in Titles /\ UNCHANGED <<late, get>>
  BY DEF ServeCreate, Sent, ClientInv, Calling, Addressed
<1>2. PICK s \in Sessions :
        /\ ~Known(s) /\ Upsert(s, [title |-> call[c].value, model |-> NoModel, updatedAt |-> 0])
        /\ Project(s, index'[s])
        /\ intended' = [intended EXCEPT ![s] = index'[s]]
        /\ runtime' = [runtime EXCEPT ![s] = index'[s]]
  BY DEF ServeCreate
<1>3. edits' \in 0..MaxEdits
  BY <1>2, ListAssumption DEF Upsert, Edit, ServerInv, ServerTypes
<1>4. PICK ref \in Ref :
        ref = [[title |-> call[c].value, model |-> NoModel, updatedAt |-> 0] EXCEPT !.updatedAt = edits']
  <2>1. [title |-> call[c].value, model |-> NoModel, updatedAt |-> 0] \in Ref
    BY <1>1, ListAssumption DEF Ref
  <2>2. [[title |-> call[c].value, model |-> NoModel, updatedAt |-> 0] EXCEPT !.updatedAt = edits'] \in Ref
    BY <1>3, <2>1, Dated
  <2> QED
    BY <2>2
<1>5. index' = [index EXCEPT ![s] = ref] /\ index'[s] = ref
  BY <1>2, <1>4 DEF Upsert, ServerInv, ServerTypes
<1>6. Project(s, ref)
  BY <1>2, <1>5
<1>7. get' = Overtaken(s) /\ late' \subseteq Sessions
  <2>1. \A o \in Ops : Overtaken(s)[o] = get[o]
    BY <1>2, OvertakenGets DEF ServerInv, GetsFresh
  <2>2. Overtaken(s) = get
    BY <2>1, OvertakenGets DEF ServerInv, ServerTypes
  <2> QED
    BY <1>1, <2>2 DEF ServerInv, ServerTypes
<1>8. /\ runtime' \in [Sessions -> Ref \cup {NoRef}] /\ intended' \in [Sessions -> Ref \cup {NoRef}]
      /\ intended'[s] \in Ref /\ intended'[s].title = ref.title /\ intended'[s].model = ref.model
      /\ \A q \in Sessions \ {s} : runtime'[q] = runtime[q] /\ intended'[q] = intended[q]
  BY <1>2, <1>5 DEF ServerInv, ServerTypes
<1> QED
  BY <1>1, <1>3, <1>5, <1>6, <1>7, <1>8, ChangeKeeps

-----------------------------------------------------------------------------
(* The calls *)

LEMMA CallSet ==
  ASSUME Calling, NEW c \in Calls, NEW x \in Call \cup {Free}, x # Free => Addressed(x),
         call' = [call EXCEPT ![c] = x]
  PROVE  Calling'
BY DEF Calling

\* A call of which one field is changed.
LEMMA CallAt ==
  ASSUME NEW x \in Call, NEW at \in {"sent", "answered", "refused", "failed"}
  PROVE  /\ [x EXCEPT !.at = at] \in Call /\ [x EXCEPT !.at = at].at = at
         /\ [x EXCEPT !.at = at].kind = x.kind /\ [x EXCEPT !.at = at].session = x.session
         /\ [x EXCEPT !.at = at].field = x.field /\ [x EXCEPT !.at = at].value = x.value
BY DEF Call

LEMMA CallListed ==
  ASSUME NEW x \in Call, NEW l \in SUBSET Sessions
  PROVE  [x EXCEPT !.listed = l] \in Call /\ [x EXCEPT !.listed = l].kind = x.kind
BY DEF Call

LEMMA CallOf ==
  ASSUME NEW x \in Call, NEW s \in Sessions
  PROVE  /\ [x EXCEPT !.session = s] \in Call /\ [x EXCEPT !.session = s].session = s
         /\ [x EXCEPT !.session = s].kind = x.kind /\ [x EXCEPT !.session = s].value = x.value
BY DEF Call

LEMMA CallAsks ==
  ASSUME NEW x \in Call
  PROVE  /\ [x EXCEPT !.kind = "projection"] \in Call
         /\ [x EXCEPT !.kind = "projection"].kind = "projection"
         /\ [x EXCEPT !.kind = "projection"].session = x.session
BY DEF Call

LEMMA SendKeeps ==
  ASSUME Calling, NEW c \in Calls, NEW kind \in {"list", "create", "command", "projection"},
         NEW s \in Sessions \cup {NoSession}, NEW field \in Fields \cup {"none"},
         NEW v \in Titles \cup Models \cup {"none"}, Send(c, kind, s, field, v),
         kind = "command" => s \in Sessions /\ field \in Fields /\ v \in Values(field),
         kind = "projection" => s \in Sessions,
         kind = "create" => v \in Titles
  PROVE  Calling'
<1> DEFINE x == [kind |-> kind, at |-> "sent", session |-> s, field |-> field, value |-> v, listed |-> {}]
<1>1. x \in Call /\ Addressed(x)
  <2>1. /\ x.kind = kind /\ x.at = "sent" /\ x.session = s /\ x.field = field /\ x.value = v
        /\ x \in Call
    BY DEF Call
  <2> HIDE DEF x
  <2> QED
    BY <2>1 DEF Addressed
<1>2. call' = [call EXCEPT ![c] = x]
  BY DEF Send
<1> HIDE DEF x
<1> QED
  BY <1>1, <1>2, CallSet

\* The tab sends a call.
LEMMA CallsSent ==
  ASSUME ClientInv, NEW c \in Calls,
         \/ LoadSessions(c) \/ CreateSession(c)
         \/ \E s \in Sessions :
              \/ Select(c, s)
              \/ \E m \in Models : SetModel(c, s, m)
              \/ \E t \in Titles : Rename(c, s, t)
  PROVE  ClientInv' /\ UNCHANGED <<server, edits>>
<1>1. UNCHANGED <<server, edits, list, sound>> /\ active' \in {active} \cup Sessions
  BY DEF LoadSessions, CreateSession, Select, SetModel, Rename, Command
<1>2. Calling'
  <2>1. CASE LoadSessions(c)
    BY <2>1, SendKeeps DEF LoadSessions, ClientInv
  <2>2. CASE CreateSession(c)
    <3>1. PICK t \in Titles : Send(c, "create", NoSession, "title", t)
      BY <2>2 DEF CreateSession
    <3> QED
      BY <3>1, SendKeeps DEF ClientInv, Fields
  <2>3. ASSUME NEW s \in Sessions, Select(c, s) PROVE Calling'
    BY <2>3, SendKeeps DEF Select, ClientInv
  <2>4. ASSUME NEW s \in Sessions, NEW m \in Models, SetModel(c, s, m) PROVE Calling'
    BY <2>4, SendKeeps DEF SetModel, Command, ClientInv, Fields, Values
  <2>5. ASSUME NEW s \in Sessions, NEW t \in Titles, Rename(c, s, t) PROVE Calling'
    BY <2>5, SendKeeps DEF Rename, Command, ClientInv, Fields, Values
  <2> QED
    BY <2>1, <2>2, <2>3, <2>4, <2>5
<1> QED
  BY <1>1, <1>2 DEF ClientInv

\* What is known of a call that is under way.
LEMMA UnderWay ==
  ASSUME ClientInv, NEW c \in Calls, call[c] # Free
  PROVE  call[c] \in Call /\ Addressed(call[c])
BY DEF ClientInv, Calling

\* The server answers a call, whatever that does to the rows.
LEMMA CallsServed ==
  ASSUME ClientInv, NEW c \in Calls, Serves(c) \/ Reject(c)
  PROVE  ClientInv'
<1>1. call[c] # Free /\ UNCHANGED <<list, sound, active>>
  BY DEF Serves, ServeList, ServeCreate, ServeCommand, ServeProjection, Reject, Sent
<1>2. call[c] \in Call /\ Addressed(call[c])
  BY <1>1, UnderWay
<1>3. Calling'
  <2>1. CASE ServeList(c)
    <3> DEFINE l == {s \in Sessions : Known(s)}
               z == [call[c] EXCEPT !.at = "answered"]
               y == [z EXCEPT !.listed = l]
    <3>1. z \in Call /\ z.kind = "list"
      BY <1>2, <2>1, CallAt DEF ServeList, Sent
    <3>3. call' = [call EXCEPT ![c] = y]
      BY <2>1 DEF ServeList, ClientInv, Calling
    <3> HIDE DEF z
    <3>0. l \in SUBSET Sessions
      OBVIOUS
    <3> HIDE DEF l
    <3>2. y \in Call /\ y.kind = "list"
      BY <3>0, <3>1, CallListed
    <3> HIDE DEF y
    <3>4. Addressed(y)
      BY <3>2 DEF Addressed
    <3> QED
      BY <3>2, <3>3, <3>4, CallSet DEF ClientInv
  <2>2. CASE ServeCreate(c)
    <3>1. PICK s \in Sessions : call' = [call EXCEPT ![c].at = "answered", ![c].session = s]
      BY <2>2 DEF ServeCreate
    <3> DEFINE z == [call[c] EXCEPT !.at = "answered"]
               y == [z EXCEPT !.session = s]
    <3>2. z \in Call /\ z.kind = "create" /\ z.value \in Titles
      BY <1>2, <2>2, CallAt DEF ServeCreate, Sent, Addressed
    <3>4. call' = [call EXCEPT ![c] = y]
      BY <3>1 DEF ClientInv, Calling
    <3> HIDE DEF z
    <3>3. y \in Call /\ y.kind = "create" /\ y.session = s /\ y.value \in Titles
      BY <3>2, CallOf
    <3> HIDE DEF y
    <3>5. Addressed(y)
      BY <3>3 DEF Addressed
    <3> QED
      BY <3>3, <3>4, <3>5, CallSet DEF ClientInv
  <2>3. CASE ServeCommand(c) \/ Reject(c)
    <3>1. PICK at \in {"answered", "refused"} :
            /\ call' = [call EXCEPT ![c].at = at]
            /\ call[c].kind = "create" => at = "refused"
      BY <2>3 DEF ServeCommand, Reject, Answered, Sent
    <3> DEFINE y == [call[c] EXCEPT !.at = at]
    <3>2. at \in {"sent", "answered", "refused", "failed"}
      BY <3>1
    <3>3. /\ y \in Call /\ y.kind = call[c].kind /\ y.at = at /\ y.session = call[c].session
          /\ y.field = call[c].field /\ y.value = call[c].value
      BY <1>2, <3>2, CallAt
    <3>4. call' = [call EXCEPT ![c] = y]
      BY <3>1 DEF ClientInv, Calling
    <3> HIDE DEF y
    <3>5. Addressed(y)
      BY <1>2, <3>1, <3>3 DEF Addressed
    <3> QED
      BY <3>3, <3>4, <3>5, CallSet DEF ClientInv
  <2>4. CASE ServeProjection(c)
    BY <2>4, CallSet DEF ServeProjection, ClientInv
  <2> QED
    BY <2>1, <2>2, <2>3, <2>4 DEF Serves
<1> QED
  BY <1>1, <1>3 DEF ClientInv

\* An answer arrives in the tab.
LEMMA CallsLand ==
  ASSUME ClientInv, NEW c \in Calls, Lands(c)
  PROVE  ClientInv' /\ UNCHANGED <<server, edits>>
<1>1. UNCHANGED <<server, edits>> /\ sound' \in {sound, "list", "holed", "undefined"} /\ call[c] # Free
  BY DEF Lands, ListLands, CreateLands, CommandLands, CallLost, Landed
<1>2. call[c] \in Call /\ Addressed(call[c])
  BY <1>1, UnderWay
<1>3. /\ list' \in {list, {}, call[c].listed} \/ (list' = list \cup {call[c].session} /\ call[c].session \in Sessions)
      /\ active' = active \/ (active' = call[c].session /\ call[c].session \in Sessions)
  BY <1>2 DEF Lands, ListLands, CreateLands, CommandLands, CallLost, Addressed
<1>4. Calling'
  <2>1. CASE call' = [call EXCEPT ![c] = Free]
    BY <2>1, CallSet DEF ClientInv
  <2>2. CASE /\ call[c].kind = "create" /\ call[c].at = "answered"
             /\ call' = [call EXCEPT ![c] = [call[c] EXCEPT !.kind = "projection", !.at = "sent"]]
    <3> DEFINE z == [call[c] EXCEPT !.kind = "projection"]
               y == [z EXCEPT !.at = "sent"]
    <3>1. z \in Call /\ z.kind = "projection" /\ z.session = call[c].session
      BY <1>2, CallAsks
    <3>3. call' = [call EXCEPT ![c] = y]
      BY <2>2
    <3> HIDE DEF z
    <3>2. y \in Call /\ y.kind = "projection" /\ y.session = call[c].session
      BY <3>1, CallAt
    <3> HIDE DEF y
    <3>4. Addressed(y)
      BY <1>2, <2>2, <3>2 DEF Addressed
    <3> QED
      BY <3>2, <3>3, <3>4, CallSet DEF ClientInv
  <2> QED
    BY <2>1, <2>2 DEF Lands, ListLands, CreateLands, CommandLands, CallLost, Landed
<1>5. call[c].listed \subseteq Sessions
  BY <1>2 DEF Call
<1>6. list' \subseteq Sessions /\ active' \in Sessions \cup {NoSession}
      /\ sound' \in {"list", "holed", "undefined"}
  BY <1>1, <1>3, <1>5 DEF ClientInv
<1> QED
  BY <1>1, <1>4, <1>6 DEF ClientInv

\* The process dies: calls under way fail.
LEMMA BootFailsCalls == ASSUME ClientInv, Boot PROVE ClientInv'
<1>1. /\ UNCHANGED <<list, sound, active>>
      /\ call' = [c \in Calls |-> IF call[c] = Free \/ call[c].at = "answered" THEN call[c]
                                  ELSE [call[c] EXCEPT !.at = "failed"]]
  BY DEF Boot
<1>2. ASSUME NEW c \in Calls
      PROVE  call'[c] \in Call \cup {Free} /\ (call'[c] # Free => Addressed(call'[c]))
  <2>1. CASE call[c] = Free \/ call[c].at = "answered"
    BY <1>1, <2>1 DEF ClientInv, Calling
  <2>2. CASE call[c] # Free /\ call[c].at # "answered"
    <3>1. call[c] \in Call /\ Addressed(call[c])
      BY <2>2, UnderWay
    <3> DEFINE y == [call[c] EXCEPT !.at = "failed"]
    <3>2. call'[c] = y
      BY <1>1, <2>2
    <3>3. /\ y \in Call /\ y.kind = call[c].kind /\ y.at = "failed" /\ y.session = call[c].session
          /\ y.field = call[c].field /\ y.value = call[c].value
      BY <3>1, CallAt
    <3> HIDE DEF y
    <3>4. Addressed(y)
      BY <3>1, <3>3 DEF Addressed
    <3> QED
      BY <3>2, <3>3, <3>4
  <2> QED
    BY <2>1, <2>2
<1>3. Calling'
  BY <1>1, <1>2 DEF Calling
<1> QED
  BY <1>1, <1>3 DEF ClientInv

LEMMA ServesKeep == ASSUME ListInv, NEW c \in Calls, Serves(c) \/ Reject(c) PROVE ServerInv'
<1>1. CASE ServeCreate(c)
  BY <1>1, CreatedKeeps DEF ListInv
<1>2. CASE ServeCommand(c)
  <2>1. call[c] # Free /\ call[c].kind = "command" /\ Apply(call[c].session, call[c].field, call[c].value)
    BY <1>2 DEF ServeCommand, Sent
  <2>2. call[c].session \in Sessions /\ call[c].field \in Fields /\ call[c].value \in Values(call[c].field)
    BY <2>1, UnderWay DEF ListInv, Addressed
  <2> QED
    BY <2>1, <2>2, ApplyKeeps DEF ListInv
<1>3. CASE ServeProjection(c)
  <2>1. /\ call[c] # Free /\ call[c].kind = "projection" /\ EnsureProjected(call[c].session)
        /\ UNCHANGED <<index, runtime, late, get, intended, edits>>
    BY <1>3 DEF ServeProjection, Sent
  <2>2. call[c].session \in Sessions
    BY <2>1, UnderWay DEF ListInv, Addressed
  <2> QED
    BY <2>1, <2>2, ProjectKeeps DEF ListInv, EnsureProjected
<1>4. CASE ServeList(c) \/ Reject(c)
  BY <1>4, ServerSame DEF ServeList, Reject, ListInv
<1> QED
  BY <1>1, <1>2, <1>3, <1>4 DEF Serves

-----------------------------------------------------------------------------
(* The theorems *)

\* The list of conversations: rows, gets and calls, under any edits, restarts
\* and faults.
THEOREM ListInductive == Spec => []ListInv
<1>1. Init => ListInv
  <2> SUFFICES ASSUME Init PROVE ListInv
    OBVIOUS
  <2>1. [title |-> NoTitle, model |-> NoModel, updatedAt |-> 0] \in Ref
    BY ListAssumption DEF Ref
  <2>2. ServerTypes
    BY <2>1, ListAssumption DEF Init, ServerTypes
  <2>3. GetsFresh
    BY DEF Init, GetsFresh
  <2>4. RowsFollowIndex /\ EditsKept
    BY DEF Init, RowsFollowIndex, EditsKept
  <2>5. ASSUME NEW s \in Sessions PROVE Mapped(s)
    BY <2>1 DEF Init, Mapped, Known
  <2>6. ClientInv
    BY DEF Init, ClientInv, Calling
  <2> QED
    BY <2>2, <2>3, <2>4, <2>5, <2>6 DEF ListInv, ServerInv
<1>2. ListInv /\ [Next]_vars => ListInv'
  <2> SUFFICES ASSUME ListInv, [Next]_vars PROVE ListInv'
    OBVIOUS
  <2>1. ASSUME ServerInv', UNCHANGED tab PROVE ListInv'
    BY <2>1 DEF ListInv, ClientInv, Calling, tab
  <2>2. ASSUME NEW s \in Sessions, NEW field \in Fields, NEW v \in Values(field), Elsewhere(s, field, v)
        PROVE  ListInv'
    BY <2>1, <2>2, ApplyKeeps DEF Elsewhere, ListInv
  <2>3. ASSUME NEW s \in Sessions, Touched(s) PROVE ListInv'
    BY <2>1, <2>3, TouchedKeeps DEF Touched, ListInv
  <2>4. ASSUME NEW s \in Sessions, Evict(s) PROVE ListInv'
    BY <2>1, <2>4, EvictKeeps DEF Evict, ListInv
  <2>5. ASSUME NEW s \in Sessions, NEW o \in Ops, Get(o, s) PROVE ListInv'
    BY <2>1, <2>5, GetKeeps DEF Get, ListInv
  <2>6. ASSUME NEW o \in Ops, Instantiate(o) PROVE ListInv'
    BY <2>1, <2>6, InstantiateKeeps DEF Instantiate, ListInv
  <2>7. CASE Boot
    BY <2>7, RestartsKeep, BootFailsCalls DEF ListInv
  <2>8. CASE SyncServerRestarts
    BY <2>1, <2>8, RestartsKeep DEF SyncServerRestarts, ListInv
  <2>9. ASSUME NEW c \in Calls,
               \/ LoadSessions(c) \/ CreateSession(c)
               \/ \E s \in Sessions :
                    \/ Select(c, s)
                    \/ \E m \in Models : SetModel(c, s, m)
                    \/ \E t \in Titles : Rename(c, s, t)
        PROVE  ListInv'
    BY <2>9, CallsSent, ServerSame DEF ListInv
  <2>10. ASSUME NEW c \in Calls, Serves(c) \/ Reject(c) PROVE ListInv'
    BY <2>10, ServesKeep, CallsServed DEF ListInv
  <2>11. ASSUME NEW c \in Calls, Lands(c) PROVE ListInv'
    BY <2>11, CallsLand, ServerSame DEF ListInv
  <2>12. CASE UNCHANGED vars
    BY <2>1, <2>12, ServerSame DEF vars, ListInv
  <2> QED
    BY <2>2, <2>3, <2>4, <2>5, <2>6, <2>7, <2>8, <2>9, <2>10, <2>11, <2>12 DEF Next
<1> QED
  BY <1>1, <1>2, PTL DEF Spec

\* The type invariant of the list, for any number of sessions, gets and calls.
THEOREM ListTypeCorrect == Spec => []TypeOK
<1>1. ListInv => TypeOK
  BY DEF ListInv, ServerInv, ServerTypes, ClientInv, Calling, TypeOK
<1> QED
  BY <1>1, ListInductive, PTL

\* onRenamed, onModelChanged, the touch sink, get, ensureProjected and boot:
\* what the browser renders of a session is what the index says, unless its row
\* got lost, was not written, or was projected by overlapping gets.
THEOREM RowsFollow == Spec => []RowsFollowIndex
<1>1. ListInv => RowsFollowIndex
  BY DEF ListInv, ServerInv
<1> QED
  BY <1>1, ListInductive, PTL

\* Each writer of a ref reads the row as it is now: no rename or model change
\* that was accepted is undone by another, by an entry or by a rebuild.
THEOREM EditsAreKept == Spec => []EditsKept
<1>1. ListInv => EditsKept
  BY DEF ListInv, ServerInv
<1> QED
  BY <1>1, ListInductive, PTL
=============================================================================
