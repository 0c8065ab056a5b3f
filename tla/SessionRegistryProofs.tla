----------------------- MODULE SessionRegistryProofs -----------------------
(***************************************************************************)
(* What the registry keeps of its map of live runtimes, for any number of  *)
(* sessions, models, runtimes and overlapping requests.  NoNesting and     *)
(* CreatedHasOneWriter hold through every overlap; SingleWriter, ModelKept *)
(* and Usable while one request follows another (OneAtATime).  They are    *)
(* not inductive: what a suspended request has read must still be true     *)
(* when it goes on, which RequestsLinked and Alone say.                    *)
(***************************************************************************)
EXTENDS SessionRegistry, SequenceTheorems, FiniteSetTheorems, TLAPS

HasParent(ref) ==
  ref.kind = "subagent" => /\ ref.parent \in Sessions /\ Known(ref.parent)
                           /\ index[ref.parent].kind = "conversation"

\* A session's row exists before its runtime does; kinds decide who delegates.
RefsLinked ==
  /\ \A r \in DOMAIN runtimes, s \in Sessions : runtimes[r].session = s =>
       Known(s) /\ (runtimes[r].delegates <=> index[s].kind = "conversation")
  /\ \A s \in Sessions : Known(s) => HasParent(index[s])

\* What a suspended request will act on.
RequestLinked(o) ==
  /\ op[o].kind \in {"get", "evict"} => Known(op[o].session)
  /\ op[o].kind = "get" => op[o].ref.kind = index[op[o].session].kind
  /\ op[o].kind = "create" =>
       /\ ~Known(op[o].session)
       /\ HasParent(op[o].ref)
       /\ \A p \in Ops \ {o} : op[p] # Idle => op[p].session # op[o].session
  /\ op[o].kind = "evict" =>
       op[o].runtime \in DOMAIN runtimes /\ runtimes[op[o].runtime].session = op[o].session
RequestsLinked == \A o \in Ops : op[o] # Idle => RequestLinked(o)

LiveLinked == \A s \in Sessions : live[s] # 0 => runtimes[live[s]].session = s

\* Only a chilled session is ever rebuilt.
NeverCold ==
  \A s \in Sessions \ chilled :
    /\ \A r \in DOMAIN runtimes : runtimes[r].session = s => r = live[s]
    /\ Known(s) => live[s] # 0
    /\ \A o \in Ops : op[o] # Idle /\ op[o].session = s => op[o].kind # "get"

\* While requests do not overlap, the runtime in the map is the only one that
\* can write, and only its own eviction makes it unusable.
Alone ==
  ~overlapped =>
    /\ \A o, p \in Ops : op[o] # Idle /\ op[p] # Idle => o = p
    /\ \A r \in DOMAIN runtimes : runtimes[r].state # "disposed" =>
         live[runtimes[r].session] = r /\ Agrees(r)
    /\ \A s \in Sessions : live[s] # 0 =>
         \/ runtimes[live[s]].state = "attached"
         \/ \E o \in Ops : op[o] # Idle /\ op[o].kind = "evict" /\ op[o].session = s
    /\ \A o \in Ops : op[o] # Idle /\ op[o].kind = "get" =>
         /\ live[op[o].session] = 0
         /\ op[o].ref = index[op[o].session] \/ op[o].session \in late
    /\ \A o \in Ops : op[o] # Idle /\ op[o].kind = "evict" =>
         op[o].runtime = live[op[o].session]

\* What is to be written is what the driver has.
ChosenIsModel ==
  \A r \in DOMAIN runtimes : runtimes[r].chosen # NoModel => runtimes[r].chosen = runtimes[r].model

RegInv ==
  TypeOK /\ RefsLinked /\ RequestsLinked /\ LiveLinked /\ NeverCold /\ Alone /\ ChosenIsModel

-----------------------------------------------------------------------------
(* Types *)

LEMMA RefType ==
  ASSUME TypeOK, NEW s \in Sessions, Known(s)
  PROVE  /\ index[s] \in Ref
         /\ index[s].kind \in Kinds /\ index[s].model \in Models
BY DEF TypeOK, Known, Ref

LEMMA OpType ==
  ASSUME TypeOK, NEW o \in Ops, op[o] # Idle
  PROVE  /\ op[o] \in Busy
         /\ op[o].session \in Sessions /\ op[o].ref \in Ref
         /\ op[o].kind \in {"get", "create", "evict"}
         /\ op[o].ref.model \in Models /\ op[o].ref.kind \in Kinds
         /\ op[o].ref.restricted \in BOOLEAN
BY DEF TypeOK, Busy, Ref

LEMMA RuntimeType ==
  ASSUME TypeOK, NEW r \in DOMAIN runtimes
  PROVE  /\ runtimes[r] \in Runtime /\ r \in 1 .. Len(runtimes)
         /\ runtimes[r].session \in Sessions /\ runtimes[r].model \in Models
         /\ runtimes[r].delegates \in BOOLEAN /\ runtimes[r].chosen \in Models \cup {NoModel}
<1>1. r \in 1 .. Len(runtimes) /\ runtimes \in Seq(Runtime)
  BY DEF TypeOK
<1>2. runtimes[r] \in Runtime
  BY <1>1, ElementOfSeq
<1> QED
  BY <1>1, <1>2 DEF Runtime

\* A request that is not idle; a row is not absent.
LEMMA Distinct ==
  /\ \A b \in Busy : b # Idle
  /\ \A f \in Ref : f # NoRef
BY DEF Busy, Idle, Ref, NoRef, Kinds

LEMMA LiveKnown ==
  ASSUME RegInv, NEW s \in Sessions, live[s] # 0
  PROVE  /\ live[s] \in DOMAIN runtimes /\ runtimes[live[s]].session = s /\ Known(s)
<1>1. live[s] \in 1 .. Len(runtimes) /\ DOMAIN runtimes = 1 .. Len(runtimes)
  BY DEF RegInv, TypeOK
<1> QED
  BY <1>1 DEF RegInv, LiveLinked, RefsLinked

-----------------------------------------------------------------------------
(* Beginnings *)

\* A get of a cold session, a creation or a spawn starts to wait.
LEMMA WaitKeeps ==
  ASSUME RegInv, NEW o \in Ops, op[o] = Idle, Begun, UNCHANGED <<index, memory, got, changes>>,
         late' = IF op'[o].kind = "get" THEN late \ {op'[o].session} ELSE late,
         op' = [op EXCEPT ![o] = op'[o]], op'[o] \in Busy,
         \/ /\ op'[o].kind = "get" /\ Known(op'[o].session) /\ live[op'[o].session] = 0
            /\ op'[o].ref = index[op'[o].session]
         \/ /\ op'[o].kind = "create" /\ Fresh(op'[o].session)
            /\ HasParent(op'[o].ref)
  PROVE  RegInv'
<1>1. /\ \A p \in Ops \ {o} : op'[p] = op[p]
      /\ op' \in [Ops -> Busy \cup {Idle}] /\ op'[o].session \in Sessions
      /\ UNCHANGED <<index, runtimes, live, got, chilled, changes>> /\ late' \subseteq Sessions
  BY DEF RegInv, TypeOK, memory, Begun, Busy
<1>2. overlapped' \in BOOLEAN /\ (~overlapped' => ~overlapped /\ \A p \in Ops : op[p] = Idle)
  BY DEF Begun, RegInv, TypeOK
<1>3. TypeOK'
  BY <1>1, <1>2 DEF RegInv, TypeOK
<1>4. RefsLinked' /\ LiveLinked' /\ ChosenIsModel'
  BY <1>1 DEF RegInv, RefsLinked, LiveLinked, Known, HasParent, ChosenIsModel
<1>5. RequestsLinked'
  <2>1. RequestLinked(o)'
    BY <1>1 DEF RequestLinked, Known, Fresh, HasParent
  <2>2. ASSUME NEW p \in Ops \ {o}, op[p] # Idle PROVE RequestLinked(p)'
    <3>1. RequestLinked(p) /\ op'[p] = op[p]
      BY <1>1, <2>2 DEF RegInv, RequestsLinked
    <3>2. op[p].kind = "create" => op'[o].session # op[p].session
      BY <2>2, <3>1 DEF RequestLinked, Fresh
    <3> QED
      BY <1>1, <3>1, <3>2 DEF RequestLinked, Known, HasParent
  <2> QED
    BY <1>1, <2>1, <2>2 DEF RequestsLinked
<1>6. NeverCold'
  BY <1>1 DEF RegInv, NeverCold, Known
<1>7. Alone'
  <2> SUFFICES ASSUME ~overlapped' PROVE Alone'
    BY DEF Alone
  <2>1. \A p \in Ops \ {o} : op'[p] = Idle
    BY <1>1, <1>2
  \* A session whose late writes have now been read has no writer.
  <2>2. ASSUME NEW r \in DOMAIN runtimes', runtimes'[r].state # "disposed"
        PROVE  live'[runtimes'[r].session] = r /\ Agrees(r)'
    <3>1. /\ r \in DOMAIN runtimes /\ runtimes[r].state # "disposed" /\ r # 0
          /\ runtimes[r].session \in Sessions
      BY <1>1, <2>2, RuntimeType DEF RegInv
    <3>2. live[runtimes[r].session] = r /\ Agrees(r)
      BY <1>2, <3>1 DEF RegInv, Alone
    <3>3. runtimes[r].session \in late => runtimes[r].session \in late'
      BY <3>1, <3>2
    <3> QED
      BY <1>1, <3>2, <3>3 DEF Agrees
  <2> QED
    BY <1>1, <1>2, <2>1, <2>2 DEF RegInv, Alone
<1> QED
  BY <1>3, <1>4, <1>5, <1>6, <1>7 DEF RegInv

LEMMA GetKeeps ==
  ASSUME RegInv, NEW o \in Ops, NEW s \in Sessions, Get(o, s)
  PROVE  RegInv'
<1>1. /\ op[o] = Idle /\ Known(s) /\ Begun /\ UNCHANGED <<index, memory>>
      /\ index[s] \in Ref
  BY RefType DEF Get, RegInv
<1>2. CASE live[s] = 0
  <2> DEFINE b == [kind |-> "get", session |-> s, ref |-> index[s], runtime |-> 0]
  <2>1. op' = [op EXCEPT ![o] = b] /\ got' = got /\ late' = late \ {s} /\ changes' = changes
    BY <1>2 DEF Get, Await
  <2>2. b \in Busy /\ b.kind = "get" /\ b.session = s /\ b.ref = index[s]
    BY <1>1, RegistryAssumption DEF Busy
  <2>3. op'[o] = b
    BY <2>1 DEF RegInv, TypeOK
  <2> HIDE DEF b
  <2> QED
    BY <1>1, <1>2, <2>1, <2>2, <2>3, WaitKeeps
<1>3. CASE live[s] # 0
  <2>1. /\ UNCHANGED <<index, runtimes, live, op, chilled, late, changes>>
        /\ got' = [got EXCEPT ![o] = live[s]] /\ live[s] \in 0 .. Len(runtimes)
        /\ overlapped' \in BOOLEAN /\ (~overlapped' => ~overlapped)
    BY <1>1, <1>3 DEF Get, memory, Begun, RegInv, TypeOK
  <2>2. TypeOK'
    BY <2>1 DEF RegInv, TypeOK
  <2> QED
    BY <2>1, <2>2 DEF RegInv, RefsLinked, RequestsLinked, RequestLinked, LiveLinked, NeverCold,
                      Alone, Known, HasParent, Agrees, ChosenIsModel
<1> QED
  BY <1>2, <1>3

LEMMA CreateKeeps ==
  ASSUME RegInv, NEW o \in Ops, NEW s \in Sessions, NEW m \in Models, Create(o, s, m)
  PROVE  RegInv'
<1> DEFINE f == [kind |-> "conversation", parent |-> NoSession, restricted |-> FALSE, model |-> m]
<1> DEFINE b == [kind |-> "create", session |-> s, ref |-> f, runtime |-> 0]
<1>1. /\ op[o] = Idle /\ Fresh(s) /\ Begun /\ UNCHANGED <<index, memory, got, late, changes>>
      /\ op' = [op EXCEPT ![o] = b]
  BY DEF Create, Await
<1>2. f \in Ref /\ f.kind = "conversation"
  BY DEF Ref, Kinds
<1> HIDE DEF f
<1>3. b \in Busy /\ b.kind = "create" /\ b.session = s /\ b.ref = f
  BY <1>2, RegistryAssumption DEF Busy
<1>4. op'[o] = b
  BY <1>1 DEF RegInv, TypeOK
<1> HIDE DEF b
<1>5. HasParent(f)
  BY <1>2 DEF HasParent
<1> QED
  BY <1>1, <1>3, <1>4, <1>5, WaitKeeps

\* Whoever has the spawn tool is a conversation, so that a child's parent is one.
LEMMA SpawnKeeps ==
  ASSUME RegInv, NEW o \in Ops, NEW s \in Sessions, NEW r \in 1..MaxRuntimes,
         NEW override \in Models \cup {NoModel}, NEW preset \in Models \cup {NoModel},
         NEW restricted \in BOOLEAN, Spawn(o, s, r, override, preset, restricted)
  PROVE  RegInv'
<1> DEFINE parent == runtimes[r].session
<1> DEFINE model == FirstOf(override, preset, index[parent].model)
<1> DEFINE f == [kind |-> "subagent", parent |-> parent, restricted |-> restricted, model |-> model]
<1> DEFINE b == [kind |-> "create", session |-> s, ref |-> f, runtime |-> 0]
<1>1. /\ op[o] = Idle /\ Fresh(s) /\ Begun /\ UNCHANGED <<index, memory, got, late, changes>>
      /\ op' = [op EXCEPT ![o] = b] /\ r \in DOMAIN runtimes /\ runtimes[r].delegates
  BY DEF Spawn, Await
<1>2. parent \in Sessions /\ Known(parent) /\ index[parent].kind = "conversation"
  BY <1>1, RuntimeType DEF RegInv, RefsLinked
<1>3. index[parent].model \in Models
  BY <1>2, RefType DEF RegInv
<1>4. model \in Models
  BY <1>3 DEF FirstOf
<1> HIDE DEF parent, model
<1>5. f \in Ref /\ HasParent(f)
  BY <1>2, <1>4 DEF Ref, Kinds, HasParent
<1> HIDE DEF f
<1>6. b \in Busy /\ b.kind = "create" /\ b.session = s /\ b.ref = f
  BY <1>5, RegistryAssumption DEF Busy
<1>7. op'[o] = b
  BY <1>1 DEF RegInv, TypeOK
<1> HIDE DEF b
<1> QED
  BY <1>1, <1>5, <1>6, <1>7, WaitKeeps

\* Only the state of one runtime changes, and it loses nothing but its use.
LEMMA StateKeeps ==
  ASSUME RegInv, NEW r \in DOMAIN runtimes, NEW st \in {"attached", "disposing", "disposed"},
         runtimes' = [runtimes EXCEPT ![r].state = st], UNCHANGED index
  PROVE  /\ runtimes' \in Seq(Runtime) /\ Len(runtimes') = Len(runtimes)
         /\ DOMAIN runtimes' = DOMAIN runtimes /\ RefsLinked'
         /\ runtimes'[r].state = st
         /\ \A q \in DOMAIN runtimes :
              /\ runtimes'[q].session = runtimes[q].session
              /\ runtimes'[q].model = runtimes[q].model
              /\ runtimes'[q].chosen = runtimes[q].chosen
              /\ runtimes'[q].fallback = runtimes[q].fallback
              /\ q # r => runtimes'[q] = runtimes[q]
<1> DEFINE new == [runtimes[r] EXCEPT !.state = st]
<1>1. /\ runtimes \in Seq(Runtime) /\ DOMAIN runtimes = 1 .. Len(runtimes)
      /\ runtimes[r] \in Runtime
  BY RuntimeType DEF RegInv, TypeOK
<1>2. /\ new \in Runtime /\ new.state = st /\ new.session = runtimes[r].session
      /\ new.model = runtimes[r].model /\ new.delegates = runtimes[r].delegates
      /\ new.chosen = runtimes[r].chosen /\ new.fallback = runtimes[r].fallback
  BY <1>1 DEF Runtime
<1>3. runtimes' = [runtimes EXCEPT ![r] = new]
  OBVIOUS
<1> HIDE DEF new
<1>4. /\ runtimes' \in Seq(Runtime) /\ Len(runtimes') = Len(runtimes)
      /\ DOMAIN runtimes' = DOMAIN runtimes /\ runtimes'[r] = new
      /\ \A q \in DOMAIN runtimes : q # r => runtimes'[q] = runtimes[q]
  BY <1>1, <1>2, <1>3, ExceptSeq
<1>5. \A q \in DOMAIN runtimes :
        /\ runtimes'[q].session = runtimes[q].session
        /\ runtimes'[q].model = runtimes[q].model
        /\ runtimes'[q].delegates = runtimes[q].delegates
        /\ runtimes'[q].chosen = runtimes[q].chosen
        /\ runtimes'[q].fallback = runtimes[q].fallback
  BY <1>2, <1>4
<1>6. RefsLinked'
  BY <1>4, <1>5 DEF RegInv, RefsLinked, Known, HasParent
<1> QED
  BY <1>2, <1>4, <1>5, <1>6

LEMMA EvictKeeps ==
  ASSUME RegInv, NEW o \in Ops, NEW s \in Sessions, Evict(o, s)
  PROVE  RegInv'
<1> DEFINE r == live[s]
<1> DEFINE st == IF runtimes[r].state = "attached" THEN "disposing" ELSE runtimes[r].state
<1> DEFINE b == [kind |-> "evict", session |-> s, ref |-> index[s], runtime |-> r]
<1>1. /\ op[o] = Idle /\ r # 0 /\ Begun /\ UNCHANGED <<index, live, got, late, changes>>
      /\ op' = [op EXCEPT ![o] = b] /\ runtimes' = [runtimes EXCEPT ![r].state = st]
  BY DEF Evict, Await
<1>2. r \in DOMAIN runtimes /\ runtimes[r].session = s /\ Known(s) /\ r \in 0..MaxRuntimes
  <2>1. r \in DOMAIN runtimes /\ runtimes[r].session = s /\ Known(s)
    BY <1>1, LiveKnown
  <2>2. r \in 0..MaxRuntimes
    BY RegistryAssumption DEF RegInv, TypeOK
  <2> QED
    BY <2>1, <2>2
<1>3. st \in {"attached", "disposing", "disposed"}
  BY <1>2, RuntimeType DEF RegInv, Runtime
<1>4. b \in Busy /\ b.kind = "evict" /\ b.session = s /\ b.runtime = r /\ b # Idle
  BY <1>2, RefType, Distinct DEF RegInv, Busy
<1>5. op'[o] = b /\ (\A p \in Ops \ {o} : op'[p] = op[p]) /\ op' \in [Ops -> Busy \cup {Idle}]
  BY <1>1, <1>4 DEF RegInv, TypeOK
<1> HIDE DEF st, b
<1>6. /\ runtimes' \in Seq(Runtime) /\ Len(runtimes') = Len(runtimes)
      /\ DOMAIN runtimes' = DOMAIN runtimes /\ RefsLinked'
      /\ runtimes'[r].state = st
      /\ \A q \in DOMAIN runtimes :
           /\ runtimes'[q].session = runtimes[q].session
           /\ runtimes'[q].model = runtimes[q].model
           /\ runtimes'[q].chosen = runtimes[q].chosen
           /\ runtimes'[q].fallback = runtimes[q].fallback
           /\ q # r => runtimes'[q] = runtimes[q]
  <2> HIDE DEF r
  <2> QED
    BY <1>1, <1>2, <1>3, StateKeeps
<1>7. /\ overlapped' \in BOOLEAN /\ chilled' = chilled
      /\ ~overlapped' => ~overlapped /\ \A p \in Ops : op[p] = Idle
  BY <1>1 DEF Begun, RegInv, TypeOK
<1>8. TypeOK'
  BY <1>1, <1>5, <1>6, <1>7 DEF RegInv, TypeOK
<1>9. RequestsLinked'
  <2>1. RequestLinked(o)'
    BY <1>1, <1>2, <1>4, <1>5, <1>6 DEF RequestLinked, Known, HasParent
  <2>2. ASSUME NEW p \in Ops \ {o}, op[p] # Idle PROVE RequestLinked(p)'
    <3>1. RequestLinked(p) /\ op'[p] = op[p]
      BY <1>5, <2>2 DEF RegInv, RequestsLinked
    <3>2. op[p].kind = "create" => op'[o].session # op[p].session
      BY <1>2, <1>4, <1>5, <3>1 DEF RequestLinked
    <3> QED
      BY <1>1, <1>5, <1>6, <3>1, <3>2 DEF RequestLinked, Known, HasParent
  <2> QED
    BY <1>5, <2>1, <2>2 DEF RequestsLinked
<1>10. LiveLinked'
  <2> SUFFICES ASSUME NEW t \in Sessions, live[t] # 0 PROVE runtimes'[live[t]].session = t
    BY <1>1 DEF LiveLinked
  <2> QED
    BY <1>6, LiveKnown
<1>11. NeverCold'
  BY <1>1, <1>4, <1>5, <1>6, <1>7 DEF RegInv, NeverCold, Known
<1>12. Alone'
  <2> SUFFICES ASSUME ~overlapped' PROVE Alone'
    BY DEF Alone
  <2>1. \A p \in Ops \ {o} : op'[p] = Idle
    BY <1>5, <1>7
  <2>2. \A q \in DOMAIN runtimes' : runtimes'[q].state # "disposed" => runtimes[q].state # "disposed"
    BY <1>6 DEF st
  <2>3. ASSUME NEW t \in Sessions, live[t] # 0, t # s PROVE runtimes'[live[t]].state = "attached"
    <3>1. live[t] \in DOMAIN runtimes /\ live[t] # r
      BY <1>2, <2>3, LiveKnown
    <3> QED
      BY <1>6, <1>7, <2>3, <3>1 DEF RegInv, Alone
  <2>4. \A q \in DOMAIN runtimes' : runtimes'[q].state # "disposed" =>
         live'[runtimes'[q].session] = q /\ Agrees(q)'
    BY <1>1, <1>6, <1>7, <2>2 DEF RegInv, Alone, Agrees
  <2>5. \A t \in Sessions : live'[t] # 0 =>
         \/ runtimes'[live'[t]].state = "attached"
         \/ \E p \in Ops : op'[p] # Idle /\ op'[p].kind = "evict" /\ op'[p].session = t
    BY <1>1, <1>4, <1>5, <2>3
  <2>6. \A p \in Ops : op'[p] # Idle => p = o
    BY <2>1
  <2>7. op'[o].kind # "get" /\ op'[o].runtime = live'[op'[o].session]
    BY <1>1, <1>4, <1>5
  <2> QED
    BY <2>4, <2>5, <2>6, <2>7 DEF Alone
<1>13. ChosenIsModel'
  BY <1>6 DEF RegInv, ChosenIsModel
<1> QED
  BY <1>6, <1>8, <1>9, <1>10, <1>11, <1>12, <1>13 DEF RegInv

-----------------------------------------------------------------------------
(* Continuations *)

LEMMA BuildFailsKeeps ==
  ASSUME RegInv, NEW o \in Ops, BuildFails(o)
  PROVE  RegInv'
<1>1. /\ op[o] # Idle /\ op[o].kind # "evict" /\ UNCHANGED <<index, runtimes, live, got>>
      /\ op'[o] = Idle /\ (\A p \in Ops \ {o} : op'[p] = op[p])
      /\ op' \in [Ops -> Busy \cup {Idle}] /\ UNCHANGED <<chilled, overlapped, late, changes>>
  BY DEF BuildFails, memory, history, RegInv, TypeOK
<1>2. TypeOK' /\ RefsLinked' /\ LiveLinked' /\ NeverCold' /\ ChosenIsModel'
  <2>1. TypeOK'
    BY <1>1 DEF RegInv, TypeOK
  <2>2. RefsLinked'
    BY <1>1 DEF RegInv, RefsLinked, Known, HasParent
  <2>3. LiveLinked'
    BY <1>1 DEF RegInv, LiveLinked
  <2>4. NeverCold'
    BY <1>1 DEF RegInv, NeverCold, Known
  <2>5. ChosenIsModel'
    BY <1>1 DEF RegInv, ChosenIsModel
  <2> QED
    BY <2>1, <2>2, <2>3, <2>4, <2>5
<1>3. RequestsLinked'
  BY <1>1 DEF RegInv, RequestsLinked, RequestLinked, Known, HasParent
<1>4. Alone'
  <2> SUFFICES ASSUME ~overlapped PROVE Alone'
    BY <1>1 DEF Alone
  <2>1. \A p \in Ops : op'[p] = Idle
    BY <1>1 DEF RegInv, Alone
  <2>2. \A s \in Sessions : live[s] # 0 => runtimes[live[s]].state = "attached"
    BY <1>1 DEF RegInv, Alone
  <2>3. \A r \in DOMAIN runtimes : runtimes[r].state # "disposed" =>
         live[runtimes[r].session] = r /\ Agrees(r)
    BY DEF RegInv, Alone
  <2> QED
    BY <1>1, <2>1, <2>2, <2>3 DEF Alone, Agrees
<1> QED
  BY <1>2, <1>3, <1>4 DEF RegInv

LEMMA EvictedKeeps ==
  ASSUME RegInv, NEW o \in Ops, Evicted(o)
  PROVE  RegInv'
<1> DEFINE r == op[o].runtime
<1> DEFINE s == op[o].session
<1>1. /\ op[o] # Idle /\ op[o].kind = "evict" /\ s \in Sessions
      /\ runtimes' = [runtimes EXCEPT ![r].state = "disposed"]
      /\ live' = [live EXCEPT ![s] = 0] /\ op' = [op EXCEPT ![o] = Idle]
      /\ chilled' = chilled \cup {s} /\ UNCHANGED <<index, got, overlapped, late, changes>>
  BY OpType DEF Evicted, RegInv
<1>2. r \in DOMAIN runtimes /\ runtimes[r].session = s
  BY <1>1 DEF RegInv, RequestsLinked, RequestLinked
<1>3. /\ op'[o] = Idle /\ (\A p \in Ops \ {o} : op'[p] = op[p])
      /\ op' \in [Ops -> Busy \cup {Idle}]
      /\ live'[s] = 0 /\ (\A t \in Sessions \ {s} : live'[t] = live[t])
      /\ live' \in [Sessions -> 0..Len(runtimes)]
  BY <1>1 DEF RegInv, TypeOK
<1>4. /\ runtimes' \in Seq(Runtime) /\ Len(runtimes') = Len(runtimes)
      /\ DOMAIN runtimes' = DOMAIN runtimes /\ RefsLinked'
      /\ runtimes'[r].state = "disposed"
      /\ \A q \in DOMAIN runtimes :
           /\ runtimes'[q].session = runtimes[q].session
           /\ runtimes'[q].model = runtimes[q].model
           /\ runtimes'[q].chosen = runtimes[q].chosen
           /\ runtimes'[q].fallback = runtimes[q].fallback
           /\ q # r => runtimes'[q] = runtimes[q]
  <2> HIDE DEF r
  <2> QED
    BY <1>1, <1>2, StateKeeps
<1> HIDE DEF r, s
<1>5. TypeOK'
  BY <1>1, <1>3, <1>4 DEF RegInv, TypeOK
<1>6. RequestsLinked'
  BY <1>1, <1>3, <1>4 DEF RegInv, RequestsLinked, RequestLinked, Known, HasParent
<1>7. LiveLinked'
  <2> SUFFICES ASSUME NEW t \in Sessions, live'[t] # 0 PROVE runtimes'[live'[t]].session = t
    BY DEF LiveLinked
  <2>1. live'[t] = live[t]
    BY <1>3
  <2> QED
    BY <1>4, <2>1, LiveKnown
<1>8. NeverCold'
  BY <1>1, <1>3, <1>4 DEF RegInv, NeverCold, Known
<1>9. Alone'
  <2> SUFFICES ASSUME ~overlapped PROVE Alone'
    BY <1>1 DEF Alone
  <2>1. (\A p \in Ops : op'[p] = Idle) /\ r = live[s]
    BY <1>1, <1>3 DEF RegInv, Alone, r, s
  <2>2. ASSUME NEW t \in Sessions, live'[t] # 0 PROVE runtimes'[live'[t]].state = "attached"
    <3>1. t # s /\ live'[t] = live[t]
      BY <1>3, <2>2
    <3>2. live[t] \in DOMAIN runtimes /\ live[t] # r
      BY <1>2, <2>2, <3>1, LiveKnown
    <3>3. \A p \in Ops : op[p] # Idle => op[p].session # t
      BY <1>1, <3>1 DEF RegInv, Alone, s
    <3>4. runtimes[live[t]].state = "attached"
      BY <2>2, <3>1, <3>3 DEF RegInv, Alone
    <3> QED
      BY <1>4, <3>1, <3>2, <3>4
  <2>3. ASSUME NEW q \in DOMAIN runtimes', runtimes'[q].state # "disposed"
        PROVE  live'[runtimes'[q].session] = q /\ Agrees(q)'
    <3>1. q # r /\ q \in DOMAIN runtimes /\ runtimes[q].state # "disposed"
      BY <1>4, <2>3
    <3>2. runtimes[q].session \in Sessions /\ live[runtimes[q].session] = q
      BY <3>1, RuntimeType DEF RegInv, Alone
    <3>3. runtimes[q].session # s
      BY <2>1, <3>1, <3>2
    <3> QED
      BY <1>1, <1>3, <1>4, <3>1, <3>2, <3>3 DEF RegInv, Alone, Agrees
  <2> QED
    BY <2>1, <2>2, <2>3 DEF Alone
<1>10. ChosenIsModel'
  BY <1>4 DEF RegInv, ChosenIsModel
<1> QED
  BY <1>4, <1>5, <1>6, <1>7, <1>8, <1>9, <1>10 DEF RegInv

\* What is built has the tools of its kind, and the model of its ref or pi's.
LEMMA BuiltRuntime ==
  ASSUME RegInv, NEW o \in Ops, op[o] # Idle, NEW resolves \in BOOLEAN, NEW default \in Models
  PROVE  LET x == BuildSession(op[o], resolves, default) IN
           /\ x \in Runtime /\ x.session = op[o].session /\ x.state = "attached"
           /\ x.delegates <=> op[o].ref.kind = "conversation"
           /\ x.model = (IF resolves THEN op[o].ref.model ELSE default)
           /\ x.chosen = NoModel /\ (op[o].kind = "get" /\ ~resolves => x.fallback)
<1>1. /\ op[o].session \in Sessions /\ op[o].ref.model \in Models
      /\ op[o].ref.restricted \in BOOLEAN
  BY OpType DEF RegInv
<1>2. /\ (op[o].kind = "create" /\ op[o].ref.restricted) \in BOOLEAN
      /\ (op[o].kind = "get" /\ ~resolves) \in BOOLEAN
  OBVIOUS
<1> QED
  BY <1>1, <1>2 DEF BuildSession, Runtime

\* The ref that is written names the model the session has got.
LEMMA BuiltRef ==
  ASSUME NEW g \in Ref, NEW resolves \in BOOLEAN, NEW default \in Models
  PROVE  LET f == [g EXCEPT !.model = IF resolves THEN @ ELSE default] IN
           /\ f \in Ref /\ f.kind = g.kind /\ f.parent = g.parent
           /\ f.model = (IF resolves THEN g.model ELSE default)
BY DEF Ref

LEMMA BuiltKeeps ==
  ASSUME RegInv, NEW o \in Ops, NEW resolves \in BOOLEAN, NEW default \in Models,
         Built(o, resolves, default)
  PROVE  RegInv'
<1>0. PICK s \in Sessions, g \in Ref, f \in Ref, x \in Runtime :
        /\ s = op[o].session /\ g = op[o].ref /\ x = BuildSession(op[o], resolves, default)
        /\ f = [g EXCEPT !.model = IF resolves THEN @ ELSE default]
        /\ f.kind = g.kind /\ f.parent = g.parent
        /\ f.model = (IF resolves THEN g.model ELSE default)
  <2>1. op[o] # Idle /\ op[o].session \in Sessions /\ op[o].ref \in Ref
    BY OpType DEF Built, RegInv
  <2>2. BuildSession(op[o], resolves, default) \in Runtime
    BY <2>1, BuiltRuntime
  <2>3. LET f == [op[o].ref EXCEPT !.model = IF resolves THEN @ ELSE default] IN
          /\ f \in Ref /\ f.kind = op[o].ref.kind /\ f.parent = op[o].ref.parent
          /\ f.model = (IF resolves THEN op[o].ref.model ELSE default)
    BY <2>1, BuiltRef
  <2> QED
    BY <2>1, <2>2, <2>3
<1> DEFINE n == Len(runtimes) + 1
<1>1. /\ op[o] # Idle /\ op[o].kind \in {"get", "create"} /\ s \in Sessions /\ f \in Ref
      /\ f.kind \in Kinds /\ Len(runtimes) < MaxRuntimes
      /\ runtimes' = Append(runtimes, x) /\ live' = [live EXCEPT ![s] = n]
      /\ got' = [got EXCEPT ![o] = n] /\ op' = [op EXCEPT ![o] = Idle]
      /\ UNCHANGED <<chilled, overlapped, late>> /\ changes' \in 0..MaxChanges
  <2>1. changes \in 0..MaxChanges /\ MaxChanges \in Nat
    BY RegistryAssumption DEF RegInv, TypeOK
  <2> QED
    BY <1>0, <2>1, OpType DEF Built, Instantiate, history, RegInv
<1>2. /\ x \in Runtime /\ x.session = s /\ x.state = "attached"
      /\ x.delegates <=> f.kind = "conversation"
      /\ x.model = f.model
      /\ x.chosen = NoModel /\ (op[o].kind = "get" /\ ~resolves => x.fallback)
  BY <1>0, <1>1, BuiltRuntime
<1>4. RequestLinked(o)
  BY <1>1 DEF RegInv, RequestsLinked
<1>5. index' = IF op[o].kind = "get" THEN index ELSE [index EXCEPT ![s] = f]
  BY <1>0 DEF Built
<1>6. \A p \in Ops \ {o} : op'[p] = op[p] /\ (op[p] # Idle => RequestLinked(p))
  BY <1>1 DEF RegInv, TypeOK, RequestsLinked
<1>7. op'[o] = Idle /\ op' \in [Ops -> Busy \cup {Idle}]
  BY <1>1 DEF RegInv, TypeOK
<1>8. /\ Len(runtimes) \in Nat /\ DOMAIN runtimes = 1 .. Len(runtimes)
      /\ runtimes' \in Seq(Runtime) /\ Len(runtimes') = n /\ DOMAIN runtimes' = 1 .. n
      /\ \A r \in DOMAIN runtimes : runtimes'[r] = runtimes[r]
      /\ runtimes'[n] = x
  BY <1>1, <1>2 DEF RegInv, TypeOK
<1>9. /\ live'[s] = n /\ (\A t \in Sessions \ {s} : live'[t] = live[t])
      /\ live' \in [Sessions -> 0..n] /\ got' \in [Ops -> 0..n]
  BY <1>1, <1>8 DEF RegInv, TypeOK
\* Rows: none is lost, none changes, one may be new.
<1>10. /\ index' \in [Sessions -> Ref \cup {NoRef}]
       /\ index'[s] \in Ref /\ Known(s)' /\ index'[s].kind = f.kind
       /\ \A t \in Sessions : Known(t) => index'[t] = index[t] /\ Known(t)'
       /\ \A t \in Sessions \ {s} : index'[t] = index[t] /\ (Known(t)' <=> Known(t))
       /\ \A t \in Sessions : Known(t)' => HasParent(index[t])'
  <2>0. index \in [Sessions -> Ref \cup {NoRef}] /\ \A h \in Ref : h # NoRef
    BY Distinct DEF RegInv, TypeOK
  <2>1. CASE op[o].kind = "get"
    <3>1. index' = index /\ Known(s) /\ f.kind = index[s].kind
      BY <1>0, <1>4, <1>5, <2>1 DEF RequestLinked
    <3>2. index[s] \in Ref
      BY <1>1, <3>1, RefType DEF RegInv
    <3>3. \A t \in Sessions : (Known(t)' <=> Known(t)) /\ (HasParent(index[t])' <=> HasParent(index[t]))
      BY <3>1 DEF Known, HasParent
    <3>4. \A t \in Sessions : Known(t)' => HasParent(index[t])'
      BY <3>3 DEF RegInv, RefsLinked
    <3> QED
      BY <1>1, <2>0, <3>1, <3>2, <3>3, <3>4
  <2>2. CASE op[o].kind = "create"
    <3>1. /\ index' = [index EXCEPT ![s] = f] /\ ~Known(s)
          /\ HasParent(f)
      BY <1>0, <1>4, <1>5, <2>2 DEF RequestLinked, HasParent
    <3>2. index'[s] = f /\ \A t \in Sessions \ {s} : index'[t] = index[t]
      BY <1>1, <2>0, <3>1
    <3>3. \A h : HasParent(h) => (h.kind = "subagent" =>
                /\ h.parent \in Sessions \ {s} /\ Known(h.parent)'
                /\ index'[h.parent].kind = "conversation")
      BY <3>1, <3>2 DEF HasParent, Known
    <3>4. ASSUME NEW t \in Sessions, Known(t)' PROVE HasParent(index[t])'
      <4>1. HasParent(index'[t])
        BY <3>1, <3>2, <3>4 DEF RegInv, RefsLinked, Known, HasParent
      <4> QED
        BY <3>3, <4>1 DEF HasParent
    <3>5. index' \in [Sessions -> Ref \cup {NoRef}]
      BY <1>1, <2>0, <3>1
    <3>6. Known(s)' /\ \A t \in Sessions \ {s} : Known(t)' <=> Known(t)
      BY <1>1, <2>0, <3>2 DEF Known
    <3> QED
      BY <1>1, <3>1, <3>2, <3>4, <3>5, <3>6
  <2> QED
    BY <1>1, <2>1, <2>2
<1>11. TypeOK'
  <2>1. Len(runtimes') <= MaxRuntimes
    BY <1>1, <1>8, RegistryAssumption
  <2> QED
    BY <1>1, <1>7, <1>8, <1>9, <1>10, <2>1 DEF RegInv, TypeOK
<1>12. RefsLinked'
  <2>1. ASSUME NEW r \in DOMAIN runtimes', NEW t \in Sessions, runtimes'[r].session = t
        PROVE  Known(t)' /\ (runtimes'[r].delegates <=> index'[t].kind = "conversation")
    <3>1. CASE r = n
      BY <1>2, <1>8, <1>10, <2>1, <3>1
    <3>2. CASE r # n
      <4>1. r \in DOMAIN runtimes /\ runtimes'[r] = runtimes[r]
        BY <1>8, <3>2
      <4>2. Known(t) /\ (runtimes[r].delegates <=> index[t].kind = "conversation")
        BY <2>1, <4>1 DEF RegInv, RefsLinked
      <4> QED
        BY <1>10, <4>1, <4>2
    <3> QED
      BY <3>1, <3>2
  <2> QED
    BY <1>10, <2>1 DEF RefsLinked
<1>13. RequestsLinked'
  <2> SUFFICES ASSUME NEW p \in Ops, op'[p] # Idle PROVE RequestLinked(p)'
    BY DEF RequestsLinked
  <2>1. p # o /\ op'[p] = op[p] /\ op[p] # Idle /\ RequestLinked(p) /\ op[p].session \in Sessions
    BY <1>6, <1>7, OpType DEF RegInv
  <2>2. op[p].kind = "create" => op[p].session # s
    BY <1>0, <1>1, <2>1 DEF RequestLinked
  <2>3. op[p].kind = "get" => index'[op[p].session] = index[op[p].session]
    BY <1>10, <2>1 DEF RequestLinked
  <2>4. op[p].kind = "create" => ~Known(op[p].session)' /\ HasParent(op[p].ref)'
    BY <1>10, <2>1, <2>2 DEF RequestLinked, HasParent
  <2>5. op[p].kind = "evict" =>
          op[p].runtime \in DOMAIN runtimes' /\ runtimes'[op[p].runtime].session = op[p].session
    BY <1>8, <2>1 DEF RequestLinked
  <2> QED
    BY <1>6, <1>7, <1>10, <2>1, <2>3, <2>4, <2>5 DEF RequestLinked
<1>14. LiveLinked'
  <2> SUFFICES ASSUME NEW t \in Sessions, live'[t] # 0 PROVE runtimes'[live'[t]].session = t
    BY DEF LiveLinked
  <2>1. CASE t = s
    BY <1>2, <1>8, <1>9, <2>1
  <2>2. CASE t # s
    <3>1. live'[t] = live[t] /\ live[t] \in DOMAIN runtimes /\ runtimes[live[t]].session = t
      BY <1>9, <2>2, LiveKnown
    <3> QED
      BY <1>8, <3>1
  <2> QED
    BY <2>1, <2>2
\* A session that is not chilled was not there before.
<1>15. s \notin chilled => \A r \in DOMAIN runtimes : runtimes[r].session # s
  <2>1. s \notin chilled => op[o].kind = "create"
    BY <1>0, <1>1 DEF RegInv, NeverCold
  <2> QED
    BY <1>0, <1>4, <2>1 DEF RegInv, RefsLinked, RequestLinked
<1>16. NeverCold'
  <2> SUFFICES ASSUME NEW t \in Sessions \ chilled
               PROVE  /\ \A r \in DOMAIN runtimes' : runtimes'[r].session = t => r = live'[t]
                      /\ Known(t)' => live'[t] # 0
                      /\ \A p \in Ops : op'[p] # Idle /\ op'[p].session = t => op'[p].kind # "get"
    BY <1>1 DEF NeverCold
  <2>1. /\ \A r \in DOMAIN runtimes : runtimes[r].session = t => r = live[t]
        /\ Known(t) => live[t] # 0
        /\ \A p \in Ops : op[p] # Idle /\ op[p].session = t => op[p].kind # "get"
    BY DEF RegInv, NeverCold
  <2>2. \A p \in Ops : op'[p] # Idle /\ op'[p].session = t => op'[p].kind # "get"
    BY <1>6, <1>7, <2>1
  <2>3. CASE t = s
    BY <1>1, <1>8, <1>9, <1>15, <2>2, <2>3
  <2>4. CASE t # s
    <3>1. \A r \in DOMAIN runtimes' : runtimes'[r].session = t => r \in DOMAIN runtimes
      BY <1>2, <1>8, <2>4
    <3>2. live'[t] = live[t] /\ (Known(t)' <=> Known(t))
      BY <1>9, <1>10, <2>4
    <3> QED
      BY <1>8, <2>1, <2>2, <3>1, <3>2
  <2> QED
    BY <2>3, <2>4
<1>17. Alone'
  <2> SUFFICES ASSUME ~overlapped PROVE Alone'
    BY <1>1 DEF Alone
  <2>1. \A p \in Ops : op'[p] = Idle
    BY <1>1, <1>6, <1>7 DEF RegInv, Alone
  <2>2. live[s] = 0
    <3>1. op[o].kind = "create" => live[s] = 0
      BY <1>0, <1>1, <1>4, LiveKnown DEF RequestLinked
    <3> QED
      BY <1>0, <1>1, <3>1 DEF RegInv, Alone
  <2>3. x.model = index'[s].model \/ x.fallback \/ s \in late
    <3>1. op[o].kind = "get" => g = index[s] \/ s \in late
      BY <1>0, <1>1 DEF RegInv, Alone
    <3>2. op[o].kind = "create" => index'[s] = f
      BY <1>1, <1>5 DEF RegInv, TypeOK
    <3>3. op[o].kind = "get" /\ resolves => x.model = g.model
      BY <1>0, <1>2
    <3> QED
      BY <1>1, <1>2, <1>5, <3>1, <3>2, <3>3
  <2>4. ASSUME NEW r \in DOMAIN runtimes', runtimes'[r].state # "disposed"
        PROVE  live'[runtimes'[r].session] = r /\ Agrees(r)'
    <3>1. CASE r = n
      BY <1>1, <1>2, <1>8, <1>9, <2>3, <3>1 DEF Agrees
    <3>2. CASE r # n
      <4>1. r \in DOMAIN runtimes /\ runtimes'[r] = runtimes[r] /\ runtimes[r].session \in Sessions
        BY <1>8, <3>2, RuntimeType DEF RegInv
      <4>2. live[runtimes[r].session] = r /\ Agrees(r)
        BY <2>4, <4>1 DEF RegInv, Alone
      <4>3. runtimes[r].session # s /\ r # 0
        BY <1>8, <2>2, <4>1, <4>2
      <4> QED
        BY <1>1, <1>9, <1>10, <4>1, <4>2, <4>3 DEF Agrees
    <3> QED
      BY <3>1, <3>2
  <2>5. ASSUME NEW t \in Sessions, live'[t] # 0 PROVE runtimes'[live'[t]].state = "attached"
    <3>1. CASE t = s
      BY <1>2, <1>8, <1>9, <3>1
    <3>2. CASE t # s
      <4>1. live'[t] = live[t] /\ live[t] \in DOMAIN runtimes
        BY <1>9, <2>5, <3>2, LiveKnown
      <4>2. runtimes[live[t]].state = "attached"
        BY <1>1, <2>5, <4>1 DEF RegInv, Alone
      <4> QED
        BY <1>8, <4>1, <4>2
    <3> QED
      BY <3>1, <3>2
  <2> QED
    BY <2>1, <2>4, <2>5 DEF Alone
<1>18. ChosenIsModel'
  BY <1>2, <1>8 DEF RegInv, ChosenIsModel
<1> QED
  BY <1>11, <1>12, <1>13, <1>14, <1>16, <1>17, <1>18 DEF RegInv

-----------------------------------------------------------------------------
(* Around the registry *)

\* One runtime changes in no more than its model and what is left to write.
LEMMA ModelFieldsKeep ==
  ASSUME RegInv, NEW r \in DOMAIN runtimes, NEW x \in Runtime,
         runtimes' = [runtimes EXCEPT ![r] = x],
         x.session = runtimes[r].session, x.state = runtimes[r].state,
         x.delegates = runtimes[r].delegates,
         index' \in [Sessions -> Ref \cup {NoRef}],
         \A t \in Sessions : /\ Known(t)' <=> Known(t)
                             /\ index'[t].kind = index[t].kind /\ index'[t].parent = index[t].parent,
         UNCHANGED <<live, op, got, chilled, overlapped>>,
         late' \subseteq Sessions, changes' \in 0..MaxChanges,
         x.chosen # NoModel => x.chosen = x.model
  PROVE  /\ TypeOK' /\ RefsLinked' /\ RequestsLinked' /\ LiveLinked' /\ NeverCold' /\ ChosenIsModel'
         /\ DOMAIN runtimes' = DOMAIN runtimes /\ runtimes'[r] = x
         /\ \A q \in DOMAIN runtimes :
              /\ q # r => runtimes'[q] = runtimes[q]
              /\ runtimes'[q].session = runtimes[q].session /\ runtimes'[q].state = runtimes[q].state
<1>1. runtimes \in Seq(Runtime) /\ DOMAIN runtimes = 1 .. Len(runtimes)
  BY DEF RegInv, TypeOK
<1>2. /\ runtimes' \in Seq(Runtime) /\ Len(runtimes') = Len(runtimes)
      /\ DOMAIN runtimes' = DOMAIN runtimes /\ runtimes'[r] = x
      /\ \A q \in DOMAIN runtimes : q # r => runtimes'[q] = runtimes[q]
  BY <1>1, ExceptSeq
<1>3. \A q \in DOMAIN runtimes :
        /\ runtimes'[q].session = runtimes[q].session /\ runtimes'[q].state = runtimes[q].state
        /\ runtimes'[q].delegates = runtimes[q].delegates
  BY <1>2
<1>4. TypeOK'
  BY <1>2 DEF RegInv, TypeOK
<1>5. RefsLinked'
  BY <1>2, <1>3 DEF RegInv, RefsLinked, HasParent
<1>6. RequestsLinked'
  <2> SUFFICES ASSUME NEW o \in Ops, op[o] # Idle PROVE RequestLinked(o)'
    BY DEF RequestsLinked
  <2>1. RequestLinked(o) /\ op[o].session \in Sessions
    BY OpType DEF RegInv, RequestsLinked
  <2> QED
    BY <1>2, <1>3, <2>1 DEF RequestLinked, HasParent
<1>7. LiveLinked'
  BY <1>3, LiveKnown DEF LiveLinked
<1>8. NeverCold'
  BY <1>2, <1>3 DEF RegInv, NeverCold
<1>9. ChosenIsModel'
  BY <1>2 DEF RegInv, ChosenIsModel
<1> QED
  BY <1>2, <1>3, <1>4, <1>5, <1>6, <1>7, <1>8, <1>9

\* The driver has the new model before the row does.
LEMMA SetModelKeeps ==
  ASSUME RegInv, NEW r \in 1..MaxRuntimes, NEW m \in Models, SetModel(r, m)
  PROVE  RegInv'
<1>0. /\ r \in DOMAIN runtimes /\ changes' \in 0..MaxChanges
      /\ runtimes' = [runtimes EXCEPT ![r].model = m, ![r].chosen = m]
      /\ UNCHANGED <<index, live, op, got, chilled, overlapped, late>>
  <2>1. changes \in 0..MaxChanges /\ MaxChanges \in Nat
    BY RegistryAssumption DEF RegInv, TypeOK
  <2> QED
    BY <2>1 DEF SetModel, requests, history
<1>1. PICK x \in Runtime :
        /\ x = [runtimes[r] EXCEPT !.model = m, !.chosen = m]
        /\ x.session = runtimes[r].session /\ x.state = runtimes[r].state
        /\ x.delegates = runtimes[r].delegates /\ x.model = m /\ x.chosen = m
  <2>1. runtimes[r] \in Runtime
    BY <1>0, RuntimeType DEF RegInv
  <2>2. \A y \in Runtime : LET z == [y EXCEPT !.model = m, !.chosen = m] IN
          /\ z \in Runtime /\ z.session = y.session /\ z.state = y.state
          /\ z.delegates = y.delegates /\ z.model = m /\ z.chosen = m
    BY DEF Runtime
  <2> QED
    BY <2>1, <2>2
<1>2. runtimes' = [runtimes EXCEPT ![r] = x]
  BY <1>0, <1>1
<1>3. /\ index' \in [Sessions -> Ref \cup {NoRef}] /\ late' \subseteq Sessions
      /\ \A t \in Sessions : Known(t)' <=> Known(t)
  BY <1>0 DEF RegInv, TypeOK, Known
<1>4. /\ TypeOK' /\ RefsLinked' /\ RequestsLinked' /\ LiveLinked' /\ NeverCold' /\ ChosenIsModel'
      /\ DOMAIN runtimes' = DOMAIN runtimes /\ runtimes'[r] = x
      /\ \A q \in DOMAIN runtimes :
           /\ q # r => runtimes'[q] = runtimes[q]
           /\ runtimes'[q].session = runtimes[q].session /\ runtimes'[q].state = runtimes[q].state
  BY <1>0, <1>1, <1>2, <1>3, ModelFieldsKeep
<1>5. Alone'
  <2> SUFFICES ASSUME ~overlapped PROVE Alone'
    BY <1>0 DEF Alone
  <2>1. ASSUME NEW q \in DOMAIN runtimes', runtimes'[q].state # "disposed"
        PROVE  live'[runtimes'[q].session] = q /\ Agrees(q)'
    <3>1. live[runtimes[q].session] = q /\ Agrees(q)
      BY <1>4, <2>1 DEF RegInv, Alone
    <3>2. x.chosen # NoModel
      BY <1>1, RegistryAssumption
    <3> QED
      BY <1>0, <1>4, <3>1, <3>2 DEF Agrees
  <2>2. ASSUME NEW t \in Sessions, live'[t] # 0
        PROVE  \/ runtimes'[live'[t]].state = "attached"
               \/ \E o \in Ops : op'[o] # Idle /\ op'[o].kind = "evict" /\ op'[o].session = t
    <3>1. live'[t] = live[t] /\ live[t] \in DOMAIN runtimes
      BY <1>0, <2>2, LiveKnown
    <3> QED
      BY <1>0, <1>4, <2>2, <3>1 DEF RegInv, Alone
  <2> QED
    BY <1>0, <2>1, <2>2 DEF RegInv, Alone
<1> QED
  BY <1>4, <1>5 DEF RegInv

\* The row gets the model its only writer has, or the writing is noted as late.
LEMMA ModelChangedKeeps ==
  ASSUME RegInv, NEW r \in 1..MaxRuntimes, ModelChanged(r)
  PROVE  RegInv'
<1>0. r \in DOMAIN runtimes /\ runtimes[r].chosen # NoModel
  BY DEF ModelChanged
<1>1. PICK s \in Sessions, m \in Models, x \in Runtime, f \in Ref :
        /\ s = runtimes[r].session /\ m = runtimes[r].chosen /\ m = runtimes[r].model
        /\ x = [runtimes[r] EXCEPT !.chosen = NoModel, !.fallback = FALSE]
        /\ f = [index[s] EXCEPT !.model = m]
        /\ x.session = s /\ x.model = m /\ x.state = runtimes[r].state
        /\ x.delegates = runtimes[r].delegates /\ x.chosen = NoModel
        /\ f.model = m /\ f.kind = index[s].kind /\ f.parent = index[s].parent
        /\ Known(s)
  <2>1. /\ runtimes[r] \in Runtime /\ runtimes[r].session \in Sessions
        /\ runtimes[r].chosen \in Models /\ runtimes[r].chosen = runtimes[r].model
    BY <1>0, RuntimeType DEF RegInv, ChosenIsModel
  <2>2. Known(runtimes[r].session) /\ index[runtimes[r].session] \in Ref
    BY <1>0, <2>1, RefType DEF RegInv, RefsLinked
  <2>3. \A y \in Runtime : LET z == [y EXCEPT !.chosen = NoModel, !.fallback = FALSE] IN
          /\ z \in Runtime /\ z.session = y.session /\ z.model = y.model /\ z.state = y.state
          /\ z.delegates = y.delegates /\ z.chosen = NoModel
    BY DEF Runtime
  <2>4. \A g \in Ref, m \in Models : LET h == [g EXCEPT !.model = m] IN
          h \in Ref /\ h.model = m /\ h.kind = g.kind /\ h.parent = g.parent
    BY DEF Ref
  <2> DEFINE x == [runtimes[r] EXCEPT !.chosen = NoModel, !.fallback = FALSE]
             f == [index[runtimes[r].session] EXCEPT !.model = runtimes[r].chosen]
  <2>5. /\ x \in Runtime /\ x.session = runtimes[r].session /\ x.model = runtimes[r].model
        /\ x.state = runtimes[r].state /\ x.delegates = runtimes[r].delegates /\ x.chosen = NoModel
    BY <2>1, <2>3
  <2>6. /\ f \in Ref /\ f.model = runtimes[r].chosen
        /\ f.kind = index[runtimes[r].session].kind /\ f.parent = index[runtimes[r].session].parent
    BY <2>1, <2>2, <2>4
  <2> QED
    BY <2>1, <2>2, <2>5, <2>6
<1>2. /\ runtimes' = [runtimes EXCEPT ![r] = x] /\ index' = [index EXCEPT ![s] = f]
      /\ late' = IF runtimes[r].state = "disposed" THEN late \cup {s} ELSE late
      /\ UNCHANGED <<live, op, got, chilled, overlapped, changes>>
  <2>1. /\ runtimes' = [runtimes EXCEPT ![r].chosen = NoModel, ![r].fallback = FALSE]
        /\ index' = [index EXCEPT ![s].model = m]
        /\ late' = IF runtimes[r].state = "disposed" THEN late \cup {s} ELSE late
        /\ UNCHANGED <<live, requests, chilled, overlapped, changes>>
    BY <1>1 DEF ModelChanged
  <2> QED
    BY <1>1, <2>1 DEF requests
<1>3. /\ index' \in [Sessions -> Ref \cup {NoRef}] /\ index'[s] = f
      /\ \A t \in Sessions \ {s} : index'[t] = index[t]
      /\ late' \subseteq Sessions /\ changes' \in 0..MaxChanges /\ late \subseteq late'
  BY <1>1, <1>2 DEF RegInv, TypeOK
<1>4. \A t \in Sessions : /\ Known(t)' <=> Known(t)
                          /\ index'[t].kind = index[t].kind /\ index'[t].parent = index[t].parent
  BY <1>1, <1>3, Distinct DEF Known
<1>5. /\ TypeOK' /\ RefsLinked' /\ RequestsLinked' /\ LiveLinked' /\ NeverCold' /\ ChosenIsModel'
      /\ DOMAIN runtimes' = DOMAIN runtimes /\ runtimes'[r] = x
      /\ \A q \in DOMAIN runtimes :
           /\ q # r => runtimes'[q] = runtimes[q]
           /\ runtimes'[q].session = runtimes[q].session /\ runtimes'[q].state = runtimes[q].state
  <2>1. /\ runtimes' = [runtimes EXCEPT ![r] = x] /\ UNCHANGED <<live, op, got, chilled, overlapped>>
        /\ late' \subseteq Sessions /\ changes' \in 0..MaxChanges
    BY <1>2, <1>3
  <2>2. /\ x.session = runtimes[r].session /\ x.state = runtimes[r].state
        /\ x.delegates = runtimes[r].delegates /\ x.chosen = NoModel
    BY <1>1
  <2>3. index' \in [Sessions -> Ref \cup {NoRef}]
    BY <1>3
  <2> QED
    BY <1>0, <1>4, <2>1, <2>2, <2>3, ModelFieldsKeep
<1>6. Alone'
  <2> SUFFICES ASSUME ~overlapped PROVE Alone'
    BY <1>2 DEF Alone
  <2>1. ASSUME NEW q \in DOMAIN runtimes', runtimes'[q].state # "disposed"
        PROVE  live'[runtimes'[q].session] = q /\ Agrees(q)'
    <3>1. q \in DOMAIN runtimes /\ runtimes[q].state # "disposed" /\ runtimes[q].session \in Sessions
      BY <1>5, <2>1, RuntimeType DEF RegInv
    <3>2. live[runtimes[q].session] = q /\ Agrees(q)
      BY <3>1 DEF RegInv, Alone
    <3>3. CASE q = r
      <4>1. runtimes'[q] = x /\ x.session = s /\ x.model = m /\ index'[s].model = m
        BY <1>1, <1>3, <1>5, <3>3
      <4>2. live'[s] = q
        BY <1>1, <1>2, <3>2, <3>3
      <4> QED
        BY <4>1, <4>2 DEF Agrees
    <3>4. CASE q # r /\ runtimes[q].session # s
      BY <1>2, <1>3, <1>5, <3>1, <3>2, <3>4 DEF Agrees
    <3>5. CASE q # r /\ runtimes[q].session = s
      <4>1. runtimes[r].state = "disposed"
        BY <1>0, <1>1, <3>2, <3>5 DEF RegInv, Alone
      <4> QED
        BY <1>2, <1>5, <3>1, <3>2, <3>5, <4>1 DEF Agrees
    <3> QED
      BY <3>3, <3>4, <3>5
  <2>2. ASSUME NEW t \in Sessions, live'[t] # 0
        PROVE  \/ runtimes'[live'[t]].state = "attached"
               \/ \E o \in Ops : op'[o] # Idle /\ op'[o].kind = "evict" /\ op'[o].session = t
    <3>1. live'[t] = live[t] /\ live[t] \in DOMAIN runtimes
      BY <1>2, <2>2, LiveKnown
    <3> QED
      BY <1>2, <1>5, <2>2, <3>1 DEF RegInv, Alone
  <2>3. ASSUME NEW o \in Ops, op[o] # Idle, op[o].kind = "get"
        PROVE  /\ live'[op[o].session] = 0
               /\ op[o].ref = index'[op[o].session] \/ op[o].session \in late'
    <3>1. /\ live[op[o].session] = 0 /\ op[o].session \in Sessions
          /\ op[o].ref = index[op[o].session] \/ op[o].session \in late
      BY <2>3, OpType DEF RegInv, Alone
    <3>2. op[o].session = s => s \in late'
      <4>1. r # 0
        BY <1>0, RuntimeType DEF RegInv
      <4> QED
        BY <1>0, <1>1, <1>2, <3>1, <4>1 DEF RegInv, Alone
    <3> QED
      BY <1>2, <1>3, <3>1, <3>2
  <2> QED
    BY <1>2, <2>1, <2>2, <2>3 DEF RegInv, Alone
<1> QED
  BY <1>5, <1>6 DEF RegInv

\* The rows survive; whatever has one is cold from now on.
LEMMA RestartKeeps ==
  ASSUME RegInv, Restart
  PROVE  RegInv'
<1>1. /\ runtimes' = <<>> /\ index' = index /\ overlapped' = FALSE
      /\ live' = [s \in Sessions |-> 0] /\ op' = [o \in Ops |-> Idle]
      /\ got' = [o \in Ops |-> 0] /\ chilled' = {s \in Sessions : Known(s)}
      /\ late' = {} /\ changes' = changes
  BY DEF Restart
<1>2. /\ runtimes' \in Seq(Runtime) /\ Len(runtimes') = 0 /\ DOMAIN runtimes' = {}
  BY <1>1
<1>3. TypeOK'
  <2>1. 0 \in 0 .. Len(runtimes') /\ Len(runtimes') <= MaxRuntimes
    BY <1>2, RegistryAssumption
  <2>2. live' \in [Sessions -> 0 .. Len(runtimes')] /\ got' \in [Ops -> 0 .. Len(runtimes')]
    BY <1>1, <2>1
  <2>3. op' \in [Ops -> Busy \cup {Idle}] /\ chilled' \subseteq Sessions /\ overlapped' \in BOOLEAN
    BY <1>1
  <2>4. index' \in [Sessions -> Ref \cup {NoRef}] /\ late' \subseteq Sessions /\ changes' \in 0..MaxChanges
    BY <1>1 DEF RegInv, TypeOK
  <2> QED
    BY <1>2, <2>1, <2>2, <2>3, <2>4 DEF TypeOK
<1>4. RefsLinked'
  BY <1>1, <1>2 DEF RegInv, RefsLinked, Known, HasParent
<1>5. RequestsLinked' /\ LiveLinked' /\ NeverCold' /\ Alone' /\ ChosenIsModel'
  BY <1>1, <1>2 DEF RequestsLinked, LiveLinked, NeverCold, Alone, Known, ChosenIsModel
<1> QED
  BY <1>3, <1>4, <1>5 DEF RegInv

LEMMA InitRegInv == Init => RegInv
<1> SUFFICES ASSUME Init PROVE RegInv
  OBVIOUS
<1>1. runtimes \in Seq(Runtime) /\ Len(runtimes) = 0 /\ DOMAIN runtimes = {}
  BY DEF Init
<1>2. TypeOK
  <2>1. 0 \in 0 .. Len(runtimes) /\ Len(runtimes) <= MaxRuntimes
    BY <1>1, RegistryAssumption
  <2>2. live \in [Sessions -> 0 .. Len(runtimes)] /\ got \in [Ops -> 0 .. Len(runtimes)]
    BY <2>1 DEF Init
  <2>3. /\ op \in [Ops -> Busy \cup {Idle}] /\ chilled \subseteq Sessions /\ overlapped \in BOOLEAN
        /\ index \in [Sessions -> Ref \cup {NoRef}] /\ late \subseteq Sessions
    BY DEF Init
  <2>4. changes \in 0..MaxChanges
    <3>1. MaxChanges \in Nat /\ changes = 0
      BY RegistryAssumption DEF Init
    <3> QED
      BY <3>1
  <2> QED
    BY <1>1, <2>1, <2>2, <2>3, <2>4 DEF TypeOK
<1>3. RefsLinked /\ RequestsLinked /\ LiveLinked /\ NeverCold /\ Alone /\ ChosenIsModel
  BY <1>1 DEF Init, RefsLinked, RequestsLinked, LiveLinked, NeverCold, Alone, Known, ChosenIsModel
<1> QED
  BY <1>2, <1>3 DEF RegInv

LEMMA StepRegInv == RegInv /\ [Next]_vars => RegInv'
<1> SUFFICES ASSUME RegInv, [Next]_vars PROVE RegInv'
  OBVIOUS
<1>1. CASE Next
  BY <1>1, GetKeeps, CreateKeeps, SpawnKeeps, EvictKeeps, BuiltKeeps, BuildFailsKeeps,
     EvictedKeeps, SetModelKeeps, ModelChangedKeeps, RestartKeeps DEF Next
<1>2. CASE UNCHANGED vars
  <2>1. UNCHANGED <<index, runtimes, live, op, got, chilled, overlapped, late, changes>>
    BY <1>2 DEF vars, memory, requests, history
  <2> QED
    BY <2>1 DEF RegInv, TypeOK, RefsLinked, HasParent, RequestsLinked, RequestLinked, LiveLinked,
                NeverCold, Alone, Known, Agrees, ChosenIsModel
<1> QED
  BY <1>1, <1>2

-----------------------------------------------------------------------------
(* The theorems *)

\* The inductive invariant of the registry.
THEOREM RegistryInductive == Spec => []RegInv
BY InitRegInv, StepRegInv, PTL DEF Spec

\* Type correctness of the registry's map, index and requests.
THEOREM RegistryTypeCorrect == Spec => []TypeOK
BY RegistryInductive, PTL DEF RegInv

\* No subagent is ever given the spawn tool, whichever path built it.
THEOREM SubagentsNeverDelegate == Spec => []NoNesting
<1>1. RegInv => NoNesting
  <2> SUFFICES ASSUME RegInv PROVE NoNesting
    OBVIOUS
  <2>1. \A r \in DOMAIN runtimes : runtimes[r].session \in Sessions
    BY RuntimeType DEF RegInv
  <2> QED
    BY <2>1 DEF RegInv, RefsLinked, HasParent, NoNesting
<1> QED
  BY RegistryInductive, <1>1, PTL

\* A session that was never cold has one runtime, and the map has it.
THEOREM CreationHasOneWriter == Spec => []CreatedHasOneWriter
<1>1. RegInv => CreatedHasOneWriter
  <2> SUFFICES ASSUME RegInv, NEW s \in Sessions \ chilled
               PROVE  Of(s) = IF live[s] = 0 THEN {} ELSE {live[s]}
    BY DEF CreatedHasOneWriter
  <2>1. \A r \in Of(s) : r = live[s] /\ r # 0
    BY DEF Of, RegInv, NeverCold, TypeOK
  <2>2. live[s] # 0 => live[s] \in Of(s)
    BY LiveKnown DEF Of
  <2> QED
    BY <2>1, <2>2
<1> QED
  BY RegistryInductive, <1>1, PTL

\* While one request follows another a session has one writer, which has the
\* model its ref names or a reason not to (Agrees), and what get, create and spawn return is usable.
THEOREM OneRequestAtATime == Spec => OneAtATime
<1>1. RegInv => (~overlapped => SingleWriter /\ ModelKept)
  <2> SUFFICES ASSUME RegInv, ~overlapped PROVE SingleWriter /\ ModelKept
    OBVIOUS
  <2>1. \A r \in DOMAIN runtimes : runtimes[r].state # "disposed" =>
         live[runtimes[r].session] = r /\ Agrees(r)
    BY DEF RegInv, Alone
  <2>2. ASSUME NEW s \in Sessions PROVE Cardinality(Writers(s)) <= 1
    <3>1. Writers(s) \subseteq {live[s]}
      BY <2>1 DEF Writers, Of
    <3>2. IsFiniteSet({live[s]}) /\ Cardinality({live[s]}) = 1
      BY FS_Singleton
    <3>3. Cardinality(Writers(s)) <= Cardinality({live[s]})
      BY <3>1, <3>2, FS_Subset
    <3> QED
      BY <3>2, <3>3
  <2> QED
    BY <2>1, <2>2 DEF SingleWriter, ModelKept
<1>2. RegInv /\ [Next]_vars => [~overlapped' => Usable]_vars
  <2> SUFFICES ASSUME RegInv, Next, ~overlapped', NEW o \in Ops, got'[o] # got[o], got'[o] # 0
               PROVE  runtimes'[got'[o]].state = "attached"
    BY DEF Usable
  <2>1. ASSUME NEW p \in Ops, NEW s \in Sessions, Get(p, s)
        PROVE  runtimes'[got'[o]].state = "attached"
    <3>1. ~overlapped /\ \A q \in Ops : op[q] = Idle
      BY <2>1 DEF Get, Begun, RegInv, TypeOK
    <3>2. live[s] # 0 /\ got' = [got EXCEPT ![p] = live[s]] /\ runtimes' = runtimes
      BY <2>1 DEF Get, memory
    <3>3. got'[o] = live[s]
      BY <3>2 DEF RegInv, TypeOK
    <3> QED
      BY <3>1, <3>2, <3>3 DEF RegInv, Alone
  <2>2. ASSUME NEW p \in Ops, NEW resolves \in BOOLEAN, NEW default \in Models,
               Built(p, resolves, default)
        PROVE  runtimes'[got'[o]].state = "attached"
    <3>1. /\ op[p] # Idle
          /\ runtimes' = Append(runtimes, BuildSession(op[p], resolves, default))
          /\ got' = [got EXCEPT ![p] = Len(runtimes) + 1]
      BY <2>2 DEF Built, Instantiate
    <3>2. got'[o] = Len(runtimes) + 1
      BY <3>1 DEF RegInv, TypeOK
    <3>3. runtimes'[Len(runtimes) + 1] = BuildSession(op[p], resolves, default)
      BY <3>1, BuiltRuntime DEF RegInv, TypeOK
    <3> QED
      BY <3>1, <3>2, <3>3, BuiltRuntime
  <2>3. CASE Restart
    BY <2>3 DEF Restart
  <2>4. ASSUME NEW p \in Ops,
               \/ BuildFails(p) \/ Evicted(p)
               \/ (\E s \in Sessions : Evict(p, s) \/ \E m \in Models : Create(p, s, m))
               \/ (\E s \in Sessions, r \in 1..MaxRuntimes, override, preset \in Models \cup {NoModel},
                      restricted \in BOOLEAN : Spawn(p, s, r, override, preset, restricted))
        PROVE  FALSE
    BY <2>4 DEF BuildFails, Evicted, Evict, Create, Spawn
  <2>5. ASSUME NEW r \in 1..MaxRuntimes, ModelChanged(r) \/ \E m \in Models : SetModel(r, m)
        PROVE  FALSE
    BY <2>5 DEF SetModel, ModelChanged, requests
  <2> QED
    BY <2>1, <2>2, <2>3, <2>4, <2>5 DEF Next
<1> QED
  BY RegistryInductive, <1>1, <1>2, PTL DEF Spec, OneAtATime
=============================================================================
