---------------------------- MODULE GatewayProofs ----------------------------
(***************************************************************************)
(* The mailbox settles every command once, in the order of the posts, for  *)
(* any number of commands and any interleaving of posts with the drain.    *)
(* InOrder is inductive only with NoLostWakeup: a post that found          *)
(* draining down while something waited would put the new command first.   *)
(*                                                                         *)
(* The gateway answers honestly and lets no stale role through, for any    *)
(* number of principals and requests on any routes.  The proof reuses the  *)
(* mailbox's: every step of the gateway is a step of the mailbox or leaves *)
(* it alone, so that IInv holds, and what is added (GInv) ties the request *)
(* of a command to its place in the mailbox.                               *)
(***************************************************************************)
EXTENDS Gateway, SequenceTheorems, TLAPS

-----------------------------------------------------------------------------
(* The mailbox *)

\* #draining is up exactly while an item is being handled.
FlagsAgree ==
  /\ draining <=> (current # NoCommand)
  /\ (stage = "idle") <=> (current = NoCommand)

IInv == TypeOK /\ FlagsAgree /\ NoLostWakeup /\ InOrder /\ OnlyGrantedApplied

Pending == InFlight \o queue

-----------------------------------------------------------------------------
(* Facts about sequences *)

LEMMA AppendConcat ==
  ASSUME NEW s \in Seq(Commands), NEW t \in Seq(Commands), NEW e \in Commands
  PROVE  Append(s \o t, e) = s \o Append(t, e)
<1>1. /\ Append(s \o t, e) \in Seq(Commands) /\ s \o Append(t, e) \in Seq(Commands)
      /\ Len(Append(s \o t, e)) = Len(s) + Len(t) + 1
      /\ Len(s \o Append(t, e)) = Len(s) + Len(t) + 1
  BY ConcatProperties
<1>2. ASSUME NEW i \in 1 .. Len(s) + Len(t) + 1
      PROVE  Append(s \o t, e)[i] = (s \o Append(t, e))[i]
  OBVIOUS
<1> QED
  BY <1>1, <1>2, SeqEqual

LEMMA ConsConcat ==
  ASSUME NEW S, NEW s \in Seq(S), NEW t \in Seq(S), NEW e \in S
  PROVE  s \o (<<e>> \o t) = Append(s, e) \o t
<1>1. s \o (<<e>> \o t) = (s \o <<e>>) \o t
  BY ConcatAssociative
<1>2. s \o <<e>> = Append(s, e)
  <2>1. /\ s \o <<e>> \in Seq(S) /\ Append(s, e) \in Seq(S)
        /\ Len(s \o <<e>>) = Len(s) + 1 /\ Len(Append(s, e)) = Len(s) + 1
    BY ConcatProperties
  <2>2. ASSUME NEW i \in 1 .. Len(s) + 1 PROVE (s \o <<e>>)[i] = Append(s, e)[i]
    OBVIOUS
  <2> QED
    BY <2>1, <2>2, SeqEqual
<1> QED
  BY <1>1, <1>2

LEMMA HeadThenTail ==
  ASSUME NEW S, NEW q \in Seq(S), q # <<>>
  PROVE  /\ Head(q) \in S /\ Tail(q) \in Seq(S)
         /\ <<Head(q)>> \o Tail(q) = q
<1>1. /\ Head(q) \in S /\ Tail(q) \in Seq(S) /\ Len(Tail(q)) = Len(q) - 1
      /\ Len(q) \in Nat \ {0}
      /\ \A i \in 1 .. Len(Tail(q)) : Tail(q)[i] = q[i + 1]
  BY HeadTailProperties, EmptySeq, LenProperties
<1>2. /\ <<Head(q)>> \o Tail(q) \in Seq(S)
      /\ Len(<<Head(q)>> \o Tail(q)) = Len(q)
  BY <1>1, ConcatProperties
<1>3. ASSUME NEW i \in 1 .. Len(q) PROVE (<<Head(q)>> \o Tail(q))[i] = q[i]
  BY <1>1, <1>3
<1> QED
  BY <1>1, <1>2, <1>3, SeqEqual

-----------------------------------------------------------------------------
(* What the loop head and a settlement do *)

LEMMA CmdsOfType ==
  ASSUME NEW r \in Seq(Result)
  PROVE  /\ CmdsOf(r) \in Seq(Commands) /\ Len(CmdsOf(r)) = Len(r)
         /\ \A i \in 1..Len(r) : CmdsOf(r)[i] = r[i].cmd
<1>1. Len(r) \in Nat
  OBVIOUS
<1>2. ASSUME NEW i \in 1..Len(r) PROVE r[i].cmd \in Commands
  <2>1. r[i] \in Result
    BY ElementOfSeq
  <2> QED
    BY <2>1 DEF Result
<1> QED
  BY <1>1, <1>2 DEF CmdsOf

LEMMA PendingType ==
  ASSUME TypeOK
  PROVE  InFlight \in Seq(Commands) /\ Pending \in Seq(Commands)
<1>1. InFlight \in Seq(Commands)
  BY DEF InFlight, TypeOK
<1> QED
  BY <1>1, ConcatProperties DEF Pending, TypeOK

LEMMA LoopEffect ==
  ASSUME NEW q \in Seq(Commands), Loop(q)
  PROVE  /\ Pending' = q
         /\ FlagsAgree' /\ NoLostWakeup'
         /\ queue' \in Seq(Commands) /\ draining' \in BOOLEAN
         /\ current' \in Commands \cup {NoCommand}
         /\ stage' \in {"idle", "authorizing"}
<1>1. CASE q = <<>>
  <2>1. Pending' = <<>> \o <<>>
    BY <1>1 DEF Loop, Pending, InFlight
  <2> QED
    BY <1>1, <2>1, ConcatEmptySeq DEF Loop, FlagsAgree, NoLostWakeup
<1>2. CASE q # <<>>
  <2>1. Head(q) \in Commands /\ Tail(q) \in Seq(Commands) /\ <<Head(q)>> \o Tail(q) = q
    BY <1>2, HeadThenTail
  <2>2. Head(q) # NoCommand
    BY <2>1, MailboxAssumption
  <2>3. Pending' = q
    BY <1>2, <2>1, <2>2 DEF Loop, Pending, InFlight
  <2> QED
    BY <1>2, <2>1, <2>2, <2>3 DEF Loop, FlagsAgree, NoLostWakeup
<1> QED
  BY <1>1, <1>2

LEMMA SettleEffect ==
  ASSUME IInv, current # NoCommand, NEW ok \in BOOLEAN,
         ok => current \in granted, granted' = granted, Settle(ok)
  PROVE  /\ IInv'
         /\ Len(settled) < Len(posted)
         /\ settled' = Append(settled, [cmd |-> posted[Len(settled) + 1], accepted |-> ok])
<1> USE DEF IInv
<1> DEFINE result == [cmd |-> current, accepted |-> ok]
<1>1. /\ current \in Commands /\ queue \in Seq(Commands) /\ posted \in Seq(Commands)
      /\ settled \in Seq(Result)
  BY DEF TypeOK
<1>2. result \in Result
  BY <1>1 DEF Result
<1>3. settled' = Append(settled, result) /\ posted' = posted /\ Loop(queue)
  BY DEF Settle
<1>4. /\ Pending' = queue /\ FlagsAgree' /\ NoLostWakeup'
      /\ queue' \in Seq(Commands) /\ draining' \in BOOLEAN
      /\ current' \in Commands \cup {NoCommand}
      /\ stage' \in {"idle", "authorizing"}
  BY <1>1, <1>3, LoopEffect
<1>5. /\ settled' \in Seq(Result)
      /\ Len(settled) \in Nat /\ Len(settled') = Len(settled) + 1
      /\ \A i \in 1..Len(settled) : settled'[i] = settled[i]
      /\ settled'[Len(settled) + 1] = result
  BY <1>1, <1>2, <1>3
<1>6. TypeOK'
  BY <1>1, <1>3, <1>4, <1>5 DEF TypeOK
<1>7. CmdsOf(settled') = Append(Settled, current)
  <2>1. /\ CmdsOf(settled') \in Seq(Commands) /\ Len(CmdsOf(settled')) = Len(settled) + 1
        /\ \A i \in 1..Len(settled) + 1 : CmdsOf(settled')[i] = settled'[i].cmd
    BY <1>5, CmdsOfType
  <2>2. /\ Settled \in Seq(Commands) /\ Len(Settled) = Len(settled)
        /\ \A i \in 1..Len(settled) : Settled[i] = settled[i].cmd
    BY <1>1, CmdsOfType DEF Settled
  <2>3. /\ Append(Settled, current) \in Seq(Commands)
        /\ Len(Append(Settled, current)) = Len(settled) + 1
    BY <1>1, <2>2
  <2>4. ASSUME NEW i \in 1 .. Len(settled) + 1
        PROVE  CmdsOf(settled')[i] = Append(Settled, current)[i]
    <3>1. CASE i = Len(settled) + 1
      <4>1. Append(Settled, current)[i] = current
        BY <1>1, <2>2, <3>1
      <4>2. CmdsOf(settled')[i] = result.cmd
        BY <1>5, <2>1, <3>1
      <4> QED
        BY <4>1, <4>2
    <3>2. CASE i # Len(settled) + 1
      <4>1. i \in 1 .. Len(settled)
        BY <1>5, <3>2
      <4>2. Append(Settled, current)[i] = settled[i].cmd
        BY <1>1, <2>2, <4>1
      <4>3. CmdsOf(settled')[i] = settled[i].cmd
        BY <1>5, <2>1, <4>1
      <4> QED
        BY <4>2, <4>3
    <3> QED
      BY <3>1, <3>2
  <2> QED
    BY <2>1, <2>3, <2>4, SeqEqual
<1>8. posted = Settled \o (<<current>> \o queue)
  BY DEF InOrder, InFlight
<1>9. InOrder'
  <2>1. Settled \o (<<current>> \o queue) = Append(Settled, current) \o queue
    BY <1>1, CmdsOfType, ConsConcat DEF Settled
  <2>2. (Settled \o Pending)' = Append(Settled, current) \o queue
    BY <1>4, <1>7 DEF Settled
  <2> QED
    BY <1>3, <1>8, <2>1, <2>2 DEF InOrder, Pending
<1>10. OnlyGrantedApplied'
  BY <1>1, <1>3, <1>4, <1>5 DEF OnlyGrantedApplied
<1>11. Len(settled) < Len(posted) /\ posted[Len(settled) + 1] = current
  <2>1. Settled \in Seq(Commands) /\ Len(Settled) = Len(settled)
    BY <1>1, CmdsOfType DEF Settled
  <2> DEFINE rest == <<current>> \o queue
  <2>2. /\ rest \in Seq(Commands) /\ Len(rest) = Len(queue) + 1
        /\ Len(queue) \in Nat /\ rest[1] = current
    BY <1>1
  <2> HIDE DEF rest
  <2>3. posted = Settled \o rest
    BY <1>8 DEF rest
  <2>4. /\ Len(posted) = Len(Settled) + Len(rest)
        /\ posted[Len(Settled) + 1] = rest[1]
    BY <1>5, <2>1, <2>2, <2>3
  <2> QED
    BY <1>5, <2>1, <2>2, <2>4
<1> QED
  BY <1>3, <1>4, <1>6, <1>9, <1>10, <1>11

\* A post lands behind everything that is pending.
LEMMA PostIInv ==
  ASSUME IInv, NEW c \in Commands, Post(c)
  PROVE  IInv'
<1> USE DEF IInv
<1>1. queue \in Seq(Commands) /\ posted \in Seq(Commands) /\ Append(queue, c) \in Seq(Commands)
  BY DEF TypeOK
<1>2. InFlight \in Seq(Commands) /\ Pending \in Seq(Commands) /\ Settled \in Seq(Commands)
  BY PendingType, CmdsOfType DEF TypeOK, Settled
<1>3. /\ Pending' = Append(Pending, c)
      /\ TypeOK' /\ FlagsAgree' /\ NoLostWakeup' /\ OnlyGrantedApplied'
  <2>1. CASE draining
    <3>1. /\ queue' = Append(queue, c)
          /\ UNCHANGED <<draining, current, stage, granted, settled>>
      BY <2>1 DEF Post
    <3>2. Pending' = Append(Pending, c)
      BY <1>1, <1>2, <3>1, AppendConcat DEF Pending, InFlight
    <3> QED
      BY <1>1, <2>1, <3>1, <3>2
         DEF Post, TypeOK, FlagsAgree, NoLostWakeup, OnlyGrantedApplied
  <2>2. CASE ~draining
    <3>1. queue = <<>> /\ current = NoCommand
      BY <2>2 DEF NoLostWakeup
    <3>2. Loop(Append(queue, c)) /\ UNCHANGED <<granted, settled>>
      BY <2>2 DEF Post
    <3>3. /\ Pending' = Append(queue, c) /\ FlagsAgree' /\ NoLostWakeup'
          /\ queue' \in Seq(Commands) /\ draining' \in BOOLEAN
          /\ current' \in Commands \cup {NoCommand}
          /\ stage' \in {"idle", "authorizing"}
      BY <1>1, <3>2, LoopEffect
    <3>4. Pending = queue
      BY <1>1, <3>1, ConcatEmptySeq DEF Pending, InFlight
    <3>5. TypeOK' /\ OnlyGrantedApplied'
      BY <1>1, <3>2, <3>3 DEF Post, TypeOK, OnlyGrantedApplied
    <3> QED
      BY <3>3, <3>4, <3>5
  <2> QED
    BY <2>1, <2>2
<1>4. InOrder'
  <2>1. posted' = Append(Settled \o Pending, c)
    BY DEF Post, InOrder, Pending
  <2>2. Settled' = Settled
    BY DEF Post, Settled
  <2>3. Append(Settled \o Pending, c) = Settled \o Append(Pending, c)
    BY <1>2, AppendConcat
  <2>4. posted' = Settled' \o Pending'
    BY <1>3, <2>1, <2>2, <2>3
  <2> QED
    BY <2>4 DEF InOrder, Pending
<1> QED
  BY <1>3, <1>4

LEMMA InitIInv == Init => IInv
<1> SUFFICES ASSUME Init PROVE IInv
  OBVIOUS
<1>1. TypeOK
  <2>1. <<>> \in Seq(Commands) /\ <<>> \in Seq(Result)
    OBVIOUS
  <2> QED
    BY <2>1 DEF Init, TypeOK
<1>2. FlagsAgree /\ NoLostWakeup /\ OnlyGrantedApplied
  BY DEF Init, FlagsAgree, NoLostWakeup, OnlyGrantedApplied
<1>3. Settled = <<>> /\ Pending = <<>>
  BY CmdsOfType, ConcatEmptySeq DEF Init, Settled, CmdsOf, Pending, InFlight
<1>4. InOrder
  BY <1>3, ConcatEmptySeq DEF InOrder, Pending, Init
<1> QED
  BY <1>1, <1>2, <1>4 DEF IInv

\* The gate's verdict moves the command on to apply, or settles it.
LEMMA AllowIInv ==
  ASSUME IInv, Allow
  PROVE  IInv'
BY DEF IInv, Allow, TypeOK, FlagsAgree, NoLostWakeup, InOrder, Settled, InFlight,
       OnlyGrantedApplied

LEMMA SettlingSteps ==
  ASSUME IInv, Deny \/ Applied \/ ApplyThrows
  PROVE  IInv' /\ Executor!SettleNext
<1>1. current # NoCommand
  BY DEF IInv, FlagsAgree, Deny, Applied, ApplyThrows
<1>2. PICK ok \in BOOLEAN :
        (ok => current \in granted) /\ granted' = granted /\ Settle(ok)
  BY DEF IInv, OnlyGrantedApplied, Deny, Applied, ApplyThrows
<1> QED
  BY <1>1, <1>2, SettleEffect DEF Executor!SettleNext, Settle

\* The inductive invariant holds in every reachable state.
THEOREM Inductive == Spec => []IInv
<1>1. IInv /\ [Next]_vars => IInv'
  <2> SUFFICES ASSUME IInv, [Next]_vars PROVE IInv'
    OBVIOUS
  <2>1. CASE Next
    BY <2>1, PostIInv, AllowIInv, SettlingSteps DEF Next
  <2>2. CASE UNCHANGED vars
    BY <2>2 DEF vars, IInv, TypeOK, FlagsAgree, NoLostWakeup, InOrder, Settled, CmdsOf,
                InFlight, OnlyGrantedApplied
  <2> QED
    BY <2>1, <2>2
<1> QED
  BY InitIInv, <1>1, PTL DEF Spec

\* Type correctness of the mailbox of mailbox.ts.
THEOREM TypeCorrect == Spec => []TypeOK
BY Inductive, PTL DEF IInv

\* However posts interleave with the drain, no command is lost, doubled or
\* overtaken.
THEOREM CommandsInOrder == Spec => []InOrder
BY Inductive, PTL DEF IInv

\* Nothing ever waits in the queue without a drain that will reach it.
THEOREM WakeupsKept == Spec => []NoLostWakeup
BY Inductive, PTL DEF IInv

\* Nothing is applied or reported accepted that authorize did not let through.
THEOREM GateKept == Spec => []OnlyGrantedApplied
BY Inductive, PTL DEF IInv

\* Every step of the mailbox is a post, a settlement of the oldest unsettled
\* command, or invisible to the callers: the safety half of ImplementsExecutor.
THEOREM ExecutorRefinement == Spec => Executor!SafeSpec
<1>1. Init => Executor!Init
  BY DEF Init, Executor!Init
<1>2. IInv /\ [Next]_vars => [Executor!Next]_(Executor!vars)
  <2> SUFFICES ASSUME IInv, [Next]_vars PROVE [Executor!Next]_(Executor!vars)
    OBVIOUS
  <2>1. ASSUME NEW c \in Commands, Post(c) PROVE Executor!Post(c)
    BY <2>1 DEF Post, Executor!Post
  <2>2. CASE Next
    BY <2>1, <2>2, SettlingSteps DEF Next, Allow, Executor!Next, Executor!vars
  <2>3. CASE UNCHANGED vars
    BY <2>3 DEF vars, Executor!vars
  <2> QED
    BY <2>2, <2>3
<1> QED
  BY Inductive, <1>1, <1>2, PTL DEF Spec, Executor!SafeSpec

-----------------------------------------------------------------------------
(* The gateway *)

Posted(c) == \E i \in DOMAIN posted : posted[i] = c
Queued(c) == \E i \in DOMAIN queue : queue[i] = c
SettledCmd(c) == \E i \in DOMAIN settled : settled[i].cmd = c

\* A command is in one place only, and only posted commands are in any.
OnePlace ==
  /\ \A i, j \in DOMAIN queue : queue[i] = queue[j] => i = j
  /\ \A c \in Commands : Queued(c) => Posted(c) /\ c # current /\ c \notin granted
  /\ \A c \in Commands : c = current => Posted(c)
  /\ \A c \in granted : Posted(c)
  /\ \A c \in Commands : SettledCmd(c) => Posted(c)

\* Whose command waits, if it is barred: someone who may not write now.
BarredWait ==
  \A c \in barred : Queued(c) /\ ~Gate(c)

\* What a request has come to, given its place in the mailbox.
Linked(c) ==
  /\ Posted(c) => /\ On(c, "commands") /\ req[c].at \in {"posted", "done"}
                  /\ req[c].who \in Principals
                  /\ answer[c] \in {0, 200}
  /\ req[c] = Unused => answer[c] = 0
  /\ req[c] # Unused /\ ~At(c, "done") => answer[c] = 0
  /\ req[c] # Unused /\ req[c].at \in {"ref", "body", "work"} => req[c].who \in Principals
  /\ ~Posted(c) /\ (req[c] = Unused \/ ~At(c, "done")) => c \notin changed
  /\ answer[c] \notin {0, 200} => c \notin changed
  /\ On(c, "commands") => /\ answer[c] = 200 => SettledCmd(c)
                          /\ Accepted(c) <=> c \in changed

GInv == IInv /\ GatewayTypeOK /\ OnePlace /\ BarredWait /\ \A c \in Commands : Linked(c)

-----------------------------------------------------------------------------
(* Steps of one request that leave the mailbox alone *)

LEMMA StutterIInv ==
  ASSUME IInv, UNCHANGED vars
  PROVE  IInv'
BY DEF vars, IInv, TypeOK, FlagsAgree, NoLostWakeup, InOrder, Settled, CmdsOf, InFlight,
       OnlyGrantedApplied

LEMMA RequestStep ==
  ASSUME GInv, NEW c \in Commands, Quiet,
         req' = [req EXCEPT ![c] = req'[c]], req'[c] \in Request \cup {Unused},
         answer' = [answer EXCEPT ![c] = answer'[c]],
         answer'[c] \in {0, 200, 400, 401, 403, 404, 500},
         changed' \subseteq Commands, changed' \ {c} = changed \ {c},
         Posted(c) => req'[c].who = req[c].who,
         Linked(c)'
  PROVE  GInv'
<1>1. UNCHANGED <<vars, role, verdict, barred, delivered>>
  BY DEF Quiet, box
<1>2. IInv' /\ TypeOK'
  BY <1>1, StutterIInv DEF GInv, IInv
<1>3. GatewayTypeOK'
  BY <1>1, <1>2 DEF GInv, GatewayTypeOK
<1>4. /\ UNCHANGED <<queue, posted, settled, current, granted>>
      /\ \A d \in Commands : Posted(d)' <=> Posted(d)
      /\ \A d \in Commands : Queued(d)' <=> Queued(d)
      /\ \A d \in Commands : SettledCmd(d)' <=> SettledCmd(d)
      /\ \A d \in Commands : Accepted(d)' <=> Accepted(d)
  BY <1>1 DEF vars, Posted, Queued, SettledCmd, Accepted
<1>5. OnePlace'
  BY <1>4 DEF GInv, OnePlace, Posted, Queued, SettledCmd
<1>6. BarredWait'
  <2> SUFFICES ASSUME NEW d \in barred PROVE Queued(d) /\ ~Gate(d)'
    BY <1>1, <1>4, GInv DEF BarredWait, GInv, GatewayTypeOK
  <2>1. d \in Commands /\ Queued(d) /\ Posted(d) /\ ~Gate(d)
    BY DEF GInv, GatewayTypeOK, BarredWait, OnePlace
  <2>2. req'[d].who = req[d].who
    BY <2>1 DEF GInv, GatewayTypeOK
  <2> QED
    BY <1>1, <2>1, <2>2 DEF Gate, RoleFor
<1>7. ASSUME NEW d \in Commands PROVE Linked(d)'
  <2>1. CASE d = c
    BY <2>1
  <2>2. CASE d # c
    <3>1. req'[d] = req[d] /\ answer'[d] = answer[d]
      BY <2>2 DEF GInv, GatewayTypeOK
    <3> QED
      BY <1>4, <2>2, <3>1 DEF GInv, Linked, On, At
  <2> QED
    BY <2>1, <2>2
<1> QED
  BY <1>2, <1>3, <1>5, <1>6, <1>7 DEF GInv

\* A request that has not posted is open: nothing was answered, nothing changed.
Open(c) == req[c] # Unused /\ req[c].at \in {"principal", "ref", "body", "work"}

LEMMA OpenFacts ==
  ASSUME GInv, NEW c \in Commands, Open(c)
  PROVE  /\ req[c] \in Request /\ ~Posted(c) /\ answer[c] = 0 /\ c \notin changed
         /\ ~SettledCmd(c) /\ ~Accepted(c)
<1>1. req[c] \in Request /\ req[c] # Unused /\ ~At(c, "done")
  BY DEF GInv, GatewayTypeOK, Open, At
<1>2. ~Posted(c) /\ answer[c] = 0
  BY <1>1 DEF GInv, Linked, Open
<1>3. ~SettledCmd(c) /\ ~Accepted(c)
  BY <1>2 DEF GInv, OnePlace, SettledCmd, Accepted
<1> QED
  BY <1>1, <1>2, <1>3 DEF GInv, Linked

\* Where the mailbox is left alone, so are the places of all commands.
LEMMA QuietPlaces ==
  ASSUME Quiet, NEW c \in Commands
  PROVE  /\ Posted(c)' <=> Posted(c)
         /\ SettledCmd(c)' <=> SettledCmd(c)
         /\ Accepted(c)' <=> Accepted(c)
BY DEF Quiet, box, vars, Posted, SettledCmd, Accepted

\* An open request goes on to a later stage, or comes to know its principal.
LEMMA MoveKeeps ==
  ASSUME GInv, NEW c \in Commands, Open(c), Quiet,
         req' = [req EXCEPT ![c] = req'[c]], req'[c] \in Request,
         req'[c].at \in {"ref", "body", "work"}, req'[c].who \in Principals,
         req'[c].route = req[c].route,
         UNCHANGED <<answer, changed>>
  PROVE  GInv'
<1>1. /\ answer' = [answer EXCEPT ![c] = 0] /\ answer'[c] = 0 
      /\ req'[c] # Unused /\ changed' \subseteq Commands
  BY OpenFacts DEF GInv, GatewayTypeOK, Request, Unused
<1>2. Linked(c)'
  BY <1>1, OpenFacts, QuietPlaces DEF Linked, On, At
<1> QED
  BY <1>1, <1>2, OpenFacts, RequestStep

LEMMA RefuseKeeps ==
  ASSUME GInv, NEW c \in Commands, Open(c),
         NEW status \in {400, 401, 403, 404, 500}, Refuse(c, status)
  PROVE  GInv'
<1> DEFINE r == [req[c] EXCEPT !.at = "done"]
<1>1. /\ Quiet /\ req' = [req EXCEPT ![c] = r] /\ answer' = [answer EXCEPT ![c] = status]
      /\ changed' = changed
  BY DEF Refuse, Answer
<1>2. /\ r \in Request /\ r.at = "done" /\ r.route = req[c].route /\ r # Unused
      /\ req'[c] = r /\ answer'[c] = status /\ changed' \subseteq Commands
  BY <1>1, OpenFacts DEF GInv, GatewayTypeOK, Request, Unused
<1> HIDE DEF r
<1>3. Linked(c)'
  BY <1>1, <1>2, OpenFacts, QuietPlaces DEF Linked, On, At
<1>4. changed' \ {c} = changed \ {c}
  BY <1>1
<1>5. req' = [req EXCEPT ![c] = req'[c]] /\ req'[c] \in Request \cup {Unused}
  BY <1>1, <1>2
<1>6. answer' = [answer EXCEPT ![c] = answer'[c]]
  BY <1>1, <1>2
<1>7. answer'[c] \in {0, 200, 400, 401, 403, 404, 500}
  BY <1>2
<1>8. ~Posted(c) /\ Quiet
  BY <1>1, OpenFacts
<1> QED
  BY <1>2, <1>3, <1>4, <1>5, <1>6, <1>7, <1>8, RequestStep

\* Success is answered by routes that post nothing, whether they change anything or not.
LEMMA SucceedKeeps ==
  ASSUME GInv, NEW c \in Commands, Open(c), req[c].route # "commands", Succeed(c) \/ Effect(c)
  PROVE  GInv'
<1> DEFINE r == [req[c] EXCEPT !.at = "done"]
<1>1. /\ Quiet /\ req' = [req EXCEPT ![c] = r] /\ answer' = [answer EXCEPT ![c] = 200]
      /\ changed' \in {changed, changed \cup {c}}
  BY DEF Succeed, Effect, Answer
<1>2. /\ r \in Request /\ r.at = "done" /\ r.route = req[c].route /\ r # Unused
      /\ req'[c] = r /\ answer'[c] = 200 /\ changed' \subseteq Commands
  BY <1>1, OpenFacts DEF GInv, GatewayTypeOK, Request, Unused
<1> HIDE DEF r
<1>3. Linked(c)'
  BY <1>1, <1>2, OpenFacts, QuietPlaces DEF Linked, On, At
<1>4. changed' \ {c} = changed \ {c}
  BY <1>1
<1>5. /\ req' = [req EXCEPT ![c] = req'[c]] /\ answer' = [answer EXCEPT ![c] = answer'[c]]
      /\ req'[c] \in Request \cup {Unused} /\ answer'[c] \in {0, 200, 400, 401, 403, 404, 500}
      /\ ~Posted(c) /\ Quiet
  BY <1>1, <1>2, OpenFacts
<1> QED
  BY <1>2, <1>3, <1>4, <1>5, RequestStep

LEMMA GoKeeps ==
  ASSUME GInv, NEW c \in Commands, Open(c), req[c].at # "principal",
         NEW stage0 \in {"body", "work"}, Go(c, stage0)
  PROVE  GInv'
<1> DEFINE r == [req[c] EXCEPT !.at = stage0]
<1>1. Quiet /\ req' = [req EXCEPT ![c] = r] /\ UNCHANGED <<answer, changed>>
  BY DEF Go
<1>2. req[c].who \in Principals
  BY DEF GInv, Linked, Open
<1>3. /\ r \in Request /\ r.at \in {"ref", "body", "work"} /\ r.who \in Principals
      /\ r.route = req[c].route /\ req'[c] = r
  BY <1>1, <1>2, OpenFacts DEF GInv, GatewayTypeOK, Request
<1> HIDE DEF r
<1> QED
  BY <1>1, <1>3, MoveKeeps

LEMMA IdentifiedKeeps ==
  ASSUME GInv, NEW c \in Commands, NEW p \in Principals, Identified(c, p)
  PROVE  GInv'
<1>1. Open(c)
  BY DEF Identified, At, Open
<1>2. CASE \E stage0 \in {"ref", "body", "work"} :
             /\ req' = [req EXCEPT ![c].who = p, ![c].at = stage0]
             /\ Quiet /\ UNCHANGED <<answer, changed, reads>>
  <2>1. PICK stage0 \in {"ref", "body", "work"} :
             /\ req' = [req EXCEPT ![c].who = p, ![c].at = stage0]
             /\ Quiet /\ UNCHANGED <<answer, changed, reads>>
    BY <1>2
  <2> DEFINE r == [req[c] EXCEPT !.who = p, !.at = stage0]
  <2>2. req' = [req EXCEPT ![c] = r]
    <3> DEFINE with == [req EXCEPT ![c].who = p]
    <3>1. with = [req EXCEPT ![c] = [req[c] EXCEPT !.who = p]]
      OBVIOUS
    <3>2. req' = [with EXCEPT ![c] = [with[c] EXCEPT !.at = stage0]]
      BY <2>1
    <3>3. with[c] = [req[c] EXCEPT !.who = p] /\ req \in [Commands -> Request \cup {Unused}]
      BY <3>1 DEF GInv, GatewayTypeOK
    <3> QED
      BY <3>1, <3>2, <3>3
  <2>3. /\ r \in Request /\ r.at = stage0 /\ r.who = p /\ r.route = req[c].route
        /\ req'[c] = r
    <3> DEFINE s == [req[c] EXCEPT !.who = p]
    <3>1. s \in Request /\ s.who = p /\ s.route = req[c].route
      BY <1>1, OpenFacts DEF Request
    <3> HIDE DEF s
    <3>2. r = [s EXCEPT !.at = stage0]
      BY DEF s
    <3>3. /\ [s EXCEPT !.at = stage0] \in Request /\ [s EXCEPT !.at = stage0].at = stage0
          /\ [s EXCEPT !.at = stage0].who = p
          /\ [s EXCEPT !.at = stage0].route = req[c].route
      BY <3>1 DEF Request
    <3>4. req'[c] = r
      BY <2>2 DEF GInv, GatewayTypeOK
    <3> QED
      BY <3>2, <3>3, <3>4
  <2> HIDE DEF r
  <2> QED
    BY <1>1, <2>1, <2>2, <2>3, MoveKeeps
<1>3. CASE Refuse(c, 403) \/ Refuse(c, 400)
  BY <1>1, <1>3, RefuseKeeps
<1> QED
  BY <1>2, <1>3 DEF Identified

LEMMA ArriveKeeps ==
  ASSUME GInv, NEW c \in Commands, NEW route \in Routes[c], NEW named \in BOOLEAN,
         Arrive(c, route, named)
  PROVE  GInv'
<1> DEFINE r == [at |-> "principal", route |-> route, named |-> named,
                 who |-> Nobody, asks |-> "followUp"]
<1>1. /\ req[c] = Unused /\ Quiet /\ req' = [req EXCEPT ![c] = r]
      /\ UNCHANGED <<answer, changed>>
  BY DEF Arrive
<1>2. route \in AllRoutes
  BY GatewayAssumption
<1>3. r \in Request /\ r # Unused /\ r.at = "principal" /\ req'[c] = r
  BY <1>1, <1>2 DEF GInv, GatewayTypeOK, Request, Unused
<1> HIDE DEF r
<1>4. ~Posted(c) /\ answer[c] = 0 /\ c \notin changed /\ ~SettledCmd(c) /\ ~Accepted(c)
  BY <1>1 DEF GInv, Linked, On, OnePlace, SettledCmd, Accepted
<1>5. answer' = [answer EXCEPT ![c] = 0] /\ changed' \subseteq Commands
  BY <1>1, <1>4 DEF GInv, GatewayTypeOK
<1>6. Linked(c)'
  BY <1>1, <1>3, <1>4, QuietPlaces DEF Linked, On, At
<1> QED
  BY <1>1, <1>3, <1>4, <1>5, <1>6, RequestStep

LEMMA ReuseKeeps ==
  ASSUME GInv, NEW c \in Commands, Reuse(c)
  PROVE  GInv'
<1>1. /\ req' = [req EXCEPT ![c] = Unused] /\ answer' = [answer EXCEPT ![c] = 0]
      /\ Quiet /\ changed' = changed \ {c} /\ ~Posted(c)
  BY DEF Reuse, Posted
<1>2. req'[c] = Unused /\ answer'[c] = 0 /\ c \notin changed' /\ changed' \subseteq Commands
  BY <1>1 DEF GInv, GatewayTypeOK
<1>3. Linked(c)'
  BY <1>1, <1>2, QuietPlaces DEF Linked, On
<1>4. changed' \ {c} = changed \ {c}
  BY <1>1
<1>5. /\ req' = [req EXCEPT ![c] = req'[c]] /\ answer' = [answer EXCEPT ![c] = answer'[c]]
      /\ req'[c] \in Request \cup {Unused} /\ answer'[c] \in {0, 200, 400, 401, 403, 404, 500}
  BY <1>1, <1>2
<1> QED
  BY <1>1, <1>2, <1>3, <1>4, <1>5, RequestStep

LEMMA RepliedKeeps ==
  ASSUME GInv, NEW c \in Commands, Replied(c)
  PROVE  GInv'
<1> DEFINE r == [req[c] EXCEPT !.at = "done"]
<1>1. /\ On(c, "commands") /\ At(c, "posted") /\ SettledCmd(c) /\ Quiet
      /\ req' = [req EXCEPT ![c] = r] /\ answer' = [answer EXCEPT ![c] = 200]
      /\ changed' = changed
  BY DEF Replied, SettledCmd
<1>2. /\ req[c] \in Request /\ req[c] # Unused /\ req[c].route = "commands" /\ Posted(c)
      /\ req[c].who \in Principals /\ (Accepted(c) <=> c \in changed)
  BY <1>1 DEF GInv, GatewayTypeOK, Linked, On, OnePlace
<1>3. /\ r \in Request /\ r.at = "done" /\ r.route = "commands" /\ r.who = req[c].who
      /\ r # Unused /\ req'[c] = r /\ answer'[c] = 200 /\ changed' \subseteq Commands
  BY <1>1, <1>2 DEF GInv, GatewayTypeOK, Request, Unused
<1> HIDE DEF r
<1>4. Linked(c)'
  BY <1>1, <1>2, <1>3, QuietPlaces DEF Linked, On, At
<1>5. /\ req' = [req EXCEPT ![c] = req'[c]] /\ answer' = [answer EXCEPT ![c] = answer'[c]]
      /\ req'[c] \in Request \cup {Unused} /\ answer'[c] \in {0, 200, 400, 401, 403, 404, 500}
      /\ changed' \ {c} = changed \ {c} /\ req'[c].who = req[c].who
  BY <1>1, <1>3
<1> QED
  BY <1>1, <1>2, <1>3, <1>4, <1>5, RequestStep

\* Every route, up to where a command is posted.
LEMMA RoutesKeep ==
  ASSUME GInv, NEW c \in Commands,
         \/ Unauthenticated(c) \/ Projection(c) \/ CreateSession(c) \/ ListSessions(c)
         \/ ListSkills(c) \/ PromptPreview(c) \/ ListModels(c) \/ SkillVisibility(c)
         \/ History(c) \/ (PostCommand(c) /\ ~Post(c))
  PROVE  GInv'
<1>1. CASE Unauthenticated(c)
  BY <1>1, RefuseKeeps DEF Unauthenticated, At, Open
<1>2. CASE Projection(c)
  BY <1>2, RefuseKeeps, GoKeeps, SucceedKeeps DEF Projection, On, At, Open
<1>3. CASE CreateSession(c)
  BY <1>3, RefuseKeeps, GoKeeps, SucceedKeeps DEF CreateSession, On, At, Open
<1>4. CASE ListSessions(c) \/ ListSkills(c) \/ PromptPreview(c) \/ ListModels(c)
  BY <1>4, RefuseKeeps, SucceedKeeps
     DEF ListSessions, ListSkills, PromptPreview, ListModels, On, At, Open
<1>5. CASE SkillVisibility(c)
  BY <1>5, RefuseKeeps, GoKeeps, SucceedKeeps DEF SkillVisibility, On, At, Open
<1>6. CASE History(c)
  BY <1>6, RefuseKeeps, GoKeeps, SucceedKeeps DEF History, On, At, Open
<1>7. CASE PostCommand(c) /\ ~Post(c)
  <2>1. CASE \/ Refuse(c, 403) \/ Refuse(c, 400) \/ Go(c, "body")
    BY <1>7, <2>1, RefuseKeeps, GoKeeps DEF PostCommand, On, At, Open
  <2>2. ASSUME NEW b \in Behaviors, At(c, "body"),
               req' = [req EXCEPT ![c].at = "work", ![c].asks = b], Quiet,
               UNCHANGED <<answer, changed>>
        PROVE  GInv'
    <3>1. Open(c) /\ req[c] \in Request /\ req[c].who \in Principals
      <4>1. Open(c) /\ req[c].at = "body" /\ req[c] # Unused
        BY <1>7, <2>2 DEF PostCommand, On, At, Open
      <4> QED
        BY <4>1, OpenFacts DEF GInv, Linked
    <3> DEFINE s == [req[c] EXCEPT !.at = "work"]
    <3>2. /\ s \in Request /\ s.at = "work" /\ s.who = req[c].who /\ s.route = req[c].route
      BY <3>1 DEF Request
    <3>3. req' = [req EXCEPT ![c] = [s EXCEPT !.asks = b]]
      <4> DEFINE with == [req EXCEPT ![c].at = "work"]
      <4>1. with = [req EXCEPT ![c] = s]
        OBVIOUS
      <4>2. req' = [with EXCEPT ![c] = [with[c] EXCEPT !.asks = b]]
        BY <2>2
      <4>3. with[c] = s /\ req \in [Commands -> Request \cup {Unused}]
        BY <4>1 DEF GInv, GatewayTypeOK
      <4> QED
        BY <4>1, <4>2, <4>3
    <3> HIDE DEF s
    <3> DEFINE r == [s EXCEPT !.asks = b]
    <3>4. b \in {"steer", "followUp"}
      BY GatewayAssumption
    <3>5. /\ r \in Request /\ r.at = "work" /\ r.who = req[c].who /\ r.route = req[c].route
      BY <3>2, <3>4 DEF Request
    <3>6. req'[c] = r
      BY <3>3 DEF GInv, GatewayTypeOK
    <3> HIDE DEF r
    <3>7. req' = [req EXCEPT ![c] = req'[c]]
      BY <3>3, <3>6 DEF r
    <3> QED
      BY <2>2, <3>1, <3>5, <3>6, <3>7, MoveKeeps
  <2> QED
    BY <1>7, <2>1, <2>2 DEF PostCommand
<1> QED
  BY <1>1, <1>2, <1>3, <1>4, <1>5, <1>6, <1>7

-----------------------------------------------------------------------------
(* Steps of the mailbox *)

\* The head of the loop takes from q what was first in it, and nothing else.
LEMMA LoopPlaces ==
  ASSUME NEW q \in Seq(Commands), Loop(q), \A i, j \in DOMAIN q : q[i] = q[j] => i = j
  PROVE  /\ \A i, j \in DOMAIN queue' : queue'[i] = queue'[j] => i = j
         /\ \A c \in Commands : Queued(c)' => (\E i \in DOMAIN q : q[i] = c) /\ c # current'
         /\ \A c \in Commands : c = current' => \E i \in DOMAIN q : q[i] = c
         /\ stage' = IF q = <<>> THEN "idle" ELSE "authorizing"
<1>1. CASE q = <<>>
  BY <1>1, MailboxAssumption DEF Loop, Queued
<1>2. CASE q # <<>>
  <2>1. /\ current' = q[1] /\ queue' = Tail(q) /\ stage' = "authorizing"
        /\ Len(q) \in Nat \ {0} /\ DOMAIN q = 1 .. Len(q)
    BY <1>2, EmptySeq, LenProperties, HeadTailProperties DEF Loop
  <2>2. /\ DOMAIN queue' = 1 .. (Len(q) - 1)
        /\ \A i \in 1 .. (Len(q) - 1) : queue'[i] = q[i + 1]
    BY <1>2, <2>1, HeadTailProperties
  <2>3. \A i, j \in DOMAIN queue' : queue'[i] = queue'[j] => i = j
    <3> SUFFICES ASSUME NEW i \in DOMAIN queue', NEW j \in DOMAIN queue', queue'[i] = queue'[j]
                 PROVE  i = j
      OBVIOUS
    <3>1. q[i + 1] = q[j + 1] /\ i + 1 \in DOMAIN q /\ j + 1 \in DOMAIN q
      BY <2>1, <2>2
    <3> QED
      BY <2>1, <2>2, <3>1
  <2>4. ASSUME NEW c \in Commands, NEW i \in DOMAIN queue', queue'[i] = c
        PROVE  (\E k \in DOMAIN q : q[k] = c) /\ c # current'
    <3>1. q[i + 1] = c /\ i + 1 \in DOMAIN q /\ i + 1 # 1 /\ 1 \in DOMAIN q
      BY <2>1, <2>2, <2>4
    <3> QED
      BY <2>1, <3>1
  <2> QED
    BY <1>2, <2>1, <2>3, <2>4 DEF Queued
<1> QED
  BY <1>1, <1>2

\* What the gate makes of a command that is just taken, it makes of the role of
\* the moment; and a barred command stays so as long as it waits.
LEMMA DecideKeeps ==
  ASSUME GInv, Decide, UNCHANGED role,
         \A c \in Commands : Queued(c) => req'[c].who = req[c].who
  PROVE  /\ BarredWait' /\ verdict' \in BOOLEAN /\ barred' \subseteq Commands
<1>1. barred' = {c \in barred : Queued(c)'}
  BY DEF Decide, Queued
<1>2. verdict' \in BOOLEAN
  BY DEF Decide, Gate, Authorize, GInv, GatewayTypeOK
<1>3. barred' \subseteq Commands
  BY <1>1 DEF GInv, GatewayTypeOK
<1>4. ASSUME NEW c \in barred' PROVE Queued(c)' /\ ~Gate(c)'
  <2>1. c \in Commands /\ c \in barred /\ Queued(c) /\ ~Gate(c) /\ Queued(c)'
    BY <1>1, <1>3 DEF GInv, BarredWait
  <2> QED
    BY <2>1 DEF Gate, RoleFor
<1> QED
  BY <1>2, <1>3, <1>4 DEF BarredWait

LEMMA SettleKeeps ==
  ASSUME GInv, current # NoCommand, NEW ok \in BOOLEAN, ok => current \in granted,
         granted' = granted, Settle(ok), Decide, UNCHANGED <<role, req, answer>>,
         changed' = IF ok THEN changed \cup {current} ELSE changed,
         delivered' \in [Commands -> {"no", "now", "steer", "followUp"}]
  PROVE  GInv'
<1>1. IInv'
  BY SettleEffect DEF GInv
<1>2. /\ queue \in Seq(Commands) /\ current \in Commands /\ settled \in Seq(Result)
      /\ Posted(current) /\ posted' = posted /\ Loop(queue)
      /\ settled' = Append(settled, [cmd |-> current, accepted |-> ok])
  BY DEF GInv, IInv, TypeOK, OnePlace, Settle
<1>3. /\ \A i, j \in DOMAIN queue' : queue'[i] = queue'[j] => i = j
      /\ \A c \in Commands : Queued(c)' => Queued(c) /\ c # current'
      /\ \A c \in Commands : c = current' => Queued(c)
  BY <1>2, LoopPlaces DEF GInv, OnePlace, Queued
<1>4. /\ DOMAIN settled' = 1 .. Len(settled) + 1 /\ DOMAIN settled = 1 .. Len(settled)
      /\ \A i \in 1 .. Len(settled) : settled'[i] = settled[i]
      /\ settled'[Len(settled) + 1] = [cmd |-> current, accepted |-> ok]
      /\ Len(settled) \in Nat
  BY <1>2
<1>5. ASSUME NEW c \in Commands PROVE SettledCmd(c)' <=> SettledCmd(c) \/ c = current
  <2>1. settled'[Len(settled) + 1].cmd = current
    BY <1>4
  <2>2. SettledCmd(c) \/ c = current => SettledCmd(c)'
    BY <1>4, <2>1 DEF SettledCmd
  <2>3. ASSUME NEW i \in DOMAIN settled', settled'[i].cmd = c
        PROVE  SettledCmd(c) \/ c = current
    BY <1>4, <2>1, <2>3 DEF SettledCmd
  <2> QED
    BY <2>2, <2>3 DEF SettledCmd
<1>6. ASSUME NEW c \in Commands
      PROVE  Accepted(c)' <=> (Accepted(c) \/ (ok /\ c = current))
  <2>1. settled'[Len(settled) + 1].cmd = current /\ settled'[Len(settled) + 1].accepted = ok
    BY <1>4
  <2>2. Accepted(c) \/ (ok /\ c = current) => Accepted(c)'
    BY <1>4, <2>1 DEF Accepted
  <2>3. ASSUME NEW i \in DOMAIN settled', settled'[i].cmd = c, settled'[i].accepted
        PROVE  Accepted(c) \/ (ok /\ c = current)
    BY <1>4, <2>1, <2>3 DEF Accepted
  <2> QED
    BY <2>2, <2>3 DEF Accepted
<1>7. \A c \in Commands : Posted(c)' <=> Posted(c)
  BY <1>2 DEF Posted
<1>8. OnePlace'
  <2>1. granted \subseteq Commands /\ current' \in Commands \cup {NoCommand}
    BY <1>1 DEF GInv, IInv, TypeOK
  <2>2. \A c \in Commands : Queued(c)' => Posted(c)' /\ c # current' /\ c \notin granted'
    BY <1>3, <1>7 DEF GInv, OnePlace
  <2>3. \A c \in Commands : c = current' => Posted(c)'
    BY <1>3, <1>7 DEF GInv, OnePlace
  <2>4. \A c \in granted' : Posted(c)'
    BY <1>7, <2>1 DEF GInv, OnePlace
  <2>5. \A c \in Commands : SettledCmd(c)' => Posted(c)'
    BY <1>2, <1>5, <1>7 DEF GInv, OnePlace
  <2> QED
    BY <1>3, <2>2, <2>3, <2>4, <2>5 DEF OnePlace
<1>9. BarredWait' /\ verdict' \in BOOLEAN /\ barred' \subseteq Commands
  BY DecideKeeps
<1>10. GatewayTypeOK'
  BY <1>1, <1>2, <1>9 DEF GInv, IInv, GatewayTypeOK
<1>11. ASSUME NEW c \in Commands PROVE Linked(c)'
  <2>1. Linked(c) /\ (c = current => Posted(c))
    BY <1>2 DEF GInv
  <2>2. c \in changed' <=> (c \in changed \/ (ok /\ c = current))
    OBVIOUS
  <2> QED
    BY <1>5, <1>6, <1>7, <2>1, <2>2 DEF Linked, On, At
<1> QED
  BY <1>1, <1>8, <1>9, <1>10, <1>11 DEF GInv

LEMMA AllowKeeps ==
  ASSUME GInv, GateAllows
  PROVE  GInv'
<1>1. /\ Allow /\ Decide /\ UNCHANGED <<role, req, answer, changed, delivered>>
  BY DEF GateAllows, Bystanders
<1>2. IInv'
  BY <1>1, AllowIInv DEF GInv
<1>3. /\ UNCHANGED <<queue, current, posted, settled>> /\ granted' = granted \cup {current}
      /\ current # NoCommand /\ current \in Commands
  BY <1>1 DEF Allow, GInv, IInv, FlagsAgree, TypeOK
<1>4. /\ \A c \in Commands : Posted(c)' <=> Posted(c)
      /\ \A c \in Commands : Queued(c)' <=> Queued(c)
      /\ \A c \in Commands : SettledCmd(c)' <=> SettledCmd(c)
      /\ \A c \in Commands : Accepted(c)' <=> Accepted(c)
      /\ Posted(current)' <=> Posted(current)
  BY <1>3 DEF Posted, Queued, SettledCmd, Accepted
<1>5. OnePlace'
  <2>1. granted \subseteq Commands
    BY DEF GInv, IInv, TypeOK
  <2>2. \A c \in granted' : Posted(c)'
    BY <1>3, <1>4, <2>1 DEF GInv, OnePlace
  <2> QED
    BY <1>3, <1>4, <2>2 DEF GInv, OnePlace
<1>6. BarredWait' /\ verdict' \in BOOLEAN /\ barred' \subseteq Commands
  BY <1>1, DecideKeeps
<1>7. GatewayTypeOK'
  BY <1>1, <1>2, <1>6 DEF GInv, IInv, GatewayTypeOK
<1>8. ASSUME NEW c \in Commands PROVE Linked(c)'
  BY <1>1, <1>4 DEF GInv, Linked, On, At
<1> QED
  BY <1>2, <1>5, <1>6, <1>7, <1>8 DEF GInv

LEMMA MailboxKeeps ==
  ASSUME GInv, GateAllows \/ GateDenies \/ ApplyFails \/ \E s \in BOOLEAN : ApplyDone(s)
  PROVE  GInv'
<1>1. CASE GateDenies \/ ApplyFails
  <2>1. /\ Settle(FALSE) /\ granted' = granted /\ stage # "idle" /\ Decide
        /\ UNCHANGED <<role, req, answer, changed, delivered>>
    BY <1>1 DEF GateDenies, ApplyFails, Deny, ApplyThrows, Bystanders
  <2>2. /\ current # NoCommand
        /\ delivered' \in [Commands -> {"no", "now", "steer", "followUp"}]
    BY <2>1 DEF GInv, IInv, FlagsAgree, GatewayTypeOK
  <2> QED
    BY <2>1, <2>2, SettleKeeps
<1>2. ASSUME NEW s \in BOOLEAN, ApplyDone(s) PROVE GInv'
  <2>1. /\ Settle(TRUE) /\ granted' = granted /\ stage = "applying" /\ Decide
        /\ UNCHANGED <<role, req, answer>> /\ changed' = changed \cup {current}
        /\ delivered' = [delivered EXCEPT ![current] = IF s THEN "followUp" ELSE "now"]
    BY <1>2 DEF ApplyDone, Applied, Bystanders
  <2>2. /\ current # NoCommand /\ current \in granted
        /\ delivered' \in [Commands -> {"no", "now", "steer", "followUp"}]
    BY <2>1 DEF GInv, IInv, FlagsAgree, OnlyGrantedApplied, GatewayTypeOK
  <2> QED
    BY <2>1, <2>2, SettleKeeps
<1> QED
  BY <1>1, <1>2, AllowKeeps

\* A post puts its command, and no other, behind all others.
LEMMA PostKeeps ==
  ASSUME GInv, NEW c \in Commands, PostCommand(c), Post(c)
  PROVE  GInv'
<1>1. IInv'
  BY PostIInv DEF GInv
<1>2. /\ req' = [req EXCEPT ![c].at = "posted"] /\ req[c].route = "commands"
      /\ Open(c) /\ req[c].at = "work" /\ Decide
      /\ UNCHANGED <<role, answer, changed, delivered, granted, settled>>
  <2>1. posted' # posted
    BY DEF Post, GInv, IInv, TypeOK
  <2>2. ~Quiet
    BY <2>1 DEF Quiet, box, vars
  <2> QED
    BY <2>2 DEF PostCommand, Post, Refuse, Answer, Go, On, At, Open
<1> DEFINE r == [req[c] EXCEPT !.at = "posted"]
<1>3. /\ req[c] \in Request /\ req[c].who \in Principals /\ ~Posted(c) /\ answer[c] = 0
      /\ c \notin changed /\ ~SettledCmd(c) /\ ~Accepted(c)
  BY <1>2, OpenFacts DEF GInv, Linked, Open
<1>4. /\ r \in Request /\ r.at = "posted" /\ r.who = req[c].who /\ r.route = "commands"
      /\ req'[c] = r /\ r # Unused
      /\ \A d \in Commands \ {c} : req'[d] = req[d]
      /\ req' \in [Commands -> Request \cup {Unused}]
  BY <1>2, <1>3 DEF GInv, GatewayTypeOK, Request, Unused
<1> HIDE DEF r
<1>5. /\ queue \in Seq(Commands) /\ posted \in Seq(Commands) /\ posted' = Append(posted, c)
  BY DEF GInv, IInv, TypeOK, Post
<1>6. \A d \in Commands : Posted(d)' <=> (Posted(d) \/ d = c)
  BY <1>5 DEF Posted
<1>7. c # current /\ c \notin granted /\ ~Queued(c)
  BY <1>3, MailboxAssumption DEF GInv, OnePlace
<1> DEFINE q == Append(queue, c)
<1>8. /\ q \in Seq(Commands) /\ DOMAIN q = 1 .. Len(queue) + 1 /\ Len(queue) \in Nat
      /\ \A i \in 1 .. Len(queue) : q[i] = queue[i]
      /\ q[Len(queue) + 1] = c /\ DOMAIN queue = 1 .. Len(queue)
  BY <1>5
<1> HIDE DEF q
<1>9. \A i, j \in DOMAIN q : q[i] = q[j] => i = j
  BY <1>7, <1>8 DEF GInv, OnePlace, Queued
<1>10. \A d \in Commands : (\E i \in DOMAIN q : q[i] = d) => (Queued(d) \/ d = c)
  BY <1>8 DEF Queued
<1>11. /\ \A i, j \in DOMAIN queue' : queue'[i] = queue'[j] => i = j
       /\ \A d \in Commands : Queued(d)' => (Queued(d) \/ d = c) /\ d # current'
       /\ \A d \in Commands : d = current' => Posted(d)'
  <2>1. CASE draining
    <3>1. queue' = q /\ current' = current
      BY <2>1 DEF Post, q
    <3>3. \A d \in Commands : Queued(d)' => (Queued(d) \/ d = c) /\ d # current'
      BY <1>7, <1>10, <3>1 DEF GInv, OnePlace, Queued
    <3>4. \A d \in Commands : d = current' => Posted(d)'
      BY <1>6, <3>1 DEF GInv, OnePlace
    <3> QED
      BY <1>9, <3>1, <3>3, <3>4
  <2>2. CASE ~draining
    <3>1. Loop(q)
      BY <2>2 DEF Post, q
    <3>3. /\ \A i, j \in DOMAIN queue' : queue'[i] = queue'[j] => i = j
          /\ \A d \in Commands : Queued(d)' => (\E i \in DOMAIN q : q[i] = d) /\ d # current'
          /\ \A e \in Commands : e = current' => \E i \in DOMAIN q : q[i] = e
      BY <1>8, <1>9, <3>1, LoopPlaces
    <3>4. \A d \in Commands : d = current' => Posted(d)'
      BY <1>6, <1>10, <3>3, MailboxAssumption DEF GInv, OnePlace
    <3> QED
      BY <1>10, <3>3, <3>4
  <2> QED
    BY <2>1, <2>2
<1>12. OnePlace'
  <2>1. granted \subseteq Commands
    BY DEF GInv, IInv, TypeOK
  <2>2. \A d \in Commands : Queued(d)' => Posted(d)' /\ d # current' /\ d \notin granted'
    BY <1>2, <1>6, <1>7, <1>11 DEF GInv, OnePlace
  <2>3. (\A d \in granted' : Posted(d)')
    BY <1>2, <1>6, <2>1 DEF GInv, OnePlace
  <2>4. \A d \in Commands : SettledCmd(d)' => Posted(d)'
    BY <1>2, <1>6 DEF GInv, OnePlace, SettledCmd
  <2> QED
    BY <1>11, <2>2, <2>3, <2>4 DEF OnePlace
<1>13. BarredWait' /\ verdict' \in BOOLEAN /\ barred' \subseteq Commands
  <2>1. \A d \in Commands : req'[d].who = req[d].who
    BY <1>4
  <2> QED
    BY <1>2, <2>1, DecideKeeps
<1>14. GatewayTypeOK'
  BY <1>1, <1>2, <1>4, <1>13 DEF GInv, IInv, GatewayTypeOK
<1>15. ASSUME NEW d \in Commands PROVE Linked(d)'
  <2>1. (SettledCmd(d)' <=> SettledCmd(d)) /\ (Accepted(d)' <=> Accepted(d))
    BY <1>2 DEF SettledCmd, Accepted
  <2>2. CASE d = c
    BY <1>2, <1>3, <1>4, <2>1, <2>2 DEF Linked, On, At
  <2>3. CASE d # c
    BY <1>2, <1>4, <1>6, <2>1, <2>3 DEF GInv, Linked, On, At
  <2> QED
    BY <2>2, <2>3
<1> QED
  BY <1>1, <1>12, <1>13, <1>14, <1>15 DEF GInv

-----------------------------------------------------------------------------
(* The other steps, and the theorems *)

LEMMA HandlerKeeps ==
  ASSUME GInv, NEW c \in Commands, Handler(c)
  PROVE  GInv'
BY RoutesKeep, PostKeeps, RepliedKeeps, IdentifiedKeeps DEF Handler

\* Whose role no longer lets them write has the commands that wait barred.
LEMMA GrantKeeps ==
  ASSUME GInv, NEW p \in Principals, NEW r \in Grants, Grant(p, r)
  PROVE  GInv'
<1>1. /\ UNCHANGED <<vars, req, answer, verdict, changed, delivered>>
      /\ role' = [role EXCEPT ![p] = r]
  BY DEF Grant, box
<1>2. IInv'
  BY <1>1, StutterIInv DEF GInv
<1>3. /\ UNCHANGED <<queue, posted, settled, current, granted>>
      /\ \A c \in Commands : Posted(c)' <=> Posted(c)
      /\ \A c \in Commands : Queued(c)' <=> Queued(c)
      /\ \A c \in Commands : SettledCmd(c)' <=> SettledCmd(c)
      /\ \A c \in Commands : Accepted(c)' <=> Accepted(c)
  BY <1>1 DEF vars, Posted, Queued, SettledCmd, Accepted
<1>4. OnePlace'
  <2>1. granted \subseteq Commands
    BY DEF GInv, IInv, TypeOK
  <2> QED
    BY <1>3, <2>1 DEF GInv, OnePlace
<1>5. /\ barred' \subseteq Commands
      /\ \A c \in barred' : \/ c \in barred /\ ~(Queued(c) /\ req[c].who = p)
                            \/ Queued(c) /\ req[c].who = p /\ ~Authorize(r, "command")
                            \/ c \in barred /\ ~Authorize(r, "command")
  BY DEF Grant, Queued, GInv, GatewayTypeOK
<1>6. ASSUME NEW c \in barred' PROVE Queued(c)' /\ ~Gate(c)'
  <2>1. c \in Commands /\ Queued(c) /\ (req[c].who # p => ~Gate(c))
    BY <1>5 DEF GInv, BarredWait
  <2>2. req[c].who \in Principals
    BY <2>1 DEF GInv, OnePlace, Linked
  <2>3. CASE req[c].who = p
    <3>1. ~Authorize(r, "command")
      BY <1>5, <2>1, <2>3
    <3>2. role'[req'[c].who] = r
      BY <1>1, <2>2, <2>3 DEF GInv, GatewayTypeOK
    <3> QED
      BY <1>3, <2>1, <3>1, <3>2 DEF Gate, RoleFor
  <2>4. CASE req[c].who # p
    <3>1. role'[req'[c].who] = role[req[c].who]
      BY <1>1, <2>2, <2>4 DEF GInv, GatewayTypeOK
    <3> QED
      BY <1>3, <2>1, <2>4, <3>1 DEF Gate, RoleFor
  <2> QED
    BY <2>3, <2>4
<1>7. GatewayTypeOK'
  BY <1>1, <1>2, <1>5, GatewayAssumption DEF GInv, IInv, GatewayTypeOK
<1>8. ASSUME NEW c \in Commands PROVE Linked(c)'
  BY <1>1, <1>3 DEF GInv, Linked, On, At
<1> QED
  BY <1>2, <1>4, <1>6, <1>7, <1>8 DEF GInv, BarredWait

LEMMA GatewayInitGInv == GatewayInit => GInv
<1> SUFFICES ASSUME GatewayInit PROVE GInv
  OBVIOUS
<1>1. IInv
  BY InitIInv DEF GatewayInit
<1>2. GatewayTypeOK
  BY <1>1 DEF GatewayInit, IInv, GatewayTypeOK, Roles
<1>3. \A c \in Commands : ~Posted(c) /\ ~Queued(c) /\ ~SettledCmd(c) /\ ~Accepted(c)
  <2>1. DOMAIN posted = {} /\ DOMAIN queue = {} /\ DOMAIN settled = {}
    BY DEF GatewayInit, Init
  <2> QED
    BY <2>1 DEF Posted, Queued, SettledCmd, Accepted
<1>4. OnePlace
  BY <1>3, MailboxAssumption DEF GatewayInit, Init, OnePlace
<1>5. BarredWait
  BY DEF GatewayInit, BarredWait
<1>6. ASSUME NEW c \in Commands PROVE Linked(c)
  BY <1>3 DEF GatewayInit, Linked, On
<1> QED
  BY <1>1, <1>2, <1>4, <1>5, <1>6 DEF GInv

LEMMA GatewayStep == GInv /\ [GatewayNext]_gatewayVars => GInv'
<1> SUFFICES ASSUME GInv, [GatewayNext]_gatewayVars PROVE GInv'
  OBVIOUS
<1>1. CASE GatewayNext
  BY <1>1, ArriveKeeps, HandlerKeeps, ReuseKeeps, MailboxKeeps, GrantKeeps DEF GatewayNext
<1>2. CASE UNCHANGED gatewayVars
  <2>1. UNCHANGED vars /\ IInv'
    BY <1>2, StutterIInv DEF gatewayVars, box, GInv
  <2> QED
    BY <1>2, <2>1
       DEF gatewayVars, box, vars, GInv, IInv, GatewayTypeOK, OnePlace, BarredWait, Gate,
           RoleFor, Linked, On, At, Posted, Queued, SettledCmd, Accepted
<1> QED
  BY <1>1, <1>2

\* To the mailbox, a step of the gateway is nothing, a post or a step of the drain.
LEMMA MailboxShape ==
  ASSUME GatewayNext
  PROVE  \/ UNCHANGED <<vars, verdict>>
         \/ Decide /\ ((\E c \in Commands : Post(c)) \/ Allow \/ Deny \/ Applied \/ ApplyThrows)
<1>1. ASSUME NEW c \in Commands, Handler(c)
      PROVE  Quiet \/ (Decide /\ Post(c))
  <2>1. ASSUME NEW s, Refuse(c, s) \/ Succeed(c) \/ Effect(c) \/ Go(c, s)
        PROVE  Quiet
    BY <2>1 DEF Refuse, Succeed, Effect, Answer, Go
  <2>2. CASE PostCommand(c)
    BY <2>1, <2>2 DEF PostCommand
  <2>3. CASE Unauthenticated(c) \/ (\E p \in Principals : Identified(c, p)) \/ Replied(c)
    BY <2>1, <2>3 DEF Unauthenticated, Identified, Replied
  <2>4. CASE Projection(c) \/ CreateSession(c) \/ SkillVisibility(c) \/ History(c)
    BY <2>1, <2>4 DEF Projection, CreateSession, SkillVisibility, History
  <2>5. CASE ListSessions(c) \/ ListSkills(c) \/ PromptPreview(c) \/ ListModels(c)
    BY <2>1, <2>5 DEF ListSessions, ListSkills, PromptPreview, ListModels
  <2> QED
    BY <1>1, <2>2, <2>3, <2>4, <2>5 DEF Handler
<1>2. ASSUME NEW c \in Commands, NEW route, NEW named, Arrive(c, route, named) \/ Reuse(c)
      PROVE  Quiet
  BY <1>2 DEF Arrive, Reuse
<1>3. Quiet => UNCHANGED <<vars, verdict>>
  BY DEF Quiet, box
<1>4. ASSUME NEW p, NEW r, Grant(p, r) PROVE UNCHANGED <<vars, verdict>>
  BY <1>4 DEF Grant, box
<1>5. CASE GateAllows \/ GateDenies \/ ApplyFails \/ \E s \in BOOLEAN : ApplyDone(s)
  BY <1>5 DEF GateAllows, GateDenies, ApplyFails, ApplyDone
<1> QED
  BY <1>1, <1>2, <1>3, <1>4, <1>5 DEF GatewayNext

\* The inductive invariant of gateway and mailbox.
THEOREM GatewayInductive == GatewaySpec => []GInv
BY GatewayInitGInv, GatewayStep, PTL DEF GatewaySpec

\* Type correctness of gateway.ts in front of the mailbox.
THEOREM GatewayTypeCorrect == GatewaySpec => []GatewayTypeOK
BY GatewayInductive, PTL DEF GInv

\* No status lies, whatever the route, the role and the fate of the command.
THEOREM StatusesHonest == GatewaySpec => []AnswersHonest
<1>1. GInv => AnswersHonest
  <2> SUFFICES ASSUME GInv, NEW c \in Commands
               PROVE  /\ answer[c] \notin {0, 200} => c \notin changed /\ ~Posted(c)
                      /\ On(c, "commands") /\ answer[c] = 200 =>
                           SettledCmd(c) /\ (Accepted(c) <=> c \in changed)
    BY DEF AnswersHonest, Posted, SettledCmd
  <2> QED
    BY DEF GInv, Linked
<1> QED
  BY GatewayInductive, <1>1, PTL

\* A command whose actor lost the right to write while it was queued is never
\* let through.
THEOREM RolesFresh == GatewaySpec => NoStaleRole
<1>1. GInv /\ [GatewayNext]_gatewayVars =>
        [\A c \in barred : c \notin granted' /\ ~(c = current' /\ verdict')]_gatewayVars
  <2> SUFFICES ASSUME GInv, GatewayNext, NEW c \in barred
               PROVE  c \notin granted' /\ ~(c = current' /\ verdict')
    OBVIOUS
  <2>1. /\ c \in Commands /\ Queued(c) /\ ~Gate(c) /\ c # current /\ c \notin granted
        /\ granted \subseteq Commands
    BY DEF GInv, BarredWait, GatewayTypeOK, OnePlace, IInv, TypeOK
  <2>2. granted' \in {granted, granted \cup {current}}
    BY MailboxShape DEF Post, Allow, Deny, Applied, ApplyThrows, Settle, vars
  <2>3. Decide \/ UNCHANGED <<current, verdict>>
    BY MailboxShape DEF vars
  <2>4. CASE Decide
    BY <2>1, <2>2, <2>4 DEF Decide
  <2>5. CASE UNCHANGED <<current, verdict>>
    BY <2>1, <2>2, <2>5
  <2> QED
    BY <2>3, <2>4, <2>5
<1> QED
  BY GatewayInductive, <1>1, PTL DEF GatewaySpec, NoStaleRole

\* Behind the gateway the mailbox is what it is alone, for all that requests,
\* roles and verdicts do to it.
THEOREM GatewayRunsMailbox == GatewaySpec => Spec
<1>1. GatewayInit => Init
  BY DEF GatewayInit
<1>2. [GatewayNext]_gatewayVars => [Next]_vars
  <2> SUFFICES ASSUME [GatewayNext]_gatewayVars PROVE [Next]_vars
    OBVIOUS
  <2>1. CASE UNCHANGED gatewayVars
    BY <2>1 DEF gatewayVars, box
  <2>2. CASE GatewayNext
    BY <2>2, MailboxShape DEF Next
  <2> QED
    BY <2>1, <2>2
<1> QED
  BY <1>1, <1>2, PTL DEF GatewaySpec, Spec

\* Nothing waits without a drain, behind the gateway either.
THEOREM GatewayWakeups == GatewaySpec => []NoLostWakeup
BY GatewayRunsMailbox, WakeupsKept, PTL

\* Gateway and mailbox together implement the serial executor (its safety half).
THEOREM GatewayRefinement == GatewaySpec => Executor!SafeSpec
BY GatewayRunsMailbox, ExecutorRefinement, PTL
=============================================================================
