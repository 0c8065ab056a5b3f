------------------------------ MODULE Mailbox -------------------------------
(***************************************************************************)
(* AkkoMailbox (runtime/src/mailbox.ts): the per-session queue that drains *)
(* one command at a time through the authorization gate and then into the  *)
(* session.                                                                *)
(*                                                                         *)
(* A step is the code between two awaits of #drain.  post runs #drain up   *)
(* to its first await, and settling a command runs on to the next item's   *)
(* first await, or leaves the loop and lowers the flag.                    *)
(***************************************************************************)
EXTENDS Integers, Sequences

CONSTANTS Commands, NoCommand

ASSUME MailboxAssumption == NoCommand \notin Commands

VARIABLES
  queue,      \* #queue
  draining,   \* #draining
  current,    \* the item #drain has shifted out, or NoCommand
  stage,      \* what it is awaiting: "idle", "authorizing" or "applying"
  granted,    \* history: the commands the gate let through
  posted,     \* history: the commands in the order of the calls of post
  settled     \* history: their results in the order the promises resolved

vars == <<queue, draining, current, stage, granted, posted, settled>>

Init ==
  /\ queue = <<>>
  /\ draining = FALSE
  /\ current = NoCommand
  /\ stage = "idle"
  /\ granted = {}
  /\ posted = <<>>
  /\ settled = <<>>

-----------------------------------------------------------------------------
\* The head of the while loop: take the next item of q, or stop draining.
Loop(q) ==
  IF q = <<>>
  THEN /\ draining' = FALSE /\ current' = NoCommand /\ stage' = "idle"
       /\ queue' = q
  ELSE /\ draining' = TRUE /\ current' = Head(q) /\ stage' = "authorizing"
       /\ queue' = Tail(q)

\* Each call of post carries a command of its own.
Post(c) ==
  /\ \A i \in DOMAIN posted : posted[i] # c
  /\ posted' = Append(posted, c)
  /\ IF draining
     THEN queue' = Append(queue, c) /\ UNCHANGED <<draining, current, stage>>
     ELSE Loop(Append(queue, c))
  /\ UNCHANGED <<granted, settled>>

\* Mutant: the loop is left after a rejection (`return` for `continue`).
SettleAndStop(accepted) ==
  /\ settled' = Append(settled, [cmd |-> current, accepted |-> accepted])
  /\ IF accepted THEN Loop(queue)
     ELSE /\ draining' = FALSE /\ current' = NoCommand /\ stage' = "idle"
          /\ UNCHANGED queue
  /\ UNCHANGED posted

\* Mutant: the item is a field, overwritten by the next shift before it settles.
SettleNextItem(accepted) ==
  /\ Loop(queue)
  /\ settled' = Append(settled, [cmd |-> current', accepted |-> accepted])
  /\ UNCHANGED posted

\* item.settle, and on to the next item.
Settle(accepted) ==
  /\ settled' = Append(settled, [cmd |-> current, accepted |-> accepted])
  /\ Loop(queue)
  /\ UNCHANGED posted

\* authorize resolves to allow: apply is called.
Allow ==
  /\ stage = "authorizing"
  /\ stage' = "applying"
  /\ granted' = granted \cup {current}
  /\ UNCHANGED <<queue, draining, current, posted, settled>>

\* Mutant: the promise of a denied command is left alone.
DenySilent ==
  /\ stage = "authorizing"
  /\ Loop(queue)
  /\ UNCHANGED <<granted, posted, settled>>

\* authorize resolves to deny, or throws.
Deny ==
  /\ stage = "authorizing"
  /\ Settle(FALSE)
  /\ UNCHANGED granted

\* apply resolves.
Applied ==
  /\ stage = "applying"
  /\ Settle(TRUE)
  /\ UNCHANGED granted

\* Mutant: a command whose apply throws is put back.
ApplyRetries ==
  /\ stage = "applying"
  /\ Loop(Append(queue, current))
  /\ UNCHANGED <<granted, posted, settled>>

\* apply throws.
ApplyThrows ==
  /\ stage = "applying"
  /\ Settle(FALSE)
  /\ UNCHANGED granted

Next ==
  \/ \E c \in Commands : Post(c)
  \/ Allow \/ Deny \/ Applied \/ ApplyThrows

Spec == Init /\ [][Next]_vars

\* authorize and apply settle: what AkkoMailboxDeps asks of them ("should
\* resolve once the command is accepted").
FairSpec == Spec /\ WF_vars(Allow \/ Deny) /\ WF_vars(Applied \/ ApplyThrows)

-----------------------------------------------------------------------------
Result == [cmd : Commands, accepted : BOOLEAN]

TypeOK ==
  /\ queue \in Seq(Commands)
  /\ draining \in BOOLEAN
  /\ current \in Commands \cup {NoCommand}
  /\ stage \in {"idle", "authorizing", "applying"}
  /\ granted \subseteq Commands
  /\ posted \in Seq(Commands)
  /\ settled \in Seq(Result)

\* The commands that were settled, in order; the one being handled, if any.
CmdsOf(results) == [i \in 1..Len(results) |-> results[i].cmd]
Settled == CmdsOf(settled)
InFlight == IF current = NoCommand THEN <<>> ELSE <<current>>

\* No command is lost, doubled or overtaken: what was posted is what was
\* settled, then the one in flight, then the queue, each in its order.
InOrder == posted = Settled \o (InFlight \o queue)

\* No lost wake-up: while anything waits, the drain that will take it runs.
NoLostWakeup == (queue # <<>> \/ current # NoCommand) => draining

\* One command at a time: a drain handles exactly one item, and only a command
\* the gate let through is ever being applied or reported as accepted.
OnlyGrantedApplied ==
  /\ (stage = "applying") => current \in granted
  /\ \A i \in DOMAIN settled : settled[i].accepted => settled[i].cmd \in granted

\* The mailbox implements the serial executor, including that every posted
\* command is eventually settled.
Executor == INSTANCE SerialExecutor
ImplementsExecutor == Executor!Spec
=============================================================================
