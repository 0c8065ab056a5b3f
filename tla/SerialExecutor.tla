--------------------------- MODULE SerialExecutor ---------------------------
(***************************************************************************)
(* What a session's mailbox promises its callers (doc 03): every posted    *)
(* command is settled exactly once, accepted or rejected, and commands are *)
(* settled in the order they were posted.                                  *)
(***************************************************************************)
EXTENDS Integers, Sequences

CONSTANT Commands

VARIABLES
  posted,    \* the commands, in the order of the calls of post
  settled    \* their results, in the order the promises resolved

vars == <<posted, settled>>

Result == [cmd : Commands, accepted : BOOLEAN]

Init == posted = <<>> /\ settled = <<>>

Post(c) == posted' = Append(posted, c) /\ UNCHANGED settled

SettleNext ==
  /\ Len(settled) < Len(posted)
  /\ \E ok \in BOOLEAN :
       settled' = Append(settled, [cmd |-> posted[Len(settled) + 1], accepted |-> ok])
  /\ UNCHANGED posted

Next == SettleNext \/ \E c \in Commands : Post(c)

SafeSpec == Init /\ [][Next]_vars
Spec == SafeSpec /\ WF_vars(SettleNext)
=============================================================================
