------------------------------- MODULE Queue -------------------------------
(***************************************************************************)
(* What a FIFO promises its two threads: a bounded queue whose operations  *)
(* are atomic.  told is what the last write returned, got what the last    *)
(* read did.                                                               *)
(***************************************************************************)
EXTENDS Naturals, Sequences

CONSTANTS
  Item,      \* the items carried
  Zero,      \* FIFO_ZERO_INIT, what a read of an empty queue returns
  Capacity   \* how many items the queue holds

VARIABLES queue, told, got

vars == <<queue, told, got>>

Init ==
  /\ queue = <<>>
  /\ told = "none"
  /\ got = Zero

Put(b) ==
  /\ Len(queue) < Capacity
  /\ queue' = Append(queue, b)
  /\ told' = "stored"
  /\ UNCHANGED got

Refuse ==
  /\ Len(queue) = Capacity
  /\ told' = "full"
  /\ UNCHANGED <<queue, got>>

Take ==
  /\ queue # <<>>
  /\ got' = Head(queue)
  /\ queue' = Tail(queue)
  /\ UNCHANGED told

FindEmpty ==
  /\ queue = <<>>
  /\ got' = Zero
  /\ UNCHANGED <<queue, told>>

Clear ==
  /\ queue' = <<>>
  /\ UNCHANGED <<told, got>>

Next ==
  \/ \E b \in Item : Put(b)
  \/ Refuse
  \/ Take
  \/ FindEmpty
  \/ Clear

Spec == Init /\ [][Next]_vars

=============================================================================
