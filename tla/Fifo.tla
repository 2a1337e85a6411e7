-------------------------------- MODULE Fifo --------------------------------
(***************************************************************************)
(* The circular buffer of fifo_declare.h between two threads: one writes,  *)
(* the other reads and may reset.  Every load or store of a field the      *)
(* other thread uses is a step; loads happen in program order.             *)
(***************************************************************************)
EXTENDS Naturals, Sequences

CONSTANTS
  Item,            \* the items carried
  Zero,            \* FIFO_ZERO_INIT, and what the slots first hold
  Size,            \* the size the FIFO is declared with
  ConcurrentReset  \* may a reset overlap a write?

\* The macros ask for a power of two, of which i & (Size - 1) is modulo Size.
ASSUME SizeAssumption == Size \in Nat \ {0, 1}
ASSUME ResetAssumption == ConcurrentReset \in BOOLEAN

VARIABLES
  read,    \* c->read
  write,   \* c->write
  buffer,  \* c->buffer
  put,     \* the writer: its place in write(), and the locals now and b
  take,    \* the reader: its place in read() or reset(), and read and res
  told,    \* what the last write() returned, as "stored" or "full"
  got,     \* what the last read() returned
  held     \* history: the items written, not read and not reset away

vars == <<read, write, buffer, put, take, told, got, held>>

Slot == 0 .. Size - 1

\* i & (Size - 1), of the sums below 2 * Size the code computes.
Wrap(i) == IF i >= Size THEN i - Size ELSE i

TypeOK ==
  /\ read \in Slot
  /\ write \in Slot
  /\ buffer \in [Slot -> Item \cup {Zero}]
  /\ put \in [pc : {"idle", "store", "publish"}, now : Slot,
              b : Item \cup {Zero}]
  /\ take \in [pc : {"idle", "load", "publish", "reset"}, read : Slot,
               res : Item \cup {Zero}]
  /\ told \in {"none", "stored", "full"}
  /\ got \in Item \cup {Zero}
  /\ held \in Seq(Item)

get_read_size == Wrap((write + Size) - read)

Init ==
  /\ read = 0
  /\ write = 0
  /\ buffer = [s \in Slot |-> Zero]
  /\ put = [pc |-> "idle", now |-> 0, b |-> Zero]
  /\ take = [pc |-> "idle", read |-> 0, res |-> Zero]
  /\ told = "none"
  /\ got = Zero
  /\ held = <<>>

-----------------------------------------------------------------------------
\* Mutations of NoRoom: the last slot's successor is not the first one; one
\* free slot too many is kept.
NoRoomUnwrapped == read = write + 1
NoRoomOneLeft == read \in {Wrap(write + 1), Wrap(Wrap(write + 1) + 1)}

\* Is the slot after the write cursor the reader's?
NoRoom == read = Wrap(write + 1)

\* write(): load the cursors; return 0 when the next slot is the reader's.
WriteCheck(b) ==
  /\ put.pc = "idle"
  /\ take.pc = "reset" => ConcurrentReset
  /\ IF NoRoom
       THEN /\ told' = "full"
            /\ UNCHANGED put
       ELSE /\ put' = [pc |-> "store", now |-> write, b |-> b]
            /\ UNCHANGED told
  /\ UNCHANGED <<read, write, buffer, take, got, held>>

WriteStore ==
  /\ put.pc = "store"
  /\ buffer' = [buffer EXCEPT ![put.now] = put.b]
  /\ put' = [put EXCEPT !.pc = "publish"]
  /\ UNCHANGED <<read, write, take, told, got, held>>

\* After the barrier: the item is the reader's.
WritePublish ==
  /\ put.pc = "publish"
  /\ write' = Wrap(put.now + 1)
  /\ put' = [put EXCEPT !.pc = "idle"]
  /\ told' = "stored"
  /\ held' = Append(held, put.b)
  /\ UNCHANGED <<read, buffer, take, got>>

\* read(): load the cursors; return zero when there is nothing.
ReadCheck ==
  /\ take.pc = "idle"
  /\ IF read = write
       THEN got' = Zero /\ UNCHANGED take
       ELSE take' = [take EXCEPT !.pc = "load", !.read = read] /\ UNCHANGED got
  /\ UNCHANGED <<read, write, buffer, put, told, held>>

ReadLoad ==
  /\ take.pc = "load"
  /\ take' = [take EXCEPT !.pc = "publish", !.res = buffer[take.read]]
  /\ UNCHANGED <<read, write, buffer, put, told, got, held>>

\* After the barrier: the slot is the writer's again.
ReadPublish ==
  /\ take.pc = "publish"
  /\ read' = Wrap(take.read + 1)
  /\ take' = [take EXCEPT !.pc = "idle"]
  /\ got' = take.res
  /\ held' = Tail(held)
  /\ UNCHANGED <<write, buffer, put, told>>

\* reset(): c->read = c->write = 0 is two stores, write's first.
ResetWrite ==
  /\ take.pc = "idle"
  /\ put.pc = "idle" \/ ConcurrentReset
  /\ write' = 0
  /\ take' = [take EXCEPT !.pc = "reset"]
  /\ held' = <<>>
  /\ UNCHANGED <<read, buffer, put, told, got>>

ResetRead ==
  /\ take.pc = "reset"
  /\ read' = 0
  /\ take' = [take EXCEPT !.pc = "idle"]
  /\ UNCHANGED <<write, buffer, put, told, got, held>>

Next ==
  \/ \E b \in Item : WriteCheck(b)
  \/ WriteStore
  \/ WritePublish
  \/ ReadCheck
  \/ ReadLoad
  \/ ReadPublish
  \/ ResetWrite
  \/ ResetRead

Spec == Init /\ [][Next]_vars

-----------------------------------------------------------------------------
(***************************************************************************)
(* What lies between the cursors is what was written and not yet read, in  *)
(* order: nothing lost, repeated, or read before it was stored.            *)
(***************************************************************************)
ContentsHeld ==
  take.pc # "reset" =>
    /\ get_read_size = Len(held)
    /\ \A i \in 1 .. Len(held) : buffer[Wrap(read + (i - 1))] = held[i]

(***************************************************************************)
(* The operations of the two threads, however they interleave, are those   *)
(* of a queue of Size - 1 items: each takes effect at once, a write fails  *)
(* only when the queue is full, a read only when it is empty.              *)
(***************************************************************************)
Queue == INSTANCE Queue WITH queue <- held, Capacity <- Size - 1

QueueSpec == Queue!Spec

=============================================================================
