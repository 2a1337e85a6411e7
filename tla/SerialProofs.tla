---------------------------- MODULE SerialProofs ----------------------------
(***************************************************************************)
(* The FIFO of fifo_declare.h, used by one writer and one reader and reset *)
(* only when no write is under way, is a queue: for every size and every   *)
(* set of items.  And the serial cards of mii_ssc.c, whose queues are such *)
(* FIFOs: for every number of cards, capacity of the FIFOs and set of      *)
(* command bytes.                                                          *)
(***************************************************************************)
EXTENDS Fifo, Ssc, SequenceTheorems, FiniteSetTheorems, TLAPS

\* What a thread in the middle of a call knows.
WriterKnows ==
  /\ put.pc # "idle" => /\ put.now = write
                        /\ put.b \in Item
                        /\ read # Wrap(write + 1)
                        /\ take.pc # "reset"
  /\ put.pc = "publish" => buffer[put.now] = put.b

ReaderKnows ==
  /\ take.pc \in {"load", "publish"} => take.read = read /\ read # write
  /\ take.pc = "publish" => take.res = buffer[read]
  /\ take.pc = "reset" => write = 0 /\ held = <<>>

\* The cursors and the history say the same of how much is held ...
SizeHeld == take.pc # "reset" => get_read_size = Len(held)

\* ... and of what.
SlotsHeld ==
  take.pc # "reset" =>
    \A i \in 1 .. Len(held) : buffer[Wrap(read + (i - 1))] = held[i]

IInv == TypeOK /\ WriterKnows /\ ReaderKnows /\ SizeHeld /\ SlotsHeld

-----------------------------------------------------------------------------
\* A cursor stays a slot, and the held items and the free slot after them
\* are at different places.
LEMMA WrapSlot ==
  ASSUME NEW i \in Nat, i < Size + Size
  PROVE  Wrap(i) \in Slot
  BY SizeAssumption DEF Wrap, Slot

LEMMA HeldApart ==
  ASSUME NEW r \in Slot, NEW w \in Slot, NEW n \in Nat,
         Wrap((w + Size) - r) = n
  PROVE  /\ n <= Size - 1
         /\ n = 0 <=> r = w
         /\ n = Size - 1 <=> r = Wrap(w + 1)
         /\ \A i \in 1 .. n : Wrap(r + (i - 1)) # w
         /\ Wrap(r + n) = w
  BY SizeAssumption DEF Wrap, Slot

\* What moving a cursor does to the number of items between the two ...
LEMMA WriteGrows ==
  ASSUME NEW r \in Slot, NEW w \in Slot, r # Wrap(w + 1)
  PROVE  Wrap((Wrap(w + 1) + Size) - r) = Wrap((w + Size) - r) + 1
  BY SizeAssumption DEF Wrap, Slot

LEMMA ReadShrinks ==
  ASSUME NEW r \in Slot, NEW w \in Slot, r # w
  PROVE  Wrap((w + Size) - Wrap(r + 1)) = Wrap((w + Size) - r) - 1
  BY SizeAssumption DEF Wrap, Slot

\* ... and to their places.
LEMMA ReadShifts ==
  ASSUME NEW r \in Slot, NEW i \in Nat, 1 <= i, i <= Size
  PROVE  Wrap(Wrap(r + 1) + (i - 1)) = Wrap(r + ((i + 1) - 1))
  BY SizeAssumption DEF Wrap, Slot

LEMMA InitIInv == Init => IInv
  <1> SUFFICES ASSUME Init PROVE IInv
    OBVIOUS
  <1>1. 0 \in Slot
    BY SizeAssumption DEF Slot
  <1>2. held \in Seq(Item) /\ Len(held) = 0
    BY EmptySeq DEF Init
  <1>3. TypeOK
    BY <1>1, <1>2 DEF Init, TypeOK
  <1>4. SizeHeld /\ SlotsHeld
    BY <1>2, SizeAssumption DEF Init, SizeHeld, SlotsHeld, get_read_size, Wrap
  <1>. QED
    BY <1>3, <1>4 DEF Init, IInv, WriterKnows, ReaderKnows

LEMMA NextIInv ==
  ASSUME ConcurrentReset = FALSE, IInv, [Next]_vars
  PROVE  IInv'
  <1> USE DEF IInv
  <1>0. TypeOK
    OBVIOUS
  <1>1. ASSUME NEW b \in Item, WriteCheck(b)
        PROVE  IInv'
    <2>1. TypeOK'
      BY <1>0, <1>1 DEF WriteCheck, TypeOK
    <2>2. WriterKnows' /\ ReaderKnows'
      BY <1>0, <1>1 DEF WriteCheck, NoRoom, TypeOK, WriterKnows, ReaderKnows
    <2>3. SizeHeld' /\ SlotsHeld'
      BY <1>1 DEF WriteCheck, SizeHeld, SlotsHeld, get_read_size
    <2>. QED
      BY <2>1, <2>2, <2>3
  <1>2. CASE WriteStore
    <2>1. put.pc = "store" /\ put.now = write /\ take.pc # "reset"
      BY <1>2 DEF WriteStore, WriterKnows
    <2>2. /\ put' = [put EXCEPT !.pc = "publish"]
          /\ buffer' = [buffer EXCEPT ![write] = put.b]
          /\ UNCHANGED <<read, write, take, told, got, held>>
      BY <1>2, <2>1 DEF WriteStore
    <2>3. TypeOK'
      BY <1>0, <2>2 DEF TypeOK
    <2>4. WriterKnows'
      BY <1>0, <2>1, <2>2 DEF TypeOK, WriterKnows
    <2>5. buffer'[read] = buffer[read] \/ read = write
      BY <1>0, <2>2 DEF TypeOK
    <2>6. ReaderKnows'
      BY <2>2, <2>5 DEF ReaderKnows
    <2>7. SizeHeld'
      BY <2>2 DEF SizeHeld, get_read_size
    <2>8. Len(held) \in Nat /\ get_read_size = Len(held)
      BY <1>0, <2>1 DEF TypeOK, SizeHeld
    <2>9. \A i \in 1 .. Len(held) : Wrap(read + (i - 1)) # write
      BY <1>0, <2>8, HeldApart DEF TypeOK, get_read_size
    <2>10. \A i \in 1 .. Len(held) :
             buffer'[Wrap(read + (i - 1))] = buffer[Wrap(read + (i - 1))]
      <3>1. ASSUME NEW s \in Nat \cup Int, s # write
            PROVE  buffer'[s] = buffer[s] \/ s \notin Slot
        BY <1>0, <2>2, <3>1 DEF TypeOK
      <3>2. ASSUME NEW i \in 1 .. Len(held)
            PROVE  Wrap(read + (i - 1)) \in Slot
        BY <1>0, <2>8, HeldApart, SizeAssumption
           DEF TypeOK, get_read_size, Wrap, Slot
      <3>. QED
        BY <1>0, <2>2, <2>9, <3>2 DEF TypeOK
    <2>11. SlotsHeld'
      BY <2>1, <2>2, <2>10 DEF SlotsHeld
    <2>. QED
      BY <2>3, <2>4, <2>6, <2>7, <2>11
  <1>3. CASE WritePublish
    <2>1. /\ put.pc = "publish" /\ put.now = write /\ put.b \in Item
          /\ read # Wrap(write + 1) /\ take.pc # "reset"
          /\ buffer[write] = put.b
      BY <1>3 DEF WritePublish, WriterKnows
    <2>2. /\ write' = Wrap(write + 1)
          /\ put' = [put EXCEPT !.pc = "idle"]
          /\ told' = "stored"
          /\ held' = Append(held, put.b)
          /\ UNCHANGED <<read, buffer, take, got>>
      BY <1>3, <2>1 DEF WritePublish
    <2>3. Len(held) \in Nat /\ get_read_size = Len(held)
      BY <1>0, <2>1 DEF TypeOK, SizeHeld
    <2>4. /\ held' \in Seq(Item)
          /\ Len(held') = Len(held) + 1
          /\ \A i \in 1 .. Len(held) : held'[i] = held[i]
          /\ held'[Len(held) + 1] = put.b
      BY <1>0, <2>1, <2>2, AppendProperties DEF TypeOK
    <2>5. write' \in Slot
      BY <1>0, <2>2, SizeAssumption DEF TypeOK, Wrap, Slot
    <2>6. TypeOK'
      BY <1>0, <2>2, <2>4, <2>5 DEF TypeOK
    <2>7. WriterKnows'
      BY <1>0, <2>2 DEF TypeOK, WriterKnows
    <2>8. ReaderKnows'
      BY <2>1, <2>2 DEF ReaderKnows
    <2>9. get_read_size' = Len(held)'
      BY <1>0, <2>1, <2>2, <2>3, <2>4, WriteGrows DEF TypeOK, get_read_size
    <2>10. Wrap(read + Len(held)) = write
      BY <1>0, <2>3, HeldApart DEF TypeOK, get_read_size
    <2>11. ASSUME NEW i \in 1 .. Len(held')
           PROVE  buffer[Wrap(read + (i - 1))] = held'[i]
      <3>1. CASE i \in 1 .. Len(held)
        BY <2>1, <2>4, <3>1 DEF SlotsHeld
      <3>2. CASE i = Len(held) + 1
        BY <2>1, <2>3, <2>4, <2>10, <3>2
      <3>. QED
        BY <2>3, <2>4, <2>11, <3>1, <3>2
    <2>12. SizeHeld' /\ SlotsHeld'
      BY <2>2, <2>9, <2>11 DEF SizeHeld, SlotsHeld
    <2>. QED
      BY <2>6, <2>7, <2>8, <2>12
  <1>4. CASE ReadCheck
    <2>1. TypeOK'
      BY <1>0, <1>4 DEF ReadCheck, TypeOK
    <2>2. WriterKnows' /\ ReaderKnows'
      BY <1>0, <1>4 DEF ReadCheck, TypeOK, WriterKnows, ReaderKnows
    <2>3. take.pc # "reset" /\ UNCHANGED <<read, write, buffer, held>>
      BY <1>4 DEF ReadCheck
    <2>4. SizeHeld' /\ SlotsHeld'
      BY <2>3 DEF SizeHeld, SlotsHeld, get_read_size
    <2>. QED
      BY <2>1, <2>2, <2>4
  <1>5. CASE ReadLoad
    <2>1. TypeOK'
      BY <1>0, <1>5 DEF ReadLoad, TypeOK, ReaderKnows
    <2>2. WriterKnows' /\ ReaderKnows'
      BY <1>0, <1>5 DEF ReadLoad, TypeOK, WriterKnows, ReaderKnows
    <2>3. take.pc # "reset" /\ UNCHANGED <<read, write, buffer, held>>
      BY <1>5 DEF ReadLoad
    <2>4. SizeHeld' /\ SlotsHeld'
      BY <2>3 DEF SizeHeld, SlotsHeld, get_read_size
    <2>. QED
      BY <2>1, <2>2, <2>4
  <1>6. CASE ReadPublish
    <2>1. take.pc = "publish" /\ take.read = read /\ read # write
      BY <1>6 DEF ReadPublish, ReaderKnows
    <2>2. /\ read' = Wrap(read + 1)
          /\ take' = [take EXCEPT !.pc = "idle"]
          /\ got' = take.res
          /\ held' = Tail(held)
          /\ UNCHANGED <<write, buffer, put, told>>
      BY <1>6, <2>1 DEF ReadPublish
    <2>3. Len(held) \in Nat /\ get_read_size = Len(held)
      BY <1>0, <2>1 DEF TypeOK, SizeHeld
    <2>4. Len(held) # 0 /\ held # <<>>
      BY <1>0, <2>1, <2>3, HeldApart, EmptySeq DEF TypeOK, get_read_size
    <2>5. /\ held' \in Seq(Item)
          /\ Len(held') = Len(held) - 1
          /\ \A i \in 1 .. Len(held') : held'[i] = held[i + 1]
      BY <1>0, <2>2, <2>4, HeadTailProperties DEF TypeOK
    <2>6. read' \in Slot
      BY <1>0, <2>2, SizeAssumption DEF TypeOK, Wrap, Slot
    <2>7. TypeOK'
      BY <1>0, <2>2, <2>5, <2>6 DEF TypeOK
    <2>8. put.pc # "idle" => read' # Wrap(write + 1)
      BY <1>0, <2>1, <2>2, SizeAssumption DEF TypeOK, Wrap, Slot
    <2>9. WriterKnows'
      BY <1>0, <2>2, <2>8 DEF TypeOK, WriterKnows
    <2>10. ReaderKnows'
      BY <1>0, <2>2 DEF TypeOK, ReaderKnows
    <2>11. get_read_size' = Len(held)'
      BY <1>0, <2>1, <2>2, <2>3, <2>5, ReadShrinks DEF TypeOK, get_read_size
    <2>12. ASSUME NEW i \in 1 .. Len(held')
           PROVE  buffer[Wrap(read' + (i - 1))] = held'[i]
      <3>1. i \in Nat /\ i + 1 \in 1 .. Len(held)
        BY <2>3, <2>5
      <3>2. i <= Size
        BY <1>0, <2>3, <3>1, HeldApart, SizeAssumption
           DEF TypeOK, get_read_size
      <3>3. Wrap(read' + (i - 1)) = Wrap(read + ((i + 1) - 1))
        BY <1>0, <2>2, <3>1, <3>2, ReadShifts DEF TypeOK
      <3>4. buffer[Wrap(read + ((i + 1) - 1))] = held[i + 1]
        BY <2>1, <3>1 DEF SlotsHeld
      <3>. QED
        BY <2>5, <3>3, <3>4
    <2>13. SizeHeld' /\ SlotsHeld'
      BY <2>2, <2>11, <2>12 DEF SizeHeld, SlotsHeld
    <2>. QED
      BY <2>7, <2>9, <2>10, <2>13
  <1>7. CASE ResetWrite
    <2>1. put.pc = "idle"
      BY <1>7 DEF ResetWrite
    <2>2. 0 \in Slot /\ <<>> \in Seq(Item)
      BY SizeAssumption, EmptySeq DEF Slot
    <2>3. TypeOK'
      BY <1>0, <1>7, <2>2 DEF ResetWrite, TypeOK
    <2>4. take'.pc = "reset"
      BY <1>0, <1>7 DEF ResetWrite, TypeOK
    <2>. QED
      BY <1>7, <2>1, <2>3, <2>4
         DEF ResetWrite, WriterKnows, ReaderKnows, SizeHeld, SlotsHeld
  <1>8. CASE ResetRead
    <2>1. /\ write = 0 /\ held = <<>> /\ put.pc = "idle"
          /\ read' = 0 /\ take' = [take EXCEPT !.pc = "idle"]
          /\ UNCHANGED <<write, buffer, put, told, got, held>>
      BY <1>0, <1>8 DEF ResetRead, ReaderKnows, WriterKnows, TypeOK
    <2>2. 0 \in Slot
      BY SizeAssumption DEF Slot
    <2>3. TypeOK'
      BY <1>0, <2>1, <2>2 DEF TypeOK
    <2>4. WriterKnows' /\ ReaderKnows'
      BY <1>0, <2>1 DEF TypeOK, WriterKnows, ReaderKnows
    <2>5. Len(held) = 0
      BY <2>1, EmptySeq
    <2>6. SizeHeld' /\ SlotsHeld'
      BY <2>1, <2>5, SizeAssumption DEF SizeHeld, SlotsHeld, get_read_size, Wrap
    <2>. QED
      BY <2>3, <2>4, <2>6
  <1>9. CASE UNCHANGED vars
    BY <1>9 DEF vars, TypeOK, WriterKnows, ReaderKnows, SizeHeld, SlotsHeld,
                get_read_size
  <1>. QED
    BY <1>1, <1>2, <1>3, <1>4, <1>5, <1>6, <1>7, <1>8, <1>9 DEF Next

(***************************************************************************)
(* A FIFO whose resets do not overlap a write holds, between its cursors,  *)
(* exactly the items written and not yet read, in order.                   *)
(***************************************************************************)
THEOREM FifoHolds ==
  ASSUME ConcurrentReset = FALSE
  PROVE  Spec => [](TypeOK /\ ContentsHeld)
  <1>1. IInv => TypeOK /\ ContentsHeld
    BY DEF IInv, SizeHeld, SlotsHeld, ContentsHeld
  <1>2. IInv /\ [Next]_vars => IInv'
    BY NextIInv
  <1>. QED
    BY <1>1, <1>2, InitIInv, PTL DEF Spec

-----------------------------------------------------------------------------
LEMMA StepRefines ==
  ASSUME ConcurrentReset = FALSE, IInv, [Next]_vars
  PROVE  [Queue!Next]_Queue!vars
  <1> USE DEF IInv, Queue!Next, Queue!vars
  <1>0. TypeOK
    OBVIOUS
  <1>s. take.pc # "reset" =>
          /\ Len(held) \in Nat
          /\ Len(held) <= Size - 1
          /\ Len(held) = 0 <=> read = write
          /\ Len(held) = Size - 1 <=> read = Wrap(write + 1)
    <2>1. SUFFICES ASSUME take.pc # "reset"
                   PROVE  /\ Len(held) \in Nat
                          /\ Len(held) <= Size - 1
                          /\ Len(held) = 0 <=> read = write
                          /\ Len(held) = Size - 1 <=> read = Wrap(write + 1)
      OBVIOUS
    <2>2. Len(held) \in Nat
      BY <1>0 DEF TypeOK
    <2>. QED
      BY <1>0, <2>1, <2>2, HeldApart DEF TypeOK, SizeHeld, get_read_size
  <1>1. ASSUME NEW b \in Item, WriteCheck(b)
        PROVE  [Queue!Next]_Queue!vars
    <2>1. CASE read = Wrap(write + 1)
      <3>1. Queue!Refuse
        BY <1>1, <1>s, <2>1 DEF WriteCheck, NoRoom, Queue!Refuse
      <3>. QED
        BY <3>1
    <2>2. CASE read # Wrap(write + 1)
      BY <1>1, <2>2 DEF WriteCheck, NoRoom
    <2>. QED
      BY <2>1, <2>2
  <1>2. CASE WriteStore
    BY <1>2 DEF WriteStore
  <1>3. CASE WritePublish
    <2>1. put.b \in Item /\ read # Wrap(write + 1) /\ take.pc # "reset"
      BY <1>3 DEF WritePublish, WriterKnows
    <2>2. Len(held) < Size - 1
      BY <1>s, <2>1, SizeAssumption
    <2>3. Queue!Put(put.b)
      BY <1>3, <2>2 DEF WritePublish, Queue!Put
    <2>. QED
      BY <2>1, <2>3
  <1>4. CASE ReadCheck
    <2>1. CASE read = write
      <3>1. held = <<>>
        BY <1>0, <1>4, <1>s, <2>1, EmptySeq DEF ReadCheck, TypeOK
      <3>2. Queue!FindEmpty
        BY <1>4, <2>1, <3>1 DEF ReadCheck, Queue!FindEmpty
      <3>. QED
        BY <3>2
    <2>2. CASE read # write
      BY <1>4, <2>2 DEF ReadCheck
    <2>. QED
      BY <2>1, <2>2
  <1>5. CASE ReadLoad
    BY <1>5 DEF ReadLoad
  <1>6. CASE ReadPublish
    <2>1. take.pc = "publish" /\ read # write /\ take.res = buffer[read]
      BY <1>6 DEF ReadPublish, ReaderKnows
    <2>2. Len(held) \in Nat /\ Len(held) # 0
      BY <1>s, <2>1
    <2>3. Wrap(read + (1 - 1)) = read
      BY <1>0, SizeAssumption DEF TypeOK, Wrap, Slot
    <2>4. 1 \in 1 .. Len(held)
      BY <2>2
    <2>5. buffer[read] = held[1]
      BY <2>1, <2>3, <2>4 DEF SlotsHeld
    <2>6. held # <<>> /\ Head(held) = held[1]
      BY <1>0, <2>2, EmptySeq DEF TypeOK
    <2>7. Queue!Take
      BY <1>6, <2>1, <2>5, <2>6 DEF ReadPublish, Queue!Take
    <2>. QED
      BY <2>7
  <1>7. CASE ResetWrite
    <2>1. Queue!Clear
      BY <1>7 DEF ResetWrite, Queue!Clear
    <2>. QED
      BY <2>1
  <1>8. CASE ResetRead
    BY <1>8 DEF ResetRead
  <1>9. CASE UNCHANGED vars
    BY <1>9 DEF vars
  <1>. QED
    BY <1>1, <1>2, <1>3, <1>4, <1>5, <1>6, <1>7, <1>8, <1>9 DEF Next

(***************************************************************************)
(* Such a FIFO implements the queue: every write and read of the two       *)
(* threads, however they interleave, is one atomic operation on it.        *)
(***************************************************************************)
THEOREM FifoIsQueue ==
  ASSUME ConcurrentReset = FALSE
  PROVE  Spec => QueueSpec
  <1>1. Init => Queue!Init
    BY DEF Init, Queue!Init
  <1>2. IInv /\ [Next]_vars => IInv'
    BY NextIInv
  <1>3. IInv /\ [Next]_vars => [Queue!Next]_Queue!vars
    BY StepRefines
  <1>. QED
    BY <1>1, <1>2, <1>3, InitIInv, PTL DEF Spec, QueueSpec, Queue!Spec

-----------------------------------------------------------------------------
(***************************************************************************)
(* The serial cards.  Where each thread is, it is with a card.             *)
(***************************************************************************)
Serving == {"read", "write", "remove"}
Places ==
  /\ thread.at \in Serving => thread.card # NoCard
  /\ \A w \in {"cpu", "ui"} : conf[w].at # "idle" => conf[w].card # NoCard
  /\ conf["cpu"].at # "idle" => cpu.at = "run"
  /\ cpu.at = "run" /\ ~thread_id => thread.at = "none"
  /\ cpu.at \in {"unlink", "stop", "last", "join", "free"} => cpu.card # NoCard

(* A command waits for the card it is about, and a card for one at most.   *)
Command == [cmd : {"start", "stop", "terminate"}, card : MaybeCard]
Waits(m) ==
  \/ m.cmd = "start" /\ m.card # NoCard /\ card[m.card].state = "start"
  \/ /\ m.cmd = "stop" /\ m.card # NoCard /\ m.card = cpu.card
     /\ cpu.at = "stop" /\ card[m.card].state = "running"
  \/ m.cmd = "terminate" /\ m.card = NoCard /\ ~thread_id /\ cpu.at # "run"
Queued(m) == \E i \in 1 .. Len(commands) : commands[i] = m
Pending ==
  /\ \A m \in Command : Queued(m) => Waits(m)
  /\ \A i, j \in 1 .. Len(commands) : commands[i].card = commands[j].card => i = j

(* However the two lists that share the link are mixed up, the thread only *)
(* comes to cards that were started.                                       *)
Begun(c) == card[c].state # "init"
Linked ==
  \E S \in SUBSET Card :
    /\ \A c \in S : Begun(c)
    /\ Closed(S)
    /\ {started.first, started.last, thread.card} \subseteq S \cup {NoCard}

(* The bytes of a card that are written out but still in tx.               *)
Gone(c) == IF thread.at = "remove" /\ thread.card = c THEN thread.n ELSE 0

\* f[1] to f[m] are all the bytes after from and up to upto, and before them
\* those that are gone already.
Whole(f, m, gone, from, upto) ==
  /\ gone <= m
  /\ upto + gone = from + m
  /\ \A i \in 1 .. m : f[i] + gone = from + i

RxKept(c) ==
  Whole(card[c].rx, Len(card[c].rx), 0, seen[c].got, seen[c].line)
TxKept(c) ==
  Whole(card[c].tx, Len(card[c].tx), Gone(c), seen[c].out, seen[c].put)
Kept(c) ==
  /\ ~seen[c].reset => RxKept(c) /\ TxKept(c)
  /\ ~Begun(c) => card[c].rx = <<>> /\ card[c].tx = <<>>

SscInv == SscTypeOK /\ Places /\ Pending /\ Linked /\ \A c \in Card : Kept(c)

(* With one card: the list of all cards is empty once the card is off it,  *)
(* so the thread, if there is one, is told to end and waited for.          *)
OneCard ==
  /\ next[1] = NoCard
  /\ started.first = started.last
  /\ card[1].state # "running" => started.first = NoCard
  /\ cpu.at \in {"run", "unlink"} => slots.first = 1 /\ slots.last = 1
  /\ cpu.at \in {"stop", "last"} => slots.first = NoCard
  /\ cpu.at \notin {"join", "free", "gone"} /\ ~thread_id =>
       thread.at = "none"
  /\ cpu.at \in {"free", "gone"} => thread.at \in {"none", "ended", "broken"}
  /\ cpu.at # "gone" => alive = Card

(* The thread's list, whatever unlinking a card of the other list did to   *)
(* its links: no two cards of it are before the same one, and none is      *)
(* before the first.                                                       *)
Path ==
  /\ \A c, d \in Members(started) : next[c] = next[d] /\ next[c] # NoCard => c = d
  /\ \A c \in Members(started) : next[c] = started.first => started.first = NoCard

(* So the thread only comes to cards that run: one it stopped is not met   *)
(* again.                                                                  *)
Running(c) == card[c].state = "running"
Runs ==
  \E S \in SUBSET Card :
    /\ \A c \in S : Running(c)
    /\ Closed(S)
    /\ {started.first, thread.card} \subseteq S \cup {NoCard}
LastRan ==
  started.last # NoCard => card[started.last].state \in {"running", "stopped"}
Resting == thread.at \in {"none", "commands"} => thread.card = NoCard

(* And a card that is let go is not one of them, unless it was to start.   *)
Halting(c) == cpu.card = c /\ cpu.at \in {"last", "join", "free"}
LetGone ==
  /\ cpu.at = "run" => alive = Card /\ \A c \in Card : card[c].state # "stopped"
  /\ cpu.at = "stop" => card[cpu.card].state \in {"running", "stopped"}
  /\ \A c \in Card : (c \notin alive \/ Halting(c)) /\ ~seen[c].early =>
                      card[c].state \in {"init", "stopped"}

FreedInv == Path /\ Runs /\ LastRan /\ Resting /\ LetGone

(* What the helpers make of a card.                                        *)
LEMMA CommandSetKeeps ==
  ASSUME NEW k \in CardType, NEW byte \in SUBSET CommandBit
  PROVE  /\ CommandSet(k, byte) \in CardType
         /\ CommandSet(k, byte).rx = k.rx /\ CommandSet(k, byte).tx = k.tx
         /\ CommandSet(k, byte).state = k.state
         /\ CommandSet(k, byte).status = k.status
  BY DEF CommandSet, CardType

LEMMA ThreadStartDoes ==
  ASSUME SscTypeOK, NEW c \in Card, NEW k \in CardType, ThreadStart(c, k)
  PROVE  /\ card' \in [Card -> CardType]
         /\ card'[c].rx = k.rx /\ card'[c].tx = k.tx /\ card'[c].status = k.status
         /\ card'[c].state \in {k.state, "start"}
         /\ \A d \in Card \ {c} : card'[d] = card[d]
  <1> USE DEF SscTypeOK
  <1>1. CASE Starts(c)
    <2>1. card' = [card EXCEPT ![c] = [k EXCEPT !.state = "start", !.armed = TRUE]]
      BY <1>1 DEF ThreadStart
    <2>2. [k EXCEPT !.state = "start", !.armed = TRUE] \in CardType
      BY DEF CardType
    <2>. QED
      BY <2>1, <2>2 DEF CardType
  <1>2. CASE ~Starts(c)
    <2>1. card' = [card EXCEPT ![c] = k]
      BY <1>2 DEF ThreadStart
    <2>. QED
      BY <2>1 DEF CardType
  <1>. QED
    BY <1>1, <1>2

(* What a step may do to a card: to its bytes, by one of the actions that  *)
(* handle them, or else nothing that tells.                                *)
SameCounts(d) ==
  /\ seen'[d].line = seen[d].line /\ seen'[d].got = seen[d].got
  /\ seen'[d].put = seen[d].put /\ seen'[d].out = seen[d].out
  /\ seen'[d].reset = seen[d].reset
Quiet(d) ==
  /\ card'[d].rx = card[d].rx /\ card'[d].tx = card[d].tx
  /\ SameCounts(d) /\ Gone(d)' = Gone(d)
  /\ Begun(d) => Begun(d)'
  /\ "TX_EMPTY" \in card'[d].status =>
       "TX_EMPTY" \in card[d].status \/ Room(card[d].tx)
Handled(d) ==
  \/ WriteData(d)
  \/ ReadData(d)
  \/ \E w \in {"cpu", "ui"} : ResetFifos(w) /\ conf[w].card = d
  \/ thread.card = d /\ (ReadLine \/ WriteLine \/ RemoveSent)
CardFits(k) == k \in CardType /\ Len(k.rx) <= Capacity /\ Len(k.tx) <= Capacity
Counts == [line : 0 .. MaxByte, got : 0 .. MaxByte, put : 0 .. MaxByte,
           out : 0 .. MaxByte, reset : BOOLEAN, early : BOOLEAN]

(* A step that changes one card only, and not its bytes.                   *)
LEMMA QuietSet ==
  ASSUME SscTypeOK, NEW c \in Card, NEW k \in CardType,
         card' = [card EXCEPT ![c] = k], UNCHANGED <<seen, thread>>,
         k.rx = card[c].rx, k.tx = card[c].tx, Begun(c) => k.state # "init",
         "TX_EMPTY" \in k.status =>
           "TX_EMPTY" \in card[c].status \/ Room(card[c].tx)
  PROVE  \A d \in Card : CardFits(card'[d]) /\ Quiet(d)
  <1>1. card'[c] = k /\ \A d \in Card \ {c} : card'[d] = card[d]
    BY DEF SscTypeOK
  <1>2. \A d \in Card : Gone(d)' = Gone(d) /\ seen'[d] = seen[d]
    BY DEF Gone
  <1>3. Quiet(c) /\ CardFits(card'[c])
    BY <1>1, <1>2 DEF SscTypeOK, Quiet, SameCounts, Begun, CardFits
  <1>4. \A d \in Card \ {c} : Quiet(d) /\ CardFits(card'[d])
    BY <1>1, <1>2 DEF SscTypeOK, Quiet, SameCounts, Begun, CardFits
  <1>. QED
    BY <1>3, <1>4

(* The same of a step that may start the card.                             *)
LEMMA QuietStart ==
  ASSUME SscTypeOK, NEW c \in Card, NEW k \in CardType, ThreadStart(c, k),
         UNCHANGED seen, thread_id \/ thread.at = "none",
         k.rx = card[c].rx, k.tx = card[c].tx, k.state = card[c].state,
         k.status = card[c].status
  PROVE  \A d \in Card : CardFits(card'[d]) /\ Quiet(d)
  <1>1. /\ card' \in [Card -> CardType]
        /\ card'[c].rx = k.rx /\ card'[c].tx = k.tx /\ card'[c].status = k.status
        /\ card'[c].state \in {k.state, "start"}
        /\ \A d \in Card \ {c} : card'[d] = card[d]
    BY ThreadStartDoes
  <1>2. \A d \in Card : Gone(d)' = Gone(d) /\ seen'[d] = seen[d]
    BY DEF Gone, ThreadStart, SscTypeOK
  <1>3. Quiet(c) /\ CardFits(card'[c])
    BY <1>1, <1>2 DEF SscTypeOK, Quiet, SameCounts, Begun, CardFits
  <1>4. \A d \in Card \ {c} : Quiet(d) /\ CardFits(card'[d])
    BY <1>1, <1>2 DEF SscTypeOK, Quiet, SameCounts, Begun, CardFits
  <1>. QED
    BY <1>3, <1>4

(* A step that changes the bytes of one card leaves the others alone.      *)
LEMMA OthersQuiet ==
  ASSUME SscTypeOK, NEW c \in Card, NEW k \in CardType,
         card' = [card EXCEPT ![c] = k], \A d \in Card \ {c} : seen'[d] = seen[d],
         \A d \in Card \ {c} : Gone(d)' = Gone(d)
  PROVE  \A d \in Card \ {c} : CardFits(card'[d]) /\ Quiet(d)
  <1> SUFFICES ASSUME NEW d \in Card \ {c} PROVE CardFits(card'[d]) /\ Quiet(d)
    OBVIOUS
  <1>1. card'[d] = card[d] /\ seen'[d] = seen[d]
    BY DEF SscTypeOK
  <1>. QED
    BY <1>1 DEF SscTypeOK, CardFits, Quiet, SameCounts, Begun

(* What is left of tx.                                                     *)
LEMMA LeftIs ==
  ASSUME NEW S, NEW s \in Seq(S), NEW n \in Nat
  PROVE  /\ Left(s, n) \in Seq(S)
         /\ Len(Left(s, n)) = IF n <= Len(s) THEN Len(s) - n ELSE 0
         /\ \A i \in 1 .. Len(Left(s, n)) : Left(s, n)[i] = s[n + i]
  <1>1. Len(s) \in Nat /\ \A i \in n + 1 .. Len(s) : s[i] \in S
    BY LenProperties, ElementOfSeq
  <1>2. /\ Left(s, n) \in Seq(S)
        /\ Len(Left(s, n)) = IF n + 1 <= Len(s) THEN Len(s) - (n + 1) + 1 ELSE 0
        /\ \A i \in 1 .. Len(s) - (n + 1) + 1 : Left(s, n)[i] = s[n + 1 + i - 1]
    BY <1>1, SubSeqProperties DEF Left
  <1>3. CASE n < Len(s)
    <2>1. n + 1 <= Len(s) /\ Len(s) - (n + 1) + 1 = Len(s) - n
      BY <1>1, <1>3
    <2>2. Len(Left(s, n)) = Len(s) - n
      BY <1>2, <2>1
    <2>3. ASSUME NEW i \in 1 .. Len(s) - n PROVE Left(s, n)[i] = s[n + i]
      <3>1. n + 1 + i - 1 = n + i
        OBVIOUS
      <3>. QED
        BY <1>2, <2>1, <3>1
    <2>. QED
      BY <1>2, <1>3, <2>2, <2>3
  <1>4. CASE n >= Len(s)
    <2>1. ~(n + 1 <= Len(s))
      BY <1>1, <1>4
    <2>2. Len(Left(s, n)) = 0
      BY <1>2, <2>1
    <2>3. n <= Len(s) => Len(s) - n = 0
      BY <1>1, <1>4
    <2>. QED
      BY <1>2, <2>2, <2>3
  <1>. QED
    BY <1>1, <1>3, <1>4

(* A card with other bytes.                                                *)
LEMMA WithRx ==
  ASSUME NEW k \in CardType, NEW r \in Seq(Byte)
  PROVE  /\ [k EXCEPT !.rx = r] \in CardType
         /\ [k EXCEPT !.rx = r].rx = r /\ [k EXCEPT !.rx = r].tx = k.tx
  BY DEF CardType

LEMMA WithTx ==
  ASSUME NEW k \in CardType, NEW t \in Seq(Byte)
  PROVE  /\ [k EXCEPT !.tx = t] \in CardType
         /\ [k EXCEPT !.tx = t].tx = t /\ [k EXCEPT !.tx = t].rx = k.rx
  BY DEF CardType

(* What a FIFO holds after a reset.                                         *)
LEMMA AfterResetIs ==
  ASSUME NEW c, NEW f \in AfterReset(c)
  PROVE  /\ f \in Seq(Byte) /\ Len(f) \in Nat /\ Len(f) <= Capacity
         /\ card[c].state = "init" => f = <<>>
  <1>0. Capacity \in Nat /\ 0 \in Byte
    BY SscAssumption DEF SscAssumption, Byte
  <1>1. PICK n \in Nat : /\ f = [i \in 1 .. n |-> 0] /\ n <= Capacity
                         /\ card[c].state = "init" => n = 0
    BY <1>0 DEF AfterReset
  <1>2. f \in Seq(Byte)
    BY <1>0, <1>1, IsASeq
  <1>3. Len(f) = n
    BY <1>1
  <1>. QED
    BY <1>1, <1>2, <1>3, EmptySeq

(* What a command does.                                                    *)
LEMMA TakeCommandDoes ==
  ASSUME SscTypeOK, TakeCommand
  PROVE  LET m == Head(commands) IN
         /\ m \in Command /\ commands # <<>> /\ thread.at = "commands"
         /\ commands' = Tail(commands)
         /\ UNCHANGED <<slots, alive, thread_id, conf, cpu, seen>>
         /\ \/ /\ m.cmd = "start" /\ thread' = thread
               /\ card' = [card EXCEPT ![m.card].state = "running"]
               /\ started' = InsertedIn(started, m.card)
               /\ next' = InsertedLinks(started, m.card)
            \/ /\ m.cmd = "stop" /\ CanRemove(started, m.card) /\ thread' = thread
               /\ card' = [card EXCEPT ![m.card].state = "stopped"]
               /\ started' = RemovedFrom(started, m.card)
               /\ next' = RemovedLinks(started, m.card)
            \/ /\ m.cmd # "start" /\ UNCHANGED <<card, started, next>>
               /\ m.cmd = "terminate" => thread' = [thread EXCEPT !.at = "ended"]
               /\ m.cmd = "stop" => thread' = [thread EXCEPT !.at = "crashed"]
  <1>1. commands # <<>> /\ commands \in Seq(Command)
    BY DEF TakeCommand, SscTypeOK, Command
  <1>2. Head(commands) \in Command
    BY <1>1, HeadTailProperties
  <1>3. Head(commands).cmd \in {"start", "stop", "terminate"}
    BY <1>2 DEF Command
  <1>4. CASE Head(commands).cmd = "start"
    BY <1>1, <1>2, <1>4 DEF TakeCommand
  <1>5. CASE Head(commands).cmd = "stop"
    BY <1>1, <1>2, <1>5 DEF TakeCommand
  <1>6. CASE Head(commands).cmd = "terminate"
    BY <1>1, <1>2, <1>6 DEF TakeCommand
  <1>. QED
    BY <1>3, <1>4, <1>5, <1>6

LEMMA CardStep ==
  ASSUME SscTypeOK, Places, [SscNext]_sscvars
  PROVE  /\ card' \in [Card -> CardType] /\ seen' \in [Card -> Counts]
         /\ \A d \in Card : CardFits(card'[d]) /\ (Quiet(d) \/ Handled(d))
  <1> DEFINE Goal == /\ card' \in [Card -> CardType] /\ seen' \in [Card -> Counts]
                     /\ \A d \in Card : CardFits(card'[d]) /\ (Quiet(d) \/ Handled(d))
  <1>0. SscTypeOK /\ SscAssumption /\ seen \in [Card -> Counts]
    BY SscAssumption DEF SscTypeOK, Counts
  <1>k. \A c \in Card : card[c] \in CardType
    BY DEF SscTypeOK
  <1>q. ASSUME UNCHANGED <<card, seen>>, \A d \in Card : Gone(d)' = Gone(d)
        PROVE  Goal
    BY <1>q DEF SscTypeOK, Quiet, SameCounts, CardFits, Counts, Begun
  <1>1. ASSUME NEW c \in Card, NEW byte \in Bytes, WriteCommand(c, byte)
        PROVE  Goal
    <2>1. byte \in SUBSET CommandBit
      BY SscAssumption
    <2>2. PICK k \in CardType : /\ card' = [card EXCEPT ![c] = k]
                                /\ k.rx = card[c].rx /\ k.tx = card[c].tx
                                /\ k.state = card[c].state
                                /\ k.status = card[c].status
      <3>1. CASE "DTR" \in byte \ card[c].command
        <4>1. card' = [card EXCEPT ![c] = [card[c] EXCEPT !.open = FALSE]]
          BY <1>1, <3>1 DEF WriteCommand, CpuConf
        <4>2. [card[c] EXCEPT !.open = FALSE] \in CardType
          BY <1>k DEF CardType
        <4>. QED
          BY <1>k, <4>1, <4>2 DEF CardType
      <3>2. CASE ~("DTR" \in byte \ card[c].command)
        <4>1. card' = [card EXCEPT ![c] = CommandSet(card[c], byte)]
          BY <1>1, <3>2 DEF WriteCommand
        <4>. QED
          BY <1>k, <2>1, <4>1, CommandSetKeeps
      <3>. QED
        BY <3>1, <3>2
    <2>3. UNCHANGED <<seen, thread>>
      BY <1>1 DEF WriteCommand
    <2>. QED
      BY <1>0, <2>2, <2>3, QuietSet DEF SscTypeOK, Begun
  <1>2. ASSUME NEW c \in Card, SelectRom(c) PROVE Goal
    <2>1. card' = [card EXCEPT ![c] = [card[c] EXCEPT !.open = FALSE]]
      BY <1>2 DEF SelectRom, CpuConf
    <2>2. [card[c] EXCEPT !.open = FALSE] \in CardType
      BY <1>k DEF CardType
    <2>3. UNCHANGED <<seen, thread>>
      BY <1>2 DEF SelectRom
    <2>. QED
      BY <1>0, <1>k, <2>1, <2>2, <2>3, QuietSet DEF SscTypeOK, Begun, CardType
  <1>3. ASSUME NEW c \in Card, ReadDipsw(c) PROVE Goal
    <2>1. ThreadStart(c, card[c]) /\ UNCHANGED seen /\ cpu.at = "run"
      BY <1>3 DEF ReadDipsw, ProgramRuns
    <2>. QED
      BY <1>0, <1>k, <2>1, QuietStart, ThreadStartDoes DEF Places
  <1>4. ASSUME NEW c \in Card, WriteData(c) PROVE Goal
    <2> DEFINE k == card[c]
               b == Number(c, seen[c].put + 1)
               after == IF Room(k.tx) THEN Append(k.tx, b) ELSE k.tx
               j == [k EXCEPT !.tx = after, !.status = TxFlag(k, after)]
    <2>1. card' = [card EXCEPT ![c] = j] /\ UNCHANGED thread
      BY <1>4 DEF WriteData
    <2>2. b \in Byte /\ k \in CardType /\ Len(k.tx) <= Capacity
      <3>1. seen[c].put + 1 \in 0 .. MaxByte /\ 0 \in 0 .. MaxByte
        BY <1>0, <1>4 DEF WriteData, Counts, SscAssumption
      <3>. QED
        BY <1>k, <3>1 DEF Byte, Number, SscTypeOK
    <2>3. after \in Seq(Byte) /\ Len(after) <= Capacity
      <3>1. k.tx \in Seq(Byte)
        BY <2>2 DEF CardType
      <3>2. Len(k.tx) \in Nat /\ Capacity \in Nat
        BY <1>0, <3>1, LenProperties DEF SscAssumption
      <3>3. /\ Append(k.tx, b) \in Seq(Byte)
            /\ Len(Append(k.tx, b)) = Len(k.tx) + 1
        BY <2>2, <3>1, AppendProperties
      <3>. QED
        BY <2>2, <3>1, <3>2, <3>3 DEF Room
    <2>4. TxFlag(k, after) \in SUBSET StatusBit
      BY <2>2 DEF TxFlag, CardType
    <2>5. j \in CardType /\ CardFits(j)
      BY <1>0, <2>2, <2>3, <2>4 DEF CardType, CardFits, SscTypeOK
    <2>6. seen' \in [Card -> Counts] /\ \A d \in Card \ {c} : seen'[d] = seen[d]
      <3>1. PICK p \in 0 .. MaxByte :
                seen' = [seen EXCEPT ![c] = [seen[c] EXCEPT !.put = p]]
        <4>1. seen' = [seen EXCEPT ![c] = [seen[c] EXCEPT !.put =
                         IF Room(k.tx) THEN b ELSE seen[c].put]]
          BY <1>4 DEF WriteData
        <4>2. seen[c].put \in 0 .. MaxByte /\ b \in 0 .. MaxByte
          BY <1>0, <2>2 DEF Counts, Byte, SscAssumption
        <4>. QED
          BY <4>1, <4>2
      <3>2. [seen[c] EXCEPT !.put = p] \in Counts
        BY <1>0 DEF Counts
      <3>. QED
        BY <1>0, <3>1, <3>2
    <2> HIDE DEF j
    <2>7. \A d \in Card \ {c} : CardFits(card'[d]) /\ Quiet(d)
      BY <1>0, <2>1, <2>5, <2>6, OthersQuiet DEF Gone
    <2>. QED
      BY <1>4, <2>1, <2>5, <2>6, <2>7 DEF Handled, SscTypeOK
  <1>5. ASSUME NEW c \in Card, ReadData(c) PROVE Goal
    <2> DEFINE k == card[c]
               j == [k EXCEPT !.rx = Tail(@), !.irq = @ \/
                       (Tail(k.rx) # <<>> /\ "IRQ_R" \notin k.command)]
    <2>1. card' = [card EXCEPT ![c] = j] /\ UNCHANGED thread /\ k.rx # <<>>
      BY <1>5 DEF ReadData
    <2>2. k \in CardType /\ k.rx \in Seq(Byte) /\ Len(k.rx) <= Capacity
      BY <1>0, <1>k DEF CardType, SscTypeOK
    <2>3. /\ Tail(k.rx) \in Seq(Byte) /\ Len(Tail(k.rx)) <= Capacity
          /\ Head(k.rx) \in 0 .. MaxByte
      <3>1. /\ Head(k.rx) \in Byte /\ Tail(k.rx) \in Seq(Byte)
            /\ Len(Tail(k.rx)) = Len(k.rx) - 1
        BY <2>1, <2>2, HeadTailProperties
      <3>2. Len(k.rx) \in Nat /\ Capacity \in Nat /\ MaxByte \in Nat
        BY <1>0, <2>2, LenProperties DEF SscAssumption
      <3>. QED
        BY <2>2, <3>1, <3>2 DEF Byte
    <2>5. j \in CardType /\ CardFits(j)
      BY <1>0, <2>2, <2>3 DEF CardType, CardFits, SscTypeOK
    <2>6. seen' \in [Card -> Counts] /\ \A d \in Card \ {c} : seen'[d] = seen[d]
      <3>1. seen' = [seen EXCEPT ![c] = [seen[c] EXCEPT !.got = Head(k.rx)]]
        BY <1>5 DEF ReadData
      <3>2. [seen[c] EXCEPT !.got = Head(k.rx)] \in Counts
        BY <1>0, <2>3 DEF Counts
      <3>. QED
        BY <1>0, <3>1, <3>2
    <2> HIDE DEF j
    <2>7. \A d \in Card \ {c} : CardFits(card'[d]) /\ Quiet(d)
      BY <1>0, <2>1, <2>5, <2>6, OthersQuiet DEF Gone
    <2>. QED
      BY <1>5, <2>1, <2>5, <2>6, <2>7 DEF Handled, SscTypeOK
  <1>6. ASSUME NEW c \in Card, ReadStatus(c) PROVE Goal
    <2> DEFINE j == [card[c] EXCEPT !.status = @ \ {"IRQ"}, !.irq = FALSE]
    <2>1. card' = [card EXCEPT ![c] = j] /\ UNCHANGED <<seen, thread>>
      BY <1>6 DEF ReadStatus
    <2>2. /\ j \in CardType /\ j.rx = card[c].rx /\ j.tx = card[c].tx
          /\ j.state = card[c].state /\ j.status \subseteq card[c].status
      BY <1>k DEF CardType
    <2> HIDE DEF j
    <2>. QED
      BY <1>0, <2>1, <2>2, QuietSet DEF SscTypeOK, Begun
  <1>7. ASSUME NEW c \in Card, Timer(c) PROVE Goal
    <2> DEFINE k == card[c]
               j == IF k.state # "running" THEN [k EXCEPT !.armed = FALSE]
                    ELSE [k EXCEPT !.irq = @ \/ Interrupts(k),
                                   !.status = (IF Room(k.tx) THEN {"TX_EMPTY"} ELSE {})
                                     \cup (IF Interrupts(k) THEN {"IRQ"}
                                                            ELSE @ \ {"TX_EMPTY"})]
    <2>1. card' = [card EXCEPT ![c] = j] /\ UNCHANGED <<seen, thread>>
      BY <1>7 DEF Timer
    <2>2. /\ j \in CardType /\ j.rx = k.rx /\ j.tx = k.tx /\ j.state = k.state
          /\ "TX_EMPTY" \in j.status => "TX_EMPTY" \in k.status \/ Room(k.tx)
      BY <1>k DEF CardType, StatusBit, Interrupts
    <2> HIDE DEF j
    <2>. QED
      BY <1>0, <2>1, <2>2, QuietSet DEF SscTypeOK, Begun
  <1>8. ASSUME NEW c \in Card, UiConf(c) PROVE Goal
    <2>1. PICK same \in BOOLEAN : card' = [card EXCEPT ![c].open = @ /\ same]
      BY <1>8 DEF UiConf
    <2>2. card' = [card EXCEPT ![c] = [card[c] EXCEPT !.open = @ /\ same]]
      BY <2>1
    <2>3. [card[c] EXCEPT !.open = @ /\ same] \in CardType
      BY <1>k DEF CardType
    <2>4. UNCHANGED <<seen, thread>>
      BY <1>8 DEF UiConf
    <2>. QED
      BY <1>0, <1>k, <2>2, <2>3, <2>4, QuietSet DEF SscTypeOK, Begun, CardType
  <1>9. ASSUME NEW w \in {"cpu", "ui"}, OpenTty(w) PROVE Goal
    <2> DEFINE c == conf[w].card
               j == [card[c] EXCEPT !.open = TRUE]
    <2>1. c \in Card
      BY <1>9 DEF OpenTty, Places, SscTypeOK, MaybeCard
    <2>2. card' = [card EXCEPT ![c] = j] /\ UNCHANGED <<seen, thread>>
      BY <1>9 DEF OpenTty
    <2>3. /\ j \in CardType /\ j.rx = card[c].rx /\ j.tx = card[c].tx
          /\ j.state = card[c].state /\ j.status = card[c].status
      BY <1>k, <2>1 DEF CardType
    <2> HIDE DEF j, c
    <2>. QED
      BY <1>0, <2>1, <2>2, <2>3, QuietSet DEF SscTypeOK, Begun
  <1>10. ASSUME NEW w \in {"cpu", "ui"}, OpenFails(w) PROVE Goal
    <2> DEFINE c == conf[w].card
    <2>1. c \in Card /\ (w = "cpu" => cpu.at = "run")
      BY <1>10 DEF OpenFails, Places, SscTypeOK, MaybeCard
    <2>2. Continue(w, c, card[c]) /\ UNCHANGED seen
      BY <1>10 DEF OpenFails
    <2> HIDE DEF c
    <2>3. CASE w = "cpu"
      <3> DEFINE k == CommandSet(card[c], cpu.byte)
      <3>1. ThreadStart(c, k)
        BY <2>2, <2>3 DEF Continue
      <3>2. /\ k \in CardType /\ k.rx = card[c].rx /\ k.tx = card[c].tx
            /\ k.state = card[c].state /\ k.status = card[c].status
        BY <1>k, <2>1, CommandSetKeeps DEF SscTypeOK
      <3> HIDE DEF k
      <3>. QED
        BY <1>0, <2>1, <2>2, <2>3, <3>1, <3>2, QuietStart, ThreadStartDoes DEF Places
    <2>4. CASE w = "ui"
      <3>1. card' = [card EXCEPT ![c] = card[c]] /\ UNCHANGED thread
        BY <2>2, <2>4 DEF Continue
      <3>. QED
        BY <1>0, <1>k, <2>1, <2>2, <3>1, QuietSet DEF SscTypeOK, Begun
    <2>. QED
      BY <2>3, <2>4
  <1>11. ASSUME NEW w \in {"cpu", "ui"}, ResetFifos(w) PROVE Goal
    <2>1. PICK c \in Card : c = conf[w].card /\ (w = "cpu" => cpu.at = "run")
      BY <1>11 DEF ResetFifos, Places, SscTypeOK, MaybeCard
    <2>2. PICK r \in AfterReset(c), t \in AfterReset(c) :
            Continue(w, c, [card[c] EXCEPT !.rx = r, !.tx = t])
      BY <1>11, <2>1 DEF ResetFifos
    <2>r. /\ r \in Seq(Byte) /\ t \in Seq(Byte)
          /\ Len(r) <= Capacity /\ Len(t) <= Capacity
      BY AfterResetIs
    <2> DEFINE e == [card[c] EXCEPT !.rx = r, !.tx = t]
    <2>3. /\ e \in CardType /\ e.rx = r /\ e.tx = t
      BY <1>k, <2>r DEF CardType
    <2>4. seen' \in [Card -> Counts] /\ \A d \in Card \ {c} : seen'[d] = seen[d]
      <3>1. PICK x \in Counts : seen' = [seen EXCEPT ![c] = x]
        <4> DEFINE y == [seen[c] EXCEPT !.line = 0, !.got = 0, !.put = 0,
                                        !.out = 0, !.reset = TRUE]
        <4>1. seen[c] \in Counts /\ 0 \in 0 .. MaxByte
          BY <1>0 DEF SscAssumption
        <4>2. y \in Counts
          BY <4>1 DEF Counts
        <4>3. seen' = [seen EXCEPT ![c] = IF card[c].state = "init" THEN seen[c] ELSE y]
          BY <1>11, <2>1 DEF ResetFifos
        <4> HIDE DEF y
        <4>. QED
          BY <4>1, <4>2, <4>3
      <3>. QED
        BY <1>0, <3>1
    <2>5. Handled(c)
      BY <1>11, <2>1 DEF Handled
    <2>e. Continue(w, c, e)
      BY <2>2
    <2> HIDE DEF e
    <2>6. /\ card' \in [Card -> CardType]
          /\ card'[c].rx = r /\ card'[c].tx = t
          /\ \A d \in Card \ {c} : card'[d] = card[d]
          /\ \A d \in Card : Gone(d)' = Gone(d)
      <3>1. CASE w = "cpu"
        <4> DEFINE k == CommandSet(e, cpu.byte)
        <4>1. ThreadStart(c, k) /\ (thread_id \/ thread.at = "none")
          BY <2>1, <2>e, <3>1 DEF Continue, Places
        <4>2. k \in CardType /\ k.rx = r /\ k.tx = t
          BY <2>3, CommandSetKeeps DEF SscTypeOK
        <4> HIDE DEF k
        <4>3. \A d \in Card : Gone(d)' = Gone(d)
          BY <4>1 DEF Gone, ThreadStart, SscTypeOK
        <4>. QED
          BY <1>0, <2>1, <4>1, <4>2, <4>3, ThreadStartDoes
      <3>2. CASE w = "ui"
        <4>1. card' = [card EXCEPT ![c] = e] /\ UNCHANGED thread
          BY <2>e, <3>2 DEF Continue
        <4>. QED
          BY <1>0, <2>1, <2>3, <4>1 DEF Gone, SscTypeOK
      <3>. QED
        BY <3>1, <3>2
    <2>7. ASSUME NEW d \in Card \ {c} PROVE CardFits(card'[d]) /\ Quiet(d)
      BY <2>4, <2>6, <2>7 DEF SscTypeOK, CardFits, Quiet, SameCounts, Begun
    <2>8. CardFits(card'[c])
      BY <2>r, <2>6 DEF CardFits
    <2>. QED
      BY <2>4, <2>5, <2>6, <2>7, <2>8
  <1>12. CASE TakeCommand
    <2> DEFINE m == Head(commands)
    <2>1. /\ UNCHANGED seen /\ thread.at = "commands" /\ thread'.at # "remove"
          /\ \/ UNCHANGED card
             \/ \E s \in {"running", "stopped"} :
                   card' = [card EXCEPT ![m.card] = [card[m.card] EXCEPT !.state = s]]
      <3>1. thread' = thread \/ thread' = [thread EXCEPT !.at = "crashed"]
            \/ thread' = [thread EXCEPT !.at = "ended"]
        BY <1>12, TakeCommandDoes DEF Command
      <3>2. thread.at = "commands"
        BY <1>12 DEF TakeCommand
      <3>3. thread'.at # "remove"
        BY <3>1, <3>2 DEF SscTypeOK
      <3>. QED
        BY <1>12, <3>2, <3>3, TakeCommandDoes
    <2>2. \A d \in Card : Gone(d)' = Gone(d) /\ seen'[d] = seen[d]
      BY <2>1 DEF Gone
    <2>3. CASE UNCHANGED card
      BY <1>0, <1>q, <2>1, <2>2, <2>3
    <2>4. ASSUME NEW s \in {"running", "stopped"},
                 card' = [card EXCEPT ![m.card] = [card[m.card] EXCEPT !.state = s]]
          PROVE  Goal
      <3>1. ASSUME NEW d \in Card
            PROVE  /\ card'[d] \in CardType
                   /\ card'[d].rx = card[d].rx /\ card'[d].tx = card[d].tx
                   /\ card'[d].status = card[d].status
                   /\ Begun(d) => card'[d].state # "init"
        <4> DEFINE j == [card[d] EXCEPT !.state = s]
        <4>1. card'[d] = card[d] \/ card'[d] = j
          BY <2>4 DEF SscTypeOK
        <4>2. card[d] \in CardType
          BY <1>k
        <4>3. /\ j \in CardType /\ j.state = s /\ j.rx = card[d].rx
              /\ j.tx = card[d].tx /\ j.status = card[d].status
          BY <4>2 DEF CardType
        <4> HIDE DEF j
        <4>4. CASE card'[d] = card[d]
          BY <4>2, <4>4 DEF Begun
        <4>5. CASE card'[d] = j
          BY <4>3, <4>5
        <4>. QED
          BY <4>1, <4>4, <4>5
      <3>2. card' \in [Card -> CardType]
        BY <2>4, <3>1 DEF SscTypeOK
      <3>3. ASSUME NEW d \in Card PROVE CardFits(card'[d]) /\ Quiet(d)
        BY <1>0, <2>2, <3>1 DEF CardFits, Quiet, SameCounts, Begun, SscTypeOK
      <3>. QED
        BY <1>0, <2>1, <3>2, <3>3
    <2>. QED
      BY <2>1, <2>3, <2>4
  <1>13. CASE BuildSets
    BY <1>0, <1>13, <1>q DEF BuildSets, Gone, SscTypeOK
  <1>14. CASE Select
    <2>1. UNCHANGED <<card, seen>> /\ thread.at # "remove" /\ thread'.at # "remove"
      BY <1>14 DEF Select, Serve, Leave, SscTypeOK
    <2>. QED
      BY <1>q, <2>1 DEF Gone
  <1>15. CASE Skip
    <2>1. UNCHANGED <<card, seen>> /\ thread.at # "remove" /\ thread'.at # "remove"
      <3>1. thread'.at \in {"write", "commands", "read"}
        <4>1. \/ thread' = [thread EXCEPT !.at = "write", !.rfds = @ \ {thread.card}]
              \/ thread' = ServeNext
          BY <1>15 DEF Skip
        <4>2. ServeNext.at \in {"write", "commands", "read"}
          BY DEF ServeNext, Serve
        <4>. QED
          BY <4>1, <4>2 DEF SscTypeOK
      <3>. QED
        BY <1>15, <3>1 DEF Skip
    <2>. QED
      BY <1>q, <2>1 DEF Gone
  <1>16. CASE ReadLine
    <2> DEFINE c == thread.card
    <2>1. PICK n \in 0 .. Capacity - Len(card[c].rx) :
            /\ seen[c].line + n <= MaxByte
            /\ card' = [card EXCEPT ![c].rx =
                         @ \o [i \in 1 .. n |-> Number(c, seen[c].line + i)]]
            /\ seen' = [seen EXCEPT ![c].line = Number(c, @ + n)]
      BY <1>16 DEF ReadLine
    <2>2. thread.at = "read" /\ c \in Card /\ thread'.at = "write"
      BY <1>16 DEF ReadLine, Ready, SscTypeOK
    <2> DEFINE more == [i \in 1 .. n |-> Number(c, seen[c].line + i)]
               j == [card[c] EXCEPT !.rx = @ \o more]
    <2>3. card' = [card EXCEPT ![c] = j]
      BY <2>1
    <2>4. n \in Nat /\ Len(card[c].rx) \in Nat /\ seen[c].line \in Nat
      BY <1>0, <1>k, <2>2, LenProperties DEF CardType, Counts, SscAssumption
    <2>5. card[c].rx \in Seq(Byte) /\ more \in Seq(Byte)
      <3>1. \A i \in 1 .. n : Number(c, seen[c].line + i) \in Byte
        BY <1>0, <2>1, <2>4 DEF Byte, Number, SscAssumption
      <3>. QED
        BY <1>k, <2>2, <2>4, <3>1 DEF CardType
    <2>6. Len(more) = n
      BY <2>4
    <2>7. /\ j \in CardType /\ j.tx = card[c].tx
          /\ Len(j.rx) = Len(card[c].rx) + n
      <3>1. /\ card[c].rx \o more \in Seq(Byte)
            /\ Len(card[c].rx \o more)
                 = Len(card[c].rx) + n
        BY <2>5, <2>6, ConcatProperties
      <3>2. card[c] \in CardType
        BY <1>k, <2>2
      <3>. QED
        BY <3>1, <3>2, WithRx
    <2>8. CardFits(j)
      BY <1>0, <2>2, <2>4, <2>7 DEF CardFits, SscTypeOK, SscAssumption
    <2>9. seen' \in [Card -> Counts] /\ \A d \in Card \ {c} : seen'[d] = seen[d]
      <3>1. seen' = [seen EXCEPT ![c] = [seen[c] EXCEPT !.line = Number(c, seen[c].line + n)]]
        BY <2>1
      <3>2. Number(c, seen[c].line + n) \in 0 .. MaxByte
        BY <1>0, <2>1, <2>4 DEF Number, SscAssumption
      <3>3. [seen[c] EXCEPT !.line = Number(c, seen[c].line + n)] \in Counts
        BY <1>0, <2>2, <3>2 DEF Counts
      <3>. QED
        BY <1>0, <3>1, <3>3
    <2>10. Handled(c) /\ \A d \in Card : Gone(d)' = Gone(d)
      BY <1>16, <2>2 DEF Handled, Gone
    <2> HIDE DEF j, c
    <2>11. \A d \in Card \ {c} : CardFits(card'[d]) /\ Quiet(d)
      BY <1>0, <2>2, <2>3, <2>7, <2>9, <2>10, OthersQuiet
    <2>. QED
      BY <1>0, <2>2, <2>3, <2>7, <2>8, <2>9, <2>10, <2>11 DEF SscTypeOK
  <1>17. CASE ReadFails
    <2>1. PICK c \in Card, again \in BOOLEAN :
            c = thread.card /\ card' = [card EXCEPT ![c].open = again]
      BY <1>17 DEF ReadFails, Ready, SscTypeOK
    <2>2. /\ UNCHANGED seen /\ thread.at = "read" /\ thread'.at = "commands"
      BY <1>17 DEF ReadFails, Ready, SscTypeOK, Leave, Serve
    <2> DEFINE j == [card[c] EXCEPT !.open = again]
    <2>3. card' = [card EXCEPT ![c] = j]
      BY <2>1
    <2>4. /\ j \in CardType /\ j.rx = card[c].rx /\ j.tx = card[c].tx
          /\ j.state = card[c].state /\ j.status = card[c].status
      BY <1>k DEF CardType
    <2> HIDE DEF j
    <2>5. \A d \in Card : Gone(d)' = Gone(d)
      BY <2>2 DEF Gone
    <2>6. \A d \in Card \ {c} : CardFits(card'[d]) /\ Quiet(d)
      BY <1>0, <2>2, <2>3, <2>4, <2>5, OthersQuiet
    <2>7. card'[c] = j /\ seen'[c] = seen[c]
      BY <1>0, <2>2, <2>3 DEF SscTypeOK
    <2>8. Len(card[c].rx) <= Capacity /\ Len(card[c].tx) <= Capacity
      BY DEF SscTypeOK
    <2>9. CardFits(card'[c]) /\ Quiet(c)
      BY <2>4, <2>5, <2>7, <2>8 DEF CardFits, Quiet, SameCounts, Begun
    <2>. QED
      BY <1>0, <2>2, <2>3, <2>4, <2>6, <2>9 DEF SscTypeOK
  <1>18. CASE WriteLine
    <2> DEFINE c == thread.card
    <2>1. PICK n \in 0 .. Len(card[c].tx) :
            seen' = [seen EXCEPT ![c].out = IF n = 0 THEN @ ELSE card[c].tx[n]]
      BY <1>18 DEF WriteLine
    <2>2. /\ UNCHANGED card /\ thread.at = "write" /\ c \in Card
          /\ thread'.card = c
      BY <1>18 DEF WriteLine, Ready, SscTypeOK
    <2>3. seen' \in [Card -> Counts] /\ \A d \in Card \ {c} : seen'[d] = seen[d]
      <3>1. PICK o \in 0 .. MaxByte :
                seen' = [seen EXCEPT ![c] = [seen[c] EXCEPT !.out = o]]
        <4>1. seen' = [seen EXCEPT ![c] = [seen[c] EXCEPT !.out =
                         IF n = 0 THEN seen[c].out ELSE card[c].tx[n]]]
          BY <2>1
        <4>2. n # 0 => card[c].tx[n] \in Byte
          BY <1>k, <2>2, ElementOfSeq, LenProperties DEF CardType
        <4>3. seen[c].out \in 0 .. MaxByte
          BY <1>0, <2>2 DEF Counts
        <4>4. (IF n = 0 THEN seen[c].out ELSE card[c].tx[n]) \in 0 .. MaxByte
          BY <1>0, <4>2, <4>3 DEF Byte, SscAssumption
        <4>. QED
          BY <4>1, <4>4
      <3>2. [seen[c] EXCEPT !.out = o] \in Counts
        BY <1>0, <2>2 DEF Counts
      <3>. QED
        BY <1>0, <3>1, <3>2
    <2>4. Handled(c) /\ \A d \in Card \ {c} : Gone(d)' = Gone(d)
      BY <1>18, <2>2 DEF Handled, Gone
    <2> HIDE DEF c
    <2>. QED
      BY <1>0, <2>2, <2>3, <2>4 DEF SscTypeOK, CardFits, Quiet, SameCounts, Begun
  <1>19. CASE WriteFails
    <2>1. UNCHANGED <<card, seen>> /\ thread.at # "remove" /\ thread'.at # "remove"
      BY <1>19 DEF WriteFails, Ready, Leave, Serve, SscTypeOK
    <2>. QED
      BY <1>q, <2>1 DEF Gone
  <1>20. CASE RemoveSent
    <2> DEFINE c == thread.card
               j == [card[c] EXCEPT !.tx = Left(@, thread.n)]
    <2>1. /\ card' = [card EXCEPT ![c] = j] /\ UNCHANGED seen
          /\ thread.at = "remove" /\ thread'.at # "remove" /\ c \in Card
      BY <1>20 DEF RemoveSent, ServeNext, Serve, Places, Serving, SscTypeOK, MaybeCard
    <2>2. card[c].tx \in Seq(Byte) /\ thread.n \in Nat /\ Len(card[c].tx) \in Nat
      BY <1>0, <1>k, <2>1, LenProperties DEF CardType, SscTypeOK, SscAssumption
    <2>3. /\ Left(card[c].tx, thread.n) \in Seq(Byte)
          /\ Len(Left(card[c].tx, thread.n)) <= Len(card[c].tx)
      BY <2>2, LeftIs
    <2>4. j \in CardType /\ CardFits(j)
      <3>1. card[c] \in CardType /\ Len(card[c].rx) <= Capacity
            /\ Len(card[c].tx) <= Capacity /\ Capacity \in Nat
        BY <1>0, <1>k, <2>1 DEF SscTypeOK, SscAssumption
      <3>2. Len(Left(card[c].tx, thread.n)) \in Nat
        BY <2>3, LenProperties
      <3>3. /\ j \in CardType /\ j.rx = card[c].rx
            /\ j.tx = Left(card[c].tx, thread.n)
        BY <2>3, <3>1, WithTx
      <3> HIDE DEF j, c
      <3>. QED
        BY <2>2, <2>3, <3>1, <3>2, <3>3 DEF CardFits
    <2>5. Handled(c) /\ \A d \in Card \ {c} : Gone(d)' = Gone(d)
      BY <1>20, <2>1 DEF Handled, Gone
    <2> HIDE DEF j, c
    <2>6. \A d \in Card \ {c} : CardFits(card'[d]) /\ Quiet(d)
      BY <1>0, <2>1, <2>4, <2>5, OthersQuiet
    <2>. QED
      BY <1>0, <2>1, <2>4, <2>5, <2>6 DEF SscTypeOK
  <1>21. CASE Dispose \/ AwaitStop \/ EndThread \/ Join \/ Free
    <2>1. UNCHANGED <<card, seen, thread>>
      BY <1>21 DEF Dispose, AwaitStop, EndThread, Join, Free, lists
    <2>. QED
      BY <1>q, <2>1 DEF Gone
  <1>23. CASE Unlink
    <2>1. PICK c \in Card : c = cpu.card
      BY <1>23 DEF Unlink, Places, SscTypeOK, MaybeCard
    <2>2. UNCHANGED <<card, thread>>
      BY <1>23 DEF Unlink
    <2>3. PICK b \in BOOLEAN : seen' = [seen EXCEPT ![c].early = b]
      <3>1. seen' = [seen EXCEPT ![c].early =
                       seen[c].early \/ card[c].state = "start"]
        BY <1>23, <2>1 DEF Unlink
      <3>2. (seen[c].early \/ card[c].state = "start") \in BOOLEAN
        OBVIOUS
      <3>. QED
        BY <3>1, <3>2
    <2>4. \A d \in Card : seen'[d] \in Counts /\ SameCounts(d)
      BY <1>0, <2>3 DEF Counts, SameCounts
    <2>5. seen' \in [Card -> Counts]
      BY <1>0, <2>3, <2>4
    <2>6. \A d \in Card : Gone(d)' = Gone(d)
      BY <2>2 DEF Gone
    <2>. QED
      BY <2>2, <2>4, <2>5, <2>6 DEF SscTypeOK, Quiet, CardFits, Begun
  <1>24. CASE Overrun
    <2>1. UNCHANGED <<card, seen>> /\ thread.at # "remove" /\ thread'.at # "remove"
      BY <1>24 DEF Overrun, Ready, SscTypeOK
    <2>. QED
      BY <1>q, <2>1 DEF Gone
  <1>22. CASE UNCHANGED sscvars
    BY <1>22, <1>q DEF sscvars, Gone
  <1>. QED
    BY <1>1, <1>2, <1>3, <1>4, <1>5, <1>6, <1>7, <1>8, <1>9, <1>10, <1>11,
       <1>12, <1>13, <1>14, <1>15, <1>16, <1>17, <1>18, <1>19, <1>20, <1>21,
       <1>22, <1>23, <1>24
       DEF SscNext, Program, Configure, Thread, Disposal

-----------------------------------------------------------------------------
(* What the proofs below need of a card's types.                           *)
LEMMA CardNumbers ==
  ASSUME SscTypeOK, NEW d \in Card
  PROVE  /\ card[d] \in CardType
         /\ card[d].rx \in Seq(Byte) /\ card[d].tx \in Seq(Byte)
         /\ Len(card[d].rx) \in Nat /\ Len(card[d].tx) \in Nat
         /\ Len(card[d].rx) <= Capacity /\ Len(card[d].tx) <= Capacity
         /\ \A i \in 1 .. Len(card[d].rx) : card[d].rx[i] \in Nat
         /\ \A i \in 1 .. Len(card[d].tx) : card[d].tx[i] \in Nat
         /\ seen[d] \in Counts
         /\ {seen[d].line, seen[d].got, seen[d].put, seen[d].out} \subseteq Nat
         /\ Gone(d) \in Nat /\ thread.n \in Nat
         /\ Capacity \in Nat \ {0} /\ MaxByte \in Nat
  <1>1. /\ card[d] \in CardType /\ seen[d] \in Counts
        /\ Len(card[d].rx) <= Capacity /\ Len(card[d].tx) <= Capacity
    BY DEF SscTypeOK, Counts
  <1>2. card[d].rx \in Seq(Byte) /\ card[d].tx \in Seq(Byte)
    BY <1>1 DEF CardType
  <1>3. /\ Len(card[d].rx) \in Nat /\ Len(card[d].tx) \in Nat
        /\ \A i \in 1 .. Len(card[d].rx) : card[d].rx[i] \in Byte
        /\ \A i \in 1 .. Len(card[d].tx) : card[d].tx[i] \in Byte
    BY <1>2, LenProperties, ElementOfSeq
  <1>4. MaxByte \in Nat /\ Capacity \in Nat \ {0}
    BY SscAssumption DEF SscAssumption
  <1>5. {seen[d].line, seen[d].got, seen[d].put, seen[d].out} \subseteq Nat
    BY <1>1, <1>4 DEF Counts
  <1>6. thread.n \in Nat
    BY <1>4 DEF SscTypeOK
  <1>. QED
    <2>1. Byte \subseteq Nat
      BY <1>4 DEF Byte
    <2>2. Gone(d) \in Nat
      BY <1>6 DEF Gone
    <2>. QED
      BY <1>1, <1>2, <1>3, <1>4, <1>5, <1>6, <2>1, <2>2

(* A card that the thread serves was started.                              *)
LEMMA ServedBegun ==
  ASSUME Linked, NEW d \in Card, thread.card = d
  PROVE  Begun(d)
  BY SscAssumption DEF Linked, NoCard, Card, SscAssumption

(* What an operation on a FIFO keeps of its bytes: some come in, some are  *)
(* sent, and those that were sent are removed.                             *)
LEMMA Grows ==
  ASSUME NEW f, NEW g, NEW m \in Nat, NEW n \in Nat,
         NEW gone \in Nat, NEW from \in Nat, NEW upto \in Nat,
         \A i \in 1 .. m : f[i] \in Nat /\ g[i] = f[i],
         \A i \in m + 1 .. m + n : g[i] = upto + (i - m)
  PROVE  Whole(f, m, gone, from, upto) => Whole(g, m + n, gone, from, upto + n)
  <1>1. \A i \in 1 .. m + n : i \in 1 .. m \/ i \in m + 1 .. m + n
    OBVIOUS
  <1>3. ASSUME Whole(f, m, gone, from, upto)
        PROVE  Whole(g, m + n, gone, from, upto + n)
    <2>1. gone <= m + n /\ upto + n + gone = from + (m + n)
      BY <1>3 DEF Whole
    <2>2. ASSUME NEW i \in 1 .. m + n PROVE g[i] + gone = from + i
      <3>1. CASE i \in 1 .. m
        BY <1>3, <3>1 DEF Whole
      <3>2. CASE i \in m + 1 .. m + n
        <4>1. g[i] = upto + (i - m) /\ upto + gone = from + m
          BY <1>3, <3>2 DEF Whole
        <4>. QED
          BY <3>2, <4>1
      <3>. QED
        BY <1>1, <3>1, <3>2
    <2>. QED
      BY <2>1, <2>2 DEF Whole
  <1>. QED
    BY <1>3

LEMMA Sends ==
  ASSUME NEW f, NEW m \in Nat, NEW n \in 1 .. m,
         NEW from \in Nat, NEW upto \in Nat, \A i \in 1 .. m : f[i] \in Nat
  PROVE  Whole(f, m, 0, from, upto) => Whole(f, m, n, f[n], upto)
  <1>1. f[n] \in Nat
    OBVIOUS
  <1>3. ASSUME Whole(f, m, 0, from, upto) PROVE Whole(f, m, n, f[n], upto)
    <2>1. /\ upto = from + m /\ f[n] = from + n
          /\ \A i \in 1 .. m : f[i] = from + i
      BY <1>1, <1>3 DEF Whole
    <2>. QED
      BY <2>1 DEF Whole
  <1>. QED
    BY <1>3

LEMMA Shrinks ==
  ASSUME NEW f, NEW g, NEW m \in Nat, NEW n \in Nat, NEW l \in Nat,
         NEW from \in Nat, NEW upto \in Nat,
         l = IF n <= m THEN m - n ELSE 0,
         \A i \in 1 .. m : f[i] \in Nat, \A i \in 1 .. l : g[i] = f[n + i]
  PROVE  Whole(f, m, n, from, upto) => Whole(g, l, 0, from, upto)
  <1>1. \A i \in 1 .. l : n + i \in 1 .. m /\ n + i > n
    OBVIOUS
  <1>3. ASSUME Whole(f, m, n, from, upto) PROVE Whole(g, l, 0, from, upto)
    <2>1. n <= m /\ l = m - n /\ upto + n = from + m
      BY <1>3 DEF Whole
    <2>2. ASSUME NEW i \in 1 .. l PROVE g[i] = from + i
      <3>1. g[i] \in Nat /\ g[i] + n = from + (n + i)
        BY <1>1, <1>3 DEF Whole
      <3>. QED
        BY <3>1
    <2>3. \A i \in 1 .. l : g[i] + 0 = from + i
      BY <2>2
    <2>. QED
      BY <2>1, <2>3 DEF Whole
  <1>. QED
    BY <1>3

(* The same of the queues.                                                 *)
LEMMA WholeReceived ==
  ASSUME NEW fifo \in Seq(Nat), NEW gone \in Nat, NEW from \in Nat,
         NEW upto \in Nat, NEW n \in Nat,
         NEW longer, longer = fifo \o [i \in 1 .. n |-> upto + i]
  PROVE  Whole(fifo, Len(fifo), gone, from, upto)
              => Whole(longer, Len(longer), gone, from, upto + n)
  <1>1. PICK more : more = [i \in 1 .. n |-> upto + i]
    OBVIOUS
  <1>2. more \in Seq(Nat)
    <2>1. \A i \in 1 .. n : upto + i \in Nat
      OBVIOUS
    <2>. QED
      BY <1>1, <2>1, IsASeq
  <1>3. Len(more) = n /\ \A i \in 1 .. n : more[i] = upto + i
    BY <1>1, <1>2, LenProperties
  <1>4. /\ Len(longer) = Len(fifo) + n
        /\ \A i \in 1 .. Len(fifo) + n :
             longer[i] = IF i <= Len(fifo) THEN fifo[i] ELSE more[i - Len(fifo)]
    BY <1>1, <1>2, <1>3, ConcatProperties
  <1>5. Len(fifo) \in Nat /\ \A i \in 1 .. Len(fifo) : fifo[i] \in Nat
    BY LenProperties, ElementOfSeq
  <1>6. PICK m \in Nat : m = Len(fifo)
    BY <1>5
  <1>7. \A i \in 1 .. m : fifo[i] \in Nat /\ longer[i] = fifo[i]
    BY <1>4, <1>5, <1>6
  <1>8. \A i \in m + 1 .. m + n : longer[i] = upto + (i - m)
    <2> SUFFICES ASSUME NEW i \in m + 1 .. m + n
                 PROVE  longer[i] = upto + (i - m)
      OBVIOUS
    <2>1. i \in 1 .. m + n /\ ~(i <= m) /\ i - m \in 1 .. n
      OBVIOUS
    <2>2. longer[i] = more[i - m]
      BY <1>4, <1>6, <2>1
    <2>. QED
      BY <1>3, <2>1, <2>2
  <1>. QED
    <2>1. Len(longer) = m + n
      BY <1>4, <1>6
    <2>2. Whole(fifo, m, gone, from, upto) => Whole(longer, m + n, gone, from, upto + n)
      BY <1>7, <1>8, Grows
    <2>. QED
      BY <1>6, <2>1, <2>2

LEMMA WholePut ==
  ASSUME NEW fifo \in Seq(Nat), NEW gone \in Nat, NEW from \in Nat,
         NEW upto \in Nat, NEW longer, longer = Append(fifo, upto + 1)
  PROVE  Whole(fifo, Len(fifo), gone, from, upto)
              => Whole(longer, Len(longer), gone, from, upto + 1)
  <1>1. PICK x \in Nat : x = upto + 1
    OBVIOUS
  <1>2. PICK m \in Nat : m = Len(fifo)
    BY LenProperties
  <1>3. /\ Len(longer) = m + 1 /\ longer[m + 1] = x
        /\ \A i \in 1 .. m : longer[i] = fifo[i]
    BY <1>1, <1>2, AppendProperties
  <1>4. \A i \in 1 .. m : fifo[i] \in Nat /\ longer[i] = fifo[i]
    BY <1>2, <1>3, ElementOfSeq
  <1>5. \A i \in m + 1 .. m + 1 : longer[i] = upto + (i - m)
    <2> SUFFICES ASSUME NEW i \in m + 1 .. m + 1
                 PROVE  longer[i] = upto + (i - m)
      OBVIOUS
    <2>1. i = m + 1 /\ x = upto + (i - m)
      BY <1>1
    <2>. QED
      BY <1>3, <2>1
  <1>6. Whole(fifo, m, gone, from, upto) => Whole(longer, m + 1, gone, from, upto + 1)
    BY <1>4, <1>5, Grows
  <1>. QED
    BY <1>2, <1>3, <1>6

LEMMA WholeSent ==
  ASSUME NEW fifo \in Seq(Nat), NEW from \in Nat, NEW upto \in Nat,
         NEW n \in 1 .. Len(fifo)
  PROVE  Whole(fifo, Len(fifo), 0, from, upto)
              => Whole(fifo, Len(fifo), n, fifo[n], upto)
  <1>1. Len(fifo) \in Nat /\ \A i \in 1 .. Len(fifo) : fifo[i] \in Nat
    BY LenProperties, ElementOfSeq
  <1>. QED
    BY <1>1, Sends

LEMMA WholeLeft ==
  ASSUME NEW fifo \in Seq(Nat), NEW n \in Nat, NEW from \in Nat, NEW upto \in Nat,
         NEW left, left = Left(fifo, n)
  PROVE  Whole(fifo, Len(fifo), n, from, upto)
              => Whole(left, Len(left), 0, from, upto)
  <1>1. Len(fifo) \in Nat /\ \A i \in 1 .. Len(fifo) : fifo[i] \in Nat
    BY LenProperties, ElementOfSeq
  <1>2. /\ left \in Seq(Nat) /\ Len(left) = IF n <= Len(fifo) THEN Len(fifo) - n ELSE 0
        /\ \A i \in 1 .. Len(left) : left[i] = fifo[n + i]
    BY LeftIs
  <1>3. Len(left) \in Nat
    BY <1>2, LenProperties
  <1>. QED
    BY <1>1, <1>2, <1>3, Shrinks

LEMMA WholeNothing ==
  ASSUME NEW from \in Nat
  PROVE  Whole(<<>>, Len(<<>>), 0, from, from)
  <1>1. Len(<<>>) = 0
    BY EmptySeq
  <1>. QED
    BY <1>1 DEF Whole

(* Resetting a card empties its queues, if the card was not in use.        *)
LEMMA ResetLeaves ==
  ASSUME SscTypeOK, Places, NEW w \in {"cpu", "ui"}, ResetFifos(w),
         NEW d \in Card, conf[w].card = d
  PROVE  /\ card'[d].rx \in AfterReset(d) /\ card'[d].tx \in AfterReset(d)
         /\ Gone(d)' = Gone(d) /\ (Begun(d) => Begun(d)')
  <1>0. card[d] \in CardType /\ card \in [Card -> CardType]
    BY DEF SscTypeOK
  <1>p. PICK r \in AfterReset(d), t \in AfterReset(d) :
          Continue(w, d, [card[d] EXCEPT !.rx = r, !.tx = t])
    BY DEF ResetFifos
  <1>r. r \in Seq(Byte) /\ t \in Seq(Byte)
    BY AfterResetIs
  <1> DEFINE e == [card[d] EXCEPT !.rx = r, !.tx = t]
  <1>1. Continue(w, d, e)
    BY <1>p
  <1>2. e \in CardType /\ e.rx = r /\ e.tx = t /\ e.state = card[d].state
    BY <1>0, <1>r DEF CardType
  <1> HIDE DEF e
  <1>3. CASE w = "cpu"
    <2> DEFINE k == CommandSet(e, cpu.byte)
    <2>1. ThreadStart(d, k) /\ (thread_id \/ thread.at = "none")
      BY <1>1, <1>3 DEF Continue, ResetFifos, Places
    <2>2. k \in CardType /\ k.rx = r /\ k.tx = t /\ k.state = card[d].state
      BY <1>2, CommandSetKeeps DEF SscTypeOK
    <2> HIDE DEF k
    <2>3. card'[d].rx = r /\ card'[d].tx = t /\ card'[d].state \in {card[d].state, "start"}
      BY <2>1, <2>2, ThreadStartDoes
    <2>. QED
      BY <1>0, <2>1, <2>3 DEF Gone, ThreadStart, SscTypeOK, Begun
  <1>4. CASE w = "ui"
    <2>1. card' = [card EXCEPT ![d] = e] /\ UNCHANGED thread
      BY <1>1, <1>4 DEF Continue
    <2>. QED
      BY <1>0, <1>2, <2>1 DEF Gone, Begun
  <1>. QED
    BY <1>3, <1>4

LEMMA KeptStep ==
  ASSUME SscTypeOK, Places, Linked, [SscNext]_sscvars, NEW d \in Card, Kept(d)
  PROVE  Kept(d)'
  <1> DEFINE tx == card[d].tx
             rx == card[d].rx
             s == seen[d]
  <1>n. Byte \subseteq Nat
    BY SscAssumption DEF Byte, SscAssumption
  <1>0. /\ card[d] \in CardType /\ rx \in Seq(Nat) /\ tx \in Seq(Nat)
        /\ s \in Counts /\ {s.line, s.got, s.put, s.out} \subseteq Nat
        /\ Gone(d) \in Nat /\ thread.n \in Nat /\ s.reset \in BOOLEAN
    BY <1>n, CardNumbers, SeqMonotonic DEF Counts
  <1>c. card \in [Card -> CardType] /\ seen \in [Card -> Counts]
    BY DEF SscTypeOK, Counts
  <1>h. ~s.reset => /\ Whole(rx, Len(rx), 0, s.got, s.line)
                    /\ Whole(tx, Len(tx), Gone(d), s.out, s.put)
    BY DEF Kept, RxKept, TxKept
  <1>1. CASE Quiet(d)
    BY <1>1 DEF Quiet, SameCounts, Kept, RxKept, TxKept
  <1>2. CASE WriteData(d)
    <2>1. /\ UNCHANGED thread /\ card[d].state = "running"
          /\ card'[d].rx = rx /\ card'[d].state = "running"
          /\ card'[d].tx = IF Room(tx) THEN Append(tx, Number(d, s.put + 1)) ELSE tx
          /\ seen'[d] = [s EXCEPT !.put = IF Room(tx) THEN Number(d, s.put + 1) ELSE s.put]
      BY <1>0, <1>2, <1>c DEF WriteData, CardType
    <2>2. /\ seen'[d].put = IF Room(tx) THEN Number(d, s.put + 1) ELSE s.put
          /\ ~s.reset => Number(d, s.put + 1) = s.put + 1
          /\ seen'[d].out = s.out /\ seen'[d].line = s.line
          /\ seen'[d].got = s.got /\ seen'[d].reset = s.reset
      BY <1>0, <2>1 DEF Counts, Number
    <2>3. Gone(d)' = Gone(d)
      BY <2>1 DEF Gone
    <2>4. PICK t : t = Append(tx, s.put + 1)
      OBVIOUS
    <2>h. ~s.reset => Whole(t, Len(t), Gone(d), s.out, s.put + 1)
      BY <1>0, <1>h, <2>4, WholePut
    <2> HIDE DEF tx, rx, s
    <2>5. ~seen'[d].reset => RxKept(d)' /\ TxKept(d)'
      BY <1>h, <2>1, <2>2, <2>3, <2>4, <2>h DEF RxKept, TxKept
    <2>. QED
      BY <2>1, <2>5 DEF Kept, Begun
  <1>3. CASE ReadData(d)
    <2>1. /\ UNCHANGED thread /\ card[d].state = "running"
          /\ card'[d].tx = tx /\ card'[d].state = "running"
          /\ card'[d].rx = Tail(rx) /\ rx # <<>>
          /\ seen'[d] = [s EXCEPT !.got = Head(rx)]
      BY <1>0, <1>3, <1>c DEF ReadData, CardType
    <2>2. /\ seen'[d].got = Head(rx) /\ seen'[d].put = s.put
          /\ seen'[d].out = s.out /\ seen'[d].line = s.line /\ seen'[d].reset = s.reset
      BY <1>0, <2>1 DEF Counts
    <2>3. Gone(d)' = Gone(d)
      BY <2>1 DEF Gone
    <2>4. 1 \in 1 .. Len(rx) /\ Head(rx) = rx[1] /\ rx[1] \in Nat
      BY <1>0, <2>1, HeadTailProperties, EmptySeq
    <2>5. PICK r : r = Tail(rx)
      OBVIOUS
    <2>6. r = Left(rx, 1)
      BY <1>0, <2>1, <2>5, TailIsSubSeq DEF Left
    <2>h. ~s.reset => Whole(rx, Len(rx), 1, rx[1], s.line)
      BY <1>0, <1>h, <2>4, WholeSent
    <2>7. ~s.reset => Whole(r, Len(r), 0, rx[1], s.line)
      BY <1>0, <2>4, <2>6, <2>h, WholeLeft
    <2> HIDE DEF tx, rx, s
    <2>8. ~seen'[d].reset => RxKept(d)' /\ TxKept(d)'
      BY <1>h, <2>1, <2>2, <2>3, <2>4, <2>5, <2>7 DEF RxKept, TxKept
    <2>. QED
      BY <2>1, <2>8 DEF Kept, Begun
  <1>4. ASSUME NEW w \in {"cpu", "ui"}, ResetFifos(w), conf[w].card = d
        PROVE  Kept(d)'
    <2>1. /\ card'[d].rx \in AfterReset(d) /\ card'[d].tx \in AfterReset(d)
          /\ Gone(d)' = Gone(d) /\ (Begun(d) => Begun(d)')
      BY <1>4, ResetLeaves
    <2>2. CASE card[d].state = "init"
      <3>1. card'[d].rx = <<>> /\ card'[d].tx = <<>>
        BY <2>1, <2>2, AfterResetIs
      <3>2. rx = <<>> /\ tx = <<>> /\ seen'[d] = s
        BY <1>4, <1>c, <2>2 DEF ResetFifos, Kept, Begun
      <3>. QED
        BY <2>1, <3>1, <3>2 DEF Kept, RxKept, TxKept
    <2>3. CASE card[d].state # "init"
      <3>1. seen'[d].reset
        BY <1>0, <1>4, <1>c, <2>3 DEF ResetFifos, Counts
      <3>. QED
        BY <2>1, <2>3, <3>1 DEF Kept, Begun
    <2>. QED
      BY <2>2, <2>3
  <1>5. ASSUME ReadLine, thread.card = d
        PROVE  Kept(d)'
    <2>1. PICK n \in 0 .. Capacity - Len(rx) :
            /\ card' = [card EXCEPT ![d].rx = @ \o [i \in 1 .. n |-> Number(d, s.line + i)]]
            /\ seen' = [seen EXCEPT ![d].line = Number(d, @ + n)]
      <3>1. PICK n \in 0 .. Capacity - Len(card[thread.card].rx) :
              /\ card' = [card EXCEPT ![thread.card].rx = @ \o
                            [i \in 1 .. n |-> Number(thread.card, seen[thread.card].line + i)]]
              /\ seen' = [seen EXCEPT ![thread.card].line = Number(thread.card, @ + n)]
        BY <1>5 DEF ReadLine
      <3>. QED
        BY <1>5, <3>1
    <2>2. /\ thread.at = "read" /\ thread'.at = "write" /\ Begun(d)
      BY <1>5, ServedBegun DEF ReadLine, Ready, SscTypeOK
    <2>3. /\ card'[d].rx = rx \o [i \in 1 .. n |-> Number(d, s.line + i)]
          /\ card'[d].tx = tx /\ card'[d].state = card[d].state
      BY <1>0, <1>c, <2>1 DEF CardType
    <2>4. /\ seen'[d].line = Number(d, s.line + n) /\ seen'[d].got = s.got
          /\ seen'[d].put = s.put /\ seen'[d].out = s.out /\ seen'[d].reset = s.reset
      BY <1>0, <1>c, <2>1 DEF Counts
    <2>5. n \in Nat
      BY <1>0, CardNumbers
    <2>6. PICK r : r = rx \o [i \in 1 .. n |-> s.line + i]
      OBVIOUS
    <2>h. ~s.reset => Whole(r, Len(r), 0, s.got, s.line + n)
      BY <1>0, <1>h, <2>5, <2>6, WholeReceived
    <2>9. ~s.reset => card'[d].rx = r /\ seen'[d].line = s.line + n
      BY <2>3, <2>4, <2>6 DEF Number
    <2>7. Gone(d)' = Gone(d)
      BY <2>2 DEF Gone
    <2> HIDE DEF tx, rx, s
    <2>8. ~seen'[d].reset => RxKept(d)' /\ TxKept(d)'
      BY <1>h, <2>3, <2>4, <2>7, <2>9, <2>h DEF RxKept, TxKept
    <2>. QED
      BY <2>2, <2>3, <2>8 DEF Kept, Begun
  <1>6. ASSUME WriteLine, thread.card = d
        PROVE  Kept(d)'
    <2>1. PICK n \in 0 .. Len(tx) :
            /\ seen' = [seen EXCEPT ![d].out = IF n = 0 THEN @ ELSE tx[n]]
            /\ thread' = [thread EXCEPT !.at = "remove", !.wfds = @ \ {d}, !.n = n]
      BY <1>6 DEF WriteLine
    <2>2. /\ UNCHANGED card /\ thread.at = "write" /\ Gone(d) = 0
          /\ thread'.at = "remove" /\ thread'.card = d /\ thread'.n = n
      BY <1>6, <2>1 DEF WriteLine, Ready, SscTypeOK, Gone
    <2>3. Gone(d)' = n
      BY <2>2 DEF Gone
    <2>4. /\ seen'[d].out = IF n = 0 THEN s.out ELSE tx[n]
          /\ seen'[d].line = s.line /\ seen'[d].got = s.got
          /\ seen'[d].put = s.put /\ seen'[d].reset = s.reset
      BY <1>0, <1>c, <2>1 DEF Counts
    <2>5. n # 0 /\ ~s.reset => Whole(tx, Len(tx), n, tx[n], s.put)
      <3>1. n # 0 => n \in 1 .. Len(tx)
        BY <1>0, LenProperties
      <3>. QED
        BY <1>0, <1>h, <2>2, <3>1, WholeSent
    <2> HIDE DEF tx, rx, s
    <2>6. ~seen'[d].reset => RxKept(d)' /\ TxKept(d)'
      BY <1>h, <2>2, <2>3, <2>4, <2>5 DEF RxKept, TxKept, rx, tx
    <2>. QED
      BY <2>2, <2>6 DEF Kept, Begun
  <1>7. ASSUME RemoveSent, thread.card = d
        PROVE  Kept(d)'
    <2>1. /\ card' = [card EXCEPT ![d].tx = Left(@, thread.n)] /\ UNCHANGED seen
          /\ thread.at = "remove" /\ thread' = ServeNext
      BY <1>7 DEF RemoveSent
    <2>2. /\ card'[d].tx = Left(tx, thread.n) /\ card'[d].rx = rx
          /\ card'[d].state = card[d].state
      BY <1>0, <1>c, <2>1 DEF CardType
    <2>3. Gone(d) = thread.n
      BY <1>7, <2>1 DEF Gone
    <2>4. Gone(d)' = 0
      BY <2>1 DEF Gone, ServeNext, Serve
    <2>5. PICK t : t = Left(tx, thread.n)
      OBVIOUS
    <2>h. ~s.reset => Whole(t, Len(t), 0, s.out, s.put)
      BY <1>0, <1>h, <2>3, <2>5, WholeLeft
    <2>6. Begun(d)
      BY <1>7, ServedBegun
    <2>7. seen'[d] = s
      BY <2>1
    <2> HIDE DEF tx, rx, s
    <2>8. ~seen'[d].reset => RxKept(d)' /\ TxKept(d)'
      BY <1>h, <2>2, <2>4, <2>5, <2>7, <2>h DEF RxKept, TxKept
    <2>. QED
      BY <2>2, <2>6, <2>8 DEF Kept, Begun
  <1>. QED
    BY <1>1, <1>2, <1>3, <1>4, <1>5, <1>6, <1>7, CardStep DEF Handled

(* While the status says so, tx has room.                                  *)
LEMMA RoomStep ==
  ASSUME SscTypeOK, Places, [SscNext]_sscvars, EmptyMeansRoom
  PROVE  EmptyMeansRoom'
  <1> SUFFICES ASSUME NEW d \in Card, ~seen'[d].reset,
                      "TX_EMPTY" \in card'[d].status
               PROVE  Len(card'[d].tx) < Capacity
    BY DEF EmptyMeansRoom
  <1>0. /\ card[d] \in CardType /\ card[d].tx \in Seq(Byte) /\ Len(card[d].tx) \in Nat
        /\ Len(card[d].tx) <= Capacity /\ Capacity \in Nat \ {0}
    BY CardNumbers
  <1>c. card \in [Card -> CardType] /\ seen \in [Card -> Counts]
    BY DEF SscTypeOK, Counts
  <1>1. CASE Quiet(d)
    BY <1>1 DEF Quiet, SameCounts, EmptyMeansRoom, Room
  <1>2. CASE WriteData(d)
    <2> DEFINE after == IF Room(card[d].tx) THEN Append(card[d].tx, Number(d, seen[d].put + 1))
                                            ELSE card[d].tx
    <2>1. card'[d] = [card[d] EXCEPT !.tx = after, !.status = TxFlag(card[d], after)]
      BY <1>2, <1>c DEF WriteData
    <2>2. card'[d].tx = after /\ card'[d].status = TxFlag(card[d], after)
      BY <1>0, <2>1 DEF CardType
    <2> HIDE DEF after
    <2>. QED
      BY <2>2 DEF TxFlag, Room
  <1>3. CASE ReadData(d)
    <2>1. /\ card'[d].tx = card[d].tx /\ card'[d].status = card[d].status
          /\ seen'[d].reset = seen[d].reset
      BY <1>0, <1>3, <1>c DEF ReadData, CardType, Counts
    <2>. QED
      BY <2>1 DEF EmptyMeansRoom
  <1>4. ASSUME NEW w \in {"cpu", "ui"}, ResetFifos(w), conf[w].card = d
        PROVE  Len(card'[d].tx) < Capacity
    <2>0. card[d].state = "init"
      BY <1>4, <1>c DEF ResetFifos, Counts
    <2>1. card'[d].tx = <<>> /\ Len(<<>>) = 0
      BY <1>4, <2>0, ResetLeaves, AfterResetIs, EmptySeq
    <2>. QED
      BY <1>0, <2>1
  <1>5. CASE thread.card = d /\ ReadLine
    <2>1. PICK r, n : /\ card' = [card EXCEPT ![d].rx = r]
                      /\ seen' = [seen EXCEPT ![d].line = n]
      BY <1>5 DEF ReadLine
    <2>2. /\ card'[d].tx = card[d].tx /\ card'[d].status = card[d].status
          /\ seen'[d].reset = seen[d].reset
      BY <1>0, <1>c, <2>1 DEF CardType, Counts
    <2>. QED
      BY <2>2 DEF EmptyMeansRoom
  <1>6. CASE thread.card = d /\ WriteLine
    <2>1. UNCHANGED card /\ seen'[d].reset = seen[d].reset
      BY <1>6, <1>c DEF WriteLine, Counts
    <2>. QED
      BY <2>1 DEF EmptyMeansRoom
  <1>7. CASE thread.card = d /\ RemoveSent
    <2>1. /\ card'[d].tx = Left(card[d].tx, thread.n) /\ card'[d].status = card[d].status
          /\ UNCHANGED seen
      BY <1>0, <1>7, <1>c DEF RemoveSent, CardType
    <2>2. thread.n \in Nat
      BY CardNumbers
    <2>3. Len(card'[d].tx) <= Len(card[d].tx) /\ Len(card'[d].tx) \in Nat
      <3>1. Len(card'[d].tx) = IF thread.n <= Len(card[d].tx)
                                 THEN Len(card[d].tx) - thread.n ELSE 0
        BY <1>0, <2>1, <2>2, LeftIs
      <3>. QED
        BY <1>0, <2>2, <3>1
    <2>4. Len(card[d].tx) < Capacity
      BY <2>1 DEF EmptyMeansRoom
    <2>. QED
      BY <1>0, <2>3, <2>4
  <1>. QED
    BY <1>1, <1>2, <1>3, <1>4, <1>5, <1>6, <1>7, CardStep DEF Handled

(* What a step may do to the states of the cards and to the commands: a    *)
(* card is started, a command is taken, a card is to be stopped, the       *)
(* thread is to end; or nothing, and then a card that is to be stopped is  *)
(* still the one.                                                          *)
SameStates == \A d \in Card : card'[d].state = card[d].state
Awaited(c) == cpu.at = "stop" /\ cpu.card = c
Started(c) ==
  /\ card[c].state \notin {"start", "running"} /\ card'[c].state = "start"
  /\ \A d \in Card \ {c} : card'[d].state = card[d].state
  /\ commands' = Append(commands, [cmd |-> "start", card |-> c])
  /\ thread_id'
  /\ cpu.at = "run" /\ cpu'.at = "run"
Plain ==
  /\ SameStates
  /\ UNCHANGED <<commands, thread_id>>
  /\ cpu.at # "run" => cpu'.at # "run"
  /\ \A c \in Card : Awaited(c) /\ card[c].state = "running" => Awaited(c)'

LEMMA StateSet ==
  ASSUME SscTypeOK, NEW c \in Card, NEW k \in CardType,
         card' = [card EXCEPT ![c] = k], k.state = card[c].state
  PROVE  SameStates
  BY DEF SscTypeOK, SameStates

LEMMA StateStart ==
  ASSUME SscTypeOK, NEW c \in Card, NEW k \in CardType, ThreadStart(c, k),
         k.state = card[c].state, cpu.at = "run", cpu'.at = "run"
  PROVE  Started(c) \/ Plain
  <1>0. card \in [Card -> CardType]
    BY DEF SscTypeOK
  <1>1. CASE Starts(c)
    <2>1. card'[c] = [k EXCEPT !.state = "start", !.armed = TRUE]
      BY <1>0, <1>1 DEF ThreadStart
    <2>2. card'[c].state = "start"
      BY <2>1 DEF CardType
    <2>. QED
      BY <1>0, <1>1, <2>2 DEF ThreadStart, Started, Starts
  <1>2. CASE ~Starts(c)
    <2>1. SameStates
      BY <1>2, StateSet DEF ThreadStart
    <2>. QED
      BY <1>2, <2>1 DEF ThreadStart, Plain, Awaited
  <1>. QED
    BY <1>1, <1>2

LEMMA StateStep ==
  ASSUME SscTypeOK, Places, [SscNext]_sscvars
  PROVE  \/ Plain \/ \E c \in Card : Started(c)
         \/ TakeCommand \/ Unlink \/ EndThread
  <1> DEFINE Goal == \/ Plain \/ \E c \in Card : Started(c)
                     \/ TakeCommand \/ Unlink \/ EndThread
  <1>k. \A c \in Card : card[c] \in CardType
    BY DEF SscTypeOK
  <1>c. SscTypeOK /\ card \in [Card -> CardType]
    BY DEF SscTypeOK
  <1>p. ASSUME SameStates, UNCHANGED <<commands, thread_id, cpu>> PROVE Goal
    BY <1>p DEF Plain, Awaited
  <1>q. ASSUME UNCHANGED <<card, commands, thread_id>>,
               cpu.at # "run" => cpu'.at # "run",
               \A c \in Card : Awaited(c) /\ card[c].state = "running" => Awaited(c)'
        PROVE  Goal
    BY <1>q DEF Plain, SameStates
  <1>1. ASSUME NEW c \in Card, NEW byte \in Bytes, WriteCommand(c, byte)
        PROVE  Goal
    <2>0. byte \in SUBSET CommandBit
      BY SscAssumption DEF SscAssumption
    <2>1. UNCHANGED <<commands, thread_id>> /\ cpu'.at = cpu.at /\ cpu.at = "run"
      BY <1>1 DEF WriteCommand, CpuConf, ProgramRuns, SscTypeOK
    <2>2. SameStates
      <3>1. CASE "DTR" \in byte \ card[c].command
        <4>1. card' = [card EXCEPT ![c] = [card[c] EXCEPT !.open = FALSE]]
          BY <1>1, <3>1 DEF WriteCommand, CpuConf
        <4>2. /\ [card[c] EXCEPT !.open = FALSE] \in CardType
              /\ [card[c] EXCEPT !.open = FALSE].state = card[c].state
          BY <1>k DEF CardType
        <4>. QED
          BY <4>1, <4>2, StateSet
      <3>2. CASE ~("DTR" \in byte \ card[c].command)
        <4>1. card' = [card EXCEPT ![c] = CommandSet(card[c], byte)]
          BY <1>1, <3>2 DEF WriteCommand
        <4>. QED
          BY <1>k, <2>0, <4>1, CommandSetKeeps, StateSet
      <3>. QED
        BY <3>1, <3>2
    <2>. QED
      BY <2>1, <2>2 DEF Plain, Awaited
  <1>2. ASSUME NEW c \in Card, SelectRom(c) PROVE Goal
    <2>1. /\ card' = [card EXCEPT ![c] = [card[c] EXCEPT !.open = FALSE]]
          /\ UNCHANGED <<commands, thread_id>> /\ cpu'.at = "run" /\ cpu.at = "run"
      BY <1>2 DEF SelectRom, CpuConf, ProgramRuns, SscTypeOK
    <2>2. /\ [card[c] EXCEPT !.open = FALSE] \in CardType
          /\ [card[c] EXCEPT !.open = FALSE].state = card[c].state
      BY <1>k DEF CardType
    <2>. QED
      BY <2>1, <2>2, StateSet DEF Plain, Awaited
  <1>3. ASSUME NEW c \in Card, ReadDipsw(c) PROVE Goal
    BY <1>3, <1>k, StateStart DEF ReadDipsw, ProgramRuns
  <1>4. ASSUME NEW c \in Card, WriteData(c) PROVE Goal
    <2>1. PICK t, s : card' = [card EXCEPT ![c].tx = t, ![c].status = s]
      BY <1>4 DEF WriteData
    <2>2. SameStates
      BY <1>c, <1>k, <2>1 DEF SameStates, CardType
    <2>. QED
      BY <1>4, <1>p, <2>2 DEF WriteData
  <1>5. ASSUME NEW c \in Card, ReadData(c) PROVE Goal
    <2>1. PICK r, i : card' = [card EXCEPT ![c].rx = r, ![c].irq = i]
      BY <1>5 DEF ReadData
    <2>2. SameStates
      BY <1>c, <1>k, <2>1 DEF SameStates, CardType
    <2>. QED
      BY <1>5, <1>p, <2>2 DEF ReadData
  <1>6. ASSUME NEW c \in Card, ReadStatus(c) PROVE Goal
    <2>2. SameStates
      BY <1>c, <1>k, <1>6 DEF SameStates, CardType, ReadStatus
    <2>. QED
      BY <1>6, <1>p, <2>2 DEF ReadStatus
  <1>7. ASSUME NEW c \in Card, Timer(c) PROVE Goal
    <2>1. PICK k : /\ card' = [card EXCEPT ![c] = k]
                   /\ \/ k = [card[c] EXCEPT !.armed = FALSE]
                      \/ \E i, s : k = [card[c] EXCEPT !.irq = i, !.status = s]
      <3>1. CASE card[c].state # "running"
        <4>1. card' = [card EXCEPT ![c] = [card[c] EXCEPT !.armed = FALSE]]
          BY <1>7, <3>1 DEF Timer
        <4>. QED
          BY <4>1
      <3>2. CASE card[c].state = "running"
        <4> DEFINE k == card[c]
                   i == k.irq \/ Interrupts(k)
                   s == (IF Room(k.tx) THEN {"TX_EMPTY"} ELSE {})
                          \cup (IF Interrupts(k) THEN {"IRQ"}
                                                 ELSE k.status \ {"TX_EMPTY"})
        <4>1. card' = [card EXCEPT ![c] = [k EXCEPT !.irq = i, !.status = s]]
          BY <1>7, <3>2 DEF Timer
        <4> HIDE DEF i, s
        <4>. QED
          BY <4>1
      <3>. QED
        BY <3>1, <3>2
    <2>2. k.state = card[c].state
      BY <1>k, <2>1 DEF CardType
    <2>3. SameStates
      BY <1>c, <2>1, <2>2 DEF SameStates
    <2>. QED
      BY <1>7, <1>p, <2>3 DEF Timer
  <1>8. ASSUME NEW c \in Card, UiConf(c) PROVE Goal
    <2>1. PICK same \in BOOLEAN : card' = [card EXCEPT ![c].open = @ /\ same]
      BY <1>8 DEF UiConf
    <2>2. SameStates
      BY <1>c, <1>k, <2>1 DEF SameStates, CardType
    <2>. QED
      BY <1>8, <1>p, <2>2 DEF UiConf
  <1>9. ASSUME NEW w \in {"cpu", "ui"}, OpenTty(w) PROVE Goal
    <2>1. SameStates
      BY <1>c, <1>k, <1>9 DEF SameStates, CardType, OpenTty
    <2>. QED
      BY <1>9, <1>p, <2>1 DEF OpenTty
  <1>10. ASSUME NEW w \in {"cpu", "ui"}, NEW c \in Card, NEW k \in CardType,
                Continue(w, c, k), k.state = card[c].state, w = "cpu" => cpu.at = "run"
         PROVE  Goal
    <2>1. CASE w = "cpu"
      <3> DEFINE j == CommandSet(k, cpu.byte)
      <3>1. ThreadStart(c, j) /\ cpu.at = "run" /\ cpu'.at = "run"
        BY <1>10, <2>1 DEF Continue, SscTypeOK
      <3>2. j \in CardType /\ j.state = card[c].state
        BY <1>10, CommandSetKeeps DEF SscTypeOK
      <3> HIDE DEF j
      <3>. QED
        BY <3>1, <3>2, StateStart
    <2>2. CASE w = "ui"
      BY <1>10, <1>p, <2>2, StateSet DEF Continue
    <2>. QED
      BY <2>1, <2>2
  <1>11. ASSUME NEW w \in {"cpu", "ui"}, OpenFails(w) \/ ResetFifos(w) PROVE Goal
    <2>1. PICK c : c = conf[w].card
      OBVIOUS
    <2>2. c \in Card /\ (w = "cpu" => cpu.at = "run")
      BY <1>11, <2>1 DEF OpenFails, ResetFifos, Places, SscTypeOK, MaybeCard
    <2>3. PICK k : /\ Continue(w, c, k)
                   /\ \/ k = card[c]
                      \/ \E rx, tx \in Seq(Byte) :
                           k = [card[c] EXCEPT !.rx = rx, !.tx = tx]
      <3>1. CASE OpenFails(w)
        BY <2>1, <3>1 DEF OpenFails
      <3>2. CASE ResetFifos(w)
        <4>1. PICK rx \in AfterReset(c), tx \in AfterReset(c) :
                Continue(w, c, [card[c] EXCEPT !.rx = rx, !.tx = tx])
          BY <2>1, <3>2 DEF ResetFifos
        <4>2. rx \in Seq(Byte) /\ tx \in Seq(Byte)
          BY AfterResetIs
        <4>. QED
          BY <4>1, <4>2
      <3>. QED
        BY <1>11, <3>1, <3>2
    <2>5. k \in CardType /\ k.state = card[c].state
      BY <1>k, <2>2, <2>3 DEF CardType
    <2>. QED
      BY <1>10, <2>2, <2>3, <2>5
  <1>12. CASE BuildSets \/ Select \/ Skip \/ WriteLine \/ WriteFails \/ Overrun
    BY <1>12, <1>q DEF BuildSets, Select, Skip, WriteLine, WriteFails, Overrun, Awaited
  <1>13. CASE ReadLine \/ ReadFails \/ RemoveSent
    <2>1. PICK b : \/ card' = [card EXCEPT ![thread.card].rx = b]
                   \/ card' = [card EXCEPT ![thread.card].open = b]
                   \/ card' = [card EXCEPT ![thread.card].tx = b]
      BY <1>13 DEF ReadLine, ReadFails, RemoveSent
    <2>2. SameStates
      <3>1. CASE card' = [card EXCEPT ![thread.card].rx = b]
        BY <1>c, <1>k, <3>1 DEF SameStates, CardType
      <3>2. CASE card' = [card EXCEPT ![thread.card].open = b]
        BY <1>c, <1>k, <3>2 DEF SameStates, CardType
      <3>3. CASE card' = [card EXCEPT ![thread.card].tx = b]
        BY <1>c, <1>k, <3>3 DEF SameStates, CardType
      <3>. QED
        BY <2>1, <3>1, <3>2, <3>3
    <2>. QED
      BY <1>13, <1>p, <2>2 DEF ReadLine, ReadFails, RemoveSent
  <1>14. CASE Dispose
    BY <1>14, <1>q DEF Dispose, Awaited, ProgramRuns
  <1>15. CASE AwaitStop \/ Join \/ Free
    BY <1>15, <1>q DEF AwaitStop, Join, Free, Awaited, LetGo, SscTypeOK
  <1>16. CASE UNCHANGED sscvars
    BY <1>16, <1>p DEF sscvars, SameStates
  <1>. QED
    BY <1>1, <1>2, <1>3, <1>4, <1>5, <1>6, <1>7, <1>8, <1>9, <1>11, <1>12, <1>13,
       <1>14, <1>15, <1>16 DEF SscNext, Program, Configure, Thread, Disposal

(* Commands stay pending when one is sent, and when one is taken.          *)
LEMMA MoreCommands ==
  ASSUME SscTypeOK, Pending, NEW x \in Command, commands' = Append(commands, x),
         \A m \in Command : Waits(m) => Waits(m)' /\ m.card # x.card,
         Waits(x)'
  PROVE  commands' \in Seq(Command) /\ Pending'
  <1>0. commands \in Seq(Command)
    BY DEF SscTypeOK, Command
  <1>1. PICK m \in Nat : m = Len(commands)
    BY <1>0, LenProperties
  <1>2. /\ commands' \in Seq(Command) /\ Len(commands') = m + 1
        /\ commands'[m + 1] = x
        /\ \A i \in 1 .. m : commands'[i] = commands[i] /\ commands[i] \in Command
    BY <1>0, <1>1, AppendProperties, ElementOfSeq
  <1>3. \A i \in 1 .. m + 1 : i \in 1 .. m \/ i = m + 1
    OBVIOUS
  <1>4. ASSUME NEW y \in Command, Queued(y)' PROVE Waits(y)'
    <2>1. Queued(y) \/ y = x
      BY <1>1, <1>2, <1>3, <1>4 DEF Queued
    <2>. QED
      BY <2>1 DEF Pending
  <1>5. ASSUME NEW i \in 1 .. m PROVE commands'[i].card # x.card
    <2>1. PICK y \in Command : y = commands[i] /\ commands'[i] = y
      BY <1>2
    <2>2. Queued(y)
      BY <1>1, <2>1 DEF Queued
    <2>. QED
      BY <2>1, <2>2 DEF Pending
  <1>6. \A i, j \in 1 .. m + 1 : commands'[i].card = commands'[j].card => i = j
    BY <1>1, <1>2, <1>3, <1>5 DEF Pending
  <1>. QED
    BY <1>2, <1>4, <1>6 DEF Pending

LEMMA FewerCommands ==
  ASSUME SscTypeOK, Pending, commands # <<>>, commands' = Tail(commands),
         \A m \in Command : Waits(m) /\ m.card # Head(commands).card => Waits(m)'
  PROVE  commands' \in Seq(Command) /\ Pending'
  <1>0. commands \in Seq(Command)
    BY DEF SscTypeOK, Command
  <1>1. PICK m \in Nat : m = Len(commands) /\ m # 0
    BY <1>0, LenProperties, EmptySeq
  <1>2. /\ commands' \in Seq(Command) /\ Len(commands') = m - 1
        /\ Head(commands) = commands[1]
        /\ \A i \in 1 .. m - 1 : commands'[i] = commands[i + 1]
    BY <1>0, <1>1, HeadTailProperties
  <1>3. \A i \in 1 .. m - 1 : i + 1 \in 1 .. m /\ i + 1 # 1
    OBVIOUS
  <1>4. 1 \in 1 .. m
    BY <1>1
  <1>5. ASSUME NEW y \in Command, Queued(y)' PROVE Waits(y)'
    <2>1. PICK i \in 1 .. m - 1 : commands'[i] = y
      BY <1>2, <1>5 DEF Queued
    <2>2. PICK j \in 1 .. m : j = i + 1 /\ j # 1 /\ commands[j] = y
      BY <1>2, <1>3, <2>1
    <2>3. Queued(y)
      BY <1>1, <2>2 DEF Queued
    <2>4. y.card # Head(commands).card
      BY <1>1, <1>2, <1>4, <2>2 DEF Pending
    <2>. QED
      BY <2>3, <2>4 DEF Pending
  <1>6. \A i, j \in 1 .. m - 1 : commands'[i].card = commands'[j].card => i = j
    <2> SUFFICES ASSUME NEW i \in 1 .. m - 1, NEW j \in 1 .. m - 1,
                        commands'[i].card = commands'[j].card
                 PROVE  i = j
      OBVIOUS
    <2>1. PICK k \in 1 .. m, l \in 1 .. m :
            /\ k = i + 1 /\ l = j + 1
            /\ commands'[i] = commands[k] /\ commands'[j] = commands[l]
      BY <1>2, <1>3
    <2>2. k = l
      BY <1>1, <2>1 DEF Pending
    <2>. QED
      BY <2>1, <2>2
  <1>. QED
    BY <1>2, <1>5, <1>6 DEF Pending

LEMMA PendingStep ==
  ASSUME SscTypeOK, Places, Pending, [SscNext]_sscvars
  PROVE  commands' \in Seq(Command) /\ Pending'
  <1>0. /\ commands \in Seq(Command) /\ card \in [Card -> CardType]
        /\ \A m \in Command : m.card # NoCard => m.card \in Card
    BY DEF SscTypeOK, Command, MaybeCard
  <1>1. CASE Plain
    <2>1. \A m \in Command : Waits(m) => Waits(m)'
      BY <1>0, <1>1 DEF Plain, Waits, SameStates, Awaited
    <2>2. \A m \in Command : Queued(m)' => Queued(m)
      BY <1>1 DEF Plain, Queued
    <2>. QED
      BY <1>0, <1>1, <2>1, <2>2 DEF Plain, Pending
  <1>2. ASSUME NEW c \in Card, Started(c)
        PROVE  commands' \in Seq(Command) /\ Pending'
    <2> DEFINE x == [cmd |-> "start", card |-> c]
    <2>1. x \in Command /\ x.card = c /\ x.cmd = "start" /\ c # NoCard
      BY SscAssumption DEF Command, MaybeCard, NoCard, Card, SscAssumption
    <2>2. commands' = Append(commands, x)
      BY <1>2 DEF Started
    <2> HIDE DEF x
    <2>3. Waits(x)'
      BY <1>2, <2>1 DEF Waits, Started
    <2>4. ASSUME NEW m \in Command, Waits(m)
          PROVE  Waits(m)' /\ m.card # x.card
      BY <1>0, <1>2, <2>1, <2>4 DEF Waits, Started
    <2>. QED
      BY <2>1, <2>2, <2>3, <2>4, MoreCommands
  <1>3. CASE TakeCommand
    <2> DEFINE h == Head(commands)
    <2>1. /\ h \in Command /\ commands # <<>> /\ commands' = Tail(commands)
          /\ UNCHANGED <<thread_id, cpu>>
          /\ \/ card' = [card EXCEPT ![h.card].state = "running"]
             \/ card' = [card EXCEPT ![h.card].state = "stopped"]
             \/ card' = card
      BY <1>3, TakeCommandDoes
    <2> HIDE DEF h
    <2>2. \A c \in Card : c # h.card => card'[c].state = card[c].state
      BY <1>0, <2>1
    <2>3. \A m \in Command : Waits(m) /\ m.card # h.card => Waits(m)'
      BY <1>0, <2>1, <2>2 DEF Waits
    <2>. QED
      BY <2>1, <2>3, FewerCommands DEF h
  <1>4. CASE Unlink
    <2>1. PICK c \in Card : c = cpu.card
      BY <1>4 DEF Unlink, Places, SscTypeOK, MaybeCard
    <2>2. /\ cpu.at = "unlink" /\ UNCHANGED <<card, thread_id>>
          /\ cpu'.at \in {"stop", "last", "crashed"} /\ cpu'.card = c
          /\ \/ UNCHANGED commands
             \/ /\ card[c].state = "running" /\ cpu'.at = "stop"
                /\ commands' = Append(commands, [cmd |-> "stop", card |-> c])
      BY <1>4, <2>1 DEF Unlink, MustStop, SscTypeOK
    <2>3. \A m \in Command : Waits(m) => Waits(m)'
      BY <2>2 DEF Waits
    <2>4. CASE UNCHANGED commands
      <3>1. \A m \in Command : Queued(m)' => Queued(m)
        BY <2>4 DEF Queued
      <3>. QED
        BY <1>0, <2>3, <2>4, <3>1 DEF Pending
    <2>5. CASE /\ card[c].state = "running" /\ cpu'.at = "stop"
               /\ commands' = Append(commands, [cmd |-> "stop", card |-> c])
      <3> DEFINE x == [cmd |-> "stop", card |-> c]
      <3>1. x \in Command /\ x.card = c /\ x.cmd = "stop" /\ c # NoCard
        BY SscAssumption DEF Command, MaybeCard, NoCard, Card, SscAssumption
      <3>2. commands' = Append(commands, x)
        BY <2>5
      <3> HIDE DEF x
      <3>3. Waits(x)'
        BY <2>2, <2>5, <3>1 DEF Waits
      <3>4. \A m \in Command : Waits(m) => m.card # x.card
        BY <2>2, <2>5, <3>1 DEF Waits
      <3>. QED
        BY <2>3, <3>1, <3>2, <3>3, <3>4, MoreCommands
    <2>. QED
      BY <2>2, <2>4, <2>5
  <1>5. CASE EndThread
    <2>1. /\ cpu.at = "last" /\ UNCHANGED card
          /\ \/ /\ UNCHANGED <<commands, thread_id>> /\ cpu'.at = "free"
             \/ /\ thread_id /\ ~thread_id' /\ cpu'.at = "join"
                /\ commands' = Append(commands, [cmd |-> "terminate", card |-> NoCard])
      BY <1>5 DEF EndThread, LastCard, SscTypeOK
    <2>2. \A m \in Command : Waits(m) => Waits(m)'
      BY <2>1 DEF Waits
    <2>4. CASE UNCHANGED <<commands, thread_id>>
      <3>1. \A m \in Command : Queued(m)' => Queued(m)
        BY <2>4 DEF Queued
      <3>. QED
        BY <1>0, <2>2, <2>4, <3>1 DEF Pending
    <2>5. CASE /\ thread_id /\ ~thread_id' /\ cpu'.at = "join"
               /\ commands' = Append(commands, [cmd |-> "terminate", card |-> NoCard])
      <3> DEFINE x == [cmd |-> "terminate", card |-> NoCard]
      <3>1. x \in Command /\ x.card = NoCard /\ x.cmd = "terminate"
        BY DEF Command, MaybeCard
      <3>2. commands' = Append(commands, x)
        BY <2>5
      <3> HIDE DEF x
      <3>3. Waits(x)'
        BY <2>5, <3>1 DEF Waits
      <3>4. \A m \in Command : Waits(m) => m.card # x.card
        BY <2>5, <3>1 DEF Waits
      <3>. QED
        BY <2>2, <3>1, <3>2, <3>3, <3>4, MoreCommands
    <2>. QED
      BY <2>1, <2>4, <2>5
  <1>. QED
    BY <1>1, <1>2, <1>3, <1>4, <1>5, StateStep

(* There are never more of them than cards, and the one that ends the      *)
(* thread.                                                                 *)
OneEach(q) == \A i, j \in 1 .. Len(q) : q[i].card = q[j].card => i = j
LEMMA FewCommands ==
  ASSUME NEW q \in Seq(Command), OneEach(q)
  PROVE  Len(q) <= Cards + 1
  <1>0. Cards \in Nat /\ Len(q) \in Nat
    BY SscAssumption, LenProperties DEF SscAssumption
  <1> DEFINE f == [i \in 1 .. Len(q) |-> q[i].card]
  <1>1. f \in Injection(1 .. Len(q), 0 .. Cards)
    <2>1. \A i \in 1 .. Len(q) : q[i].card \in 0 .. Cards
      <3> SUFFICES ASSUME NEW i \in 1 .. Len(q)
                   PROVE  q[i].card \in 0 .. Cards
        OBVIOUS
      <3>1. q[i] \in Command
        BY ElementOfSeq
      <3>. QED
        BY <1>0, <3>1 DEF Command, MaybeCard, Card, NoCard
    <2>2. \A i, j \in 1 .. Len(q) : q[i].card = q[j].card => i = j
      BY DEF OneEach
    <2>. QED
      BY <2>1, <2>2 DEF Injection, IsInjective
  <1>2. /\ IsFiniteSet(0 .. Cards) /\ Cardinality(0 .. Cards) = Cards + 1
        /\ Cardinality(1 .. Len(q)) = Len(q)
    <2>1. PICK k \in Nat : k = Len(q)
      BY <1>0
    <2>2. 0 \in Int /\ 1 \in Int /\ Cards \in Int /\ k \in Int
      BY <1>0
    <2>3. /\ IsFiniteSet(0 .. Cards)
          /\ Cardinality(0 .. Cards) = IF 0 > Cards THEN 0 ELSE Cards - 0 + 1
      BY <2>2, FS_Interval
    <2>4. Cardinality(1 .. k) = IF 1 > k THEN 0 ELSE k - 1 + 1
      BY <2>2, FS_Interval
    <2>5. (IF 0 > Cards THEN 0 ELSE Cards - 0 + 1) = Cards + 1
      BY <1>0
    <2>6. (IF 1 > k THEN 0 ELSE k - 1 + 1) = k
      OBVIOUS
    <2>. QED
      BY <2>1, <2>3, <2>4, <2>5, <2>6
  <1>3. Cardinality(1 .. Len(q)) <= Cardinality(0 .. Cards)
    BY <1>1, <1>2, FS_Injection
  <1>. QED
    BY <1>0, <1>2, <1>3

(* Where the threads are.                                                  *)
ThreadType ==
  [at : {"none", "commands", "select", "read", "write", "remove", "ended",
         "broken", "overrun", "crashed"},
   card : MaybeCard, rfds : SUBSET Card, wfds : SUBSET Card, n : 0 .. Capacity]
ConfType == [{"cpu", "ui"} -> [at : {"idle", "open", "reset"}, card : MaybeCard]]
CpuType ==
  [at : {"run", "unlink", "stop", "last", "join", "free", "gone", "crashed"},
   card : MaybeCard, byte : SUBSET CommandBit]
PlaceTypes ==
  /\ thread \in ThreadType /\ conf \in ConfType /\ cpu \in CpuType
  /\ thread_id \in BOOLEAN /\ alive \subseteq Card

LEMMA ServeType ==
  ASSUME NEW c \in MaybeCard, NEW r \in SUBSET Card, NEW w \in SUBSET Card,
         Capacity \in Nat
  PROVE  /\ Serve(c, r, w) \in ThreadType
         /\ Serve(c, r, w).at \in Serving => Serve(c, r, w).card # NoCard
         /\ Serve(c, r, w).card = c
         /\ Serve(c, r, w).at # "none"
         /\ Serve(c, r, w).at = "commands" => c = NoCard
  BY DEF Serve, ThreadType, Serving

(* What a step of the thread does to it.                                   *)
LEMMA ThreadMoves ==
  ASSUME SscTypeOK, Places, Thread
  PROVE  /\ thread' \in ThreadType
         /\ thread'.at \in Serving => thread'.card # NoCard
         /\ thread.at # "none"
         /\ UNCHANGED <<conf, cpu, thread_id, alive, slots>>
         /\ \/ thread'.card \in {thread.card, NoCard, started.first}
            \/ thread.card \in Card /\ thread'.card = next[thread.card]
         /\ TakeCommand \/ UNCHANGED <<started, next>>
         /\ thread'.at # "none"
         /\ thread'.at = "commands" => thread'.card = NoCard \/ thread' = thread
  <1>0. /\ thread \in ThreadType /\ Capacity \in Nat /\ thread.card \in MaybeCard
        /\ thread.rfds \in SUBSET Card /\ thread.wfds \in SUBSET Card
        /\ started.first \in MaybeCard /\ NoCard \in MaybeCard
    BY SscAssumption DEF SscTypeOK, ThreadType, SscAssumption, List, MaybeCard
  <1>s. ASSUME thread.at \in Serving
        PROVE  thread.card \in Card /\ next[thread.card] \in MaybeCard
    BY <1>0, <1>s DEF Places, MaybeCard, SscTypeOK
  <1>1. CASE TakeCommand
    <2>1. /\ UNCHANGED <<conf, cpu, thread_id, alive, slots>> /\ thread.at = "commands"
          /\ \/ thread' = thread
             \/ \E at \in {"ended", "crashed"} : thread' = [thread EXCEPT !.at = at]
      BY <1>1, TakeCommandDoes DEF Command
    <2>. QED
      BY <1>0, <1>1, <2>1 DEF ThreadType, Serving
  <1>2. CASE BuildSets
    <2>1. PICK r \in SUBSET Card, w \in SUBSET Card :
            thread' = [thread EXCEPT !.at = "select", !.rfds = r, !.wfds = w]
      <3>1. Members(started) \subseteq Card
        BY DEF Members
      <3>. QED
        BY <1>2, <3>1 DEF BuildSets
    <2>2. thread' \in ThreadType /\ thread'.at = "select" /\ thread'.card = thread.card
      BY <1>0, <2>1 DEF ThreadType
    <2>. QED
      BY <1>2, <2>2 DEF BuildSets, Serving, lists
  <1>3. CASE Select
    <2>1. thread.at = "select" /\ UNCHANGED <<conf, cpu, thread_id, lists>>
      BY <1>3 DEF Select
    <2>2. \/ thread' = [Leave EXCEPT !.at = "broken"]
          \/ \E r \in SUBSET Card, w \in SUBSET Card, c \in {NoCard, started.first} :
               thread' = Serve(c, r, w)
      BY <1>0, <1>3 DEF Select
    <2>3. CASE thread' = [Leave EXCEPT !.at = "broken"]
      <3>1. thread' \in ThreadType /\ thread'.at = "broken" /\ thread'.card = NoCard
        BY <1>0, <2>3 DEF Leave, Serve, ThreadType
      <3>. QED
        BY <2>1, <3>1 DEF Serving, lists
    <2>4. CASE \E r \in SUBSET Card, w \in SUBSET Card, c \in {NoCard, started.first} :
                 thread' = Serve(c, r, w)
      BY <1>0, <2>1, <2>4, ServeType DEF lists
    <2>. QED
      BY <2>2, <2>3, <2>4
  <1>n. ASSUME thread.at \in Serving, thread' = ServeNext,
               UNCHANGED <<conf, cpu, thread_id, lists>>
        PROVE  /\ thread' \in ThreadType
               /\ thread'.at \in Serving => thread'.card # NoCard
               /\ thread.at # "none" /\ thread'.at # "none"
               /\ thread'.at = "commands" => thread'.card = NoCard
               /\ UNCHANGED <<conf, cpu, thread_id, alive, slots, started, next>>
               /\ thread.card \in Card /\ thread'.card = next[thread.card]
    BY <1>0, <1>s, <1>n, ServeType DEF ServeNext, Serving, lists
  <1>l. ASSUME thread.at \in Serving, thread' = Leave,
               UNCHANGED <<conf, cpu, thread_id, lists>>
        PROVE  /\ thread' \in ThreadType
               /\ thread'.at \in Serving => thread'.card # NoCard
               /\ thread.at # "none" /\ thread'.at # "none"
               /\ thread'.at = "commands" => thread'.card = NoCard
               /\ UNCHANGED <<conf, cpu, thread_id, alive, slots, started, next>>
               /\ thread'.card = NoCard
    BY <1>0, <1>l, ServeType DEF Leave, Serving, lists
  <1>w. ASSUME thread.at \in Serving, NEW at \in {"write", "remove"},
               NEW r \in SUBSET Card, NEW w \in SUBSET Card, NEW n \in 0 .. Capacity,
               thread' = [thread EXCEPT !.at = at, !.rfds = r, !.wfds = w, !.n = n],
               UNCHANGED <<conf, cpu, thread_id, lists>>
        PROVE  /\ thread' \in ThreadType
               /\ thread'.at \in Serving => thread'.card # NoCard
               /\ thread.at # "none" /\ thread'.at # "none"
               /\ thread'.at = "commands" => thread'.card = NoCard
               /\ UNCHANGED <<conf, cpu, thread_id, alive, slots, started, next>>
               /\ thread'.card = thread.card
    <2>1. thread' \in ThreadType /\ thread'.card = thread.card
      BY <1>0, <1>w DEF ThreadType
    <2>. QED
      BY <1>s, <1>w, <2>1, SscAssumption DEF Serving, lists, NoCard, Card, SscAssumption
  <1>4. CASE Skip \/ ReadLine
    <2>1. /\ UNCHANGED <<conf, cpu, thread_id, lists>> /\ thread.at \in Serving
          /\ \/ thread' = [thread EXCEPT !.at = "write", !.rfds = @ \ {thread.card}]
             \/ thread' = ServeNext
      BY <1>4 DEF Skip, ReadLine, Ready, Serving
    <2>2. CASE thread' = [thread EXCEPT !.at = "write", !.rfds = @ \ {thread.card}]
      <3>1. /\ thread.n \in 0 .. Capacity
            /\ thread' = [thread EXCEPT !.at = "write",
                 !.rfds = thread.rfds \ {thread.card}, !.wfds = thread.wfds, !.n = thread.n]
        BY <1>0, <2>2 DEF ThreadType
      <3>. QED
        BY <1>0, <1>w, <2>1, <3>1
    <2>. QED
      BY <1>n, <2>1, <2>2
  <1>5. CASE ReadFails \/ WriteFails
    <2>1. /\ UNCHANGED <<conf, cpu, thread_id, lists>> /\ thread.at \in Serving
          /\ thread' = Leave
      BY <1>5 DEF ReadFails, WriteFails, Ready, Serving
    <2>. QED
      BY <1>l, <2>1
  <1>6. CASE WriteLine
    <2>1. PICK n \in 0 .. Len(card[thread.card].tx) :
            thread' = [thread EXCEPT !.at = "remove", !.wfds = @ \ {thread.card}, !.n = n]
      BY <1>6 DEF WriteLine
    <2>2. UNCHANGED <<conf, cpu, thread_id, lists>> /\ thread.at \in Serving
      BY <1>6 DEF WriteLine, Ready, Serving
    <2>3. n \in 0 .. Capacity
      <3>1. PICK c \in Card : c = thread.card
        BY <1>s, <2>2
      <3>2. Len(card[c].tx) \in Nat /\ Len(card[c].tx) <= Capacity
        BY CardNumbers
      <3>. QED
        BY <1>0, <3>1, <3>2
    <2>4. thread' = [thread EXCEPT !.at = "remove", !.rfds = thread.rfds,
                                   !.wfds = thread.wfds \ {thread.card}, !.n = n]
      BY <1>0, <2>1 DEF ThreadType
    <2>. QED
      BY <1>0, <1>w, <2>2, <2>3, <2>4
  <1>7. CASE RemoveSent
    <2>1. /\ UNCHANGED <<conf, cpu, thread_id, lists>> /\ thread.at \in Serving
          /\ thread' = ServeNext
      BY <1>7 DEF RemoveSent, Serving
    <2>. QED
      BY <1>n, <2>1
  <1>8. CASE Overrun
    <2>1. /\ UNCHANGED <<conf, cpu, thread_id, lists>> /\ thread.at \in Serving
          /\ thread' = [thread EXCEPT !.at = "overrun"]
      BY <1>8 DEF Overrun, Ready, Serving
    <2>2. thread' \in ThreadType /\ thread'.at = "overrun" /\ thread'.card = thread.card
      BY <1>0, <2>1 DEF ThreadType
    <2>. QED
      BY <2>1, <2>2 DEF Serving, lists
  <1>. QED
    BY <1>1, <1>2, <1>3, <1>4, <1>5, <1>6, <1>7, <1>8 DEF Thread

LEMMA PlacesStep ==
  ASSUME SscTypeOK, Places, [SscNext]_sscvars
  PROVE  Places' /\ PlaceTypes'
  <1>0. PlaceTypes
    BY DEF PlaceTypes, SscTypeOK, ThreadType, ConfType, CpuType
  <1>u. ASSUME UNCHANGED <<thread, conf, cpu, thread_id, alive>>
        PROVE  Places' /\ PlaceTypes'
    BY <1>0, <1>u DEF Places, PlaceTypes
  <1>z. \A c \in Card : c # NoCard
    BY SscAssumption DEF Card, NoCard, SscAssumption
  <1>o. ASSUME NEW c \in Card, NEW byte \in SUBSET CommandBit, CpuConf(c, byte),
               ProgramRuns, UNCHANGED <<thread, thread_id, alive>>
        PROVE  Places' /\ PlaceTypes'
    <2>1. /\ conf' = [conf EXCEPT !["cpu"] = [at |-> "open", card |-> c]]
          /\ cpu' = [cpu EXCEPT !.byte = byte] /\ cpu.at = "run"
      BY <1>o DEF CpuConf, ProgramRuns
    <2>2. conf' \in ConfType /\ cpu' \in CpuType /\ cpu'.at = "run"
      BY <1>0, <2>1 DEF PlaceTypes, ConfType, CpuType, MaybeCard
    <2>3. conf'["cpu"].card = c /\ conf'["ui"] = conf["ui"]
      BY <1>0, <2>1 DEF PlaceTypes, ConfType
    <2>. QED
      BY <1>0, <1>o, <1>z, <2>1, <2>2, <2>3 DEF Places, PlaceTypes
  <1>t. ASSUME NEW c \in Card, NEW k, ThreadStart(c, k), cpu.at = "run",
               cpu' \in CpuType, cpu'.at = "run", conf' \in ConfType,
               \A w \in {"cpu", "ui"} : conf'[w] \in {conf[w], Idle}, UNCHANGED alive
        PROVE  Places' /\ PlaceTypes'
    <2>1. /\ thread' \in ThreadType /\ thread_id' \in BOOLEAN
          /\ thread_id \/ thread.at = "none"
          /\ thread'.at \in Serving => thread'.card # NoCard
          /\ ~thread_id' => thread'.at = "none"
      BY <1>0, <1>t DEF ThreadStart, PlaceTypes, ThreadType, Serving, Places
    <2>2. \A w \in {"cpu", "ui"} : conf'[w].at # "idle" => conf'[w].card # NoCard
      BY <1>t DEF Places, Idle
    <2>. QED
      BY <1>0, <1>t, <2>1, <2>2 DEF Places, PlaceTypes
  <1>1. ASSUME NEW c \in Card, NEW byte \in Bytes, WriteCommand(c, byte)
        PROVE  Places' /\ PlaceTypes'
    <2>1. byte \in SUBSET CommandBit /\ UNCHANGED <<thread, thread_id, alive>>
      BY <1>1, SscAssumption DEF SscAssumption, WriteCommand, lists
    <2>2. CpuConf(c, byte) \/ UNCHANGED <<conf, cpu>>
      BY <1>1 DEF WriteCommand
    <2>. QED
      BY <1>1, <1>o, <1>u, <2>1, <2>2 DEF WriteCommand
  <1>2. ASSUME NEW c \in Card, SelectRom(c) PROVE Places' /\ PlaceTypes'
    <2>1. card[c].command \in SUBSET CommandBit
      BY DEF SscTypeOK, CardType
    <2>. QED
      BY <1>2, <1>o, <2>1 DEF SelectRom, lists
  <1>3. ASSUME NEW c \in Card, ReadDipsw(c) PROVE Places' /\ PlaceTypes'
    BY <1>0, <1>3, <1>t DEF ReadDipsw, ProgramRuns, lists, PlaceTypes
  <1>4. ASSUME NEW c \in Card,
               WriteData(c) \/ ReadData(c) \/ ReadStatus(c) \/ Timer(c)
        PROVE  Places' /\ PlaceTypes'
    BY <1>4, <1>u DEF WriteData, ReadData, ReadStatus, Timer, lists
  <1>5. ASSUME NEW c \in Card, UiConf(c) PROVE Places' /\ PlaceTypes'
    <2>1. PICK at \in {"open", "reset"} :
            conf' = [conf EXCEPT !["ui"] = [at |-> at, card |-> c]]
      BY <1>5 DEF UiConf
    <2>2. UNCHANGED <<thread, cpu, thread_id, alive>>
      BY <1>5 DEF UiConf, lists
    <2>3. conf' \in ConfType /\ conf'["ui"].card = c /\ conf'["cpu"] = conf["cpu"]
      BY <1>0, <2>1 DEF PlaceTypes, ConfType, MaybeCard
    <2>. QED
      BY <1>0, <1>z, <2>2, <2>3 DEF Places, PlaceTypes
  <1>6. ASSUME NEW w \in {"cpu", "ui"}, OpenTty(w) PROVE Places' /\ PlaceTypes'
    <2>1. /\ conf' = [conf EXCEPT ![w].at = "reset"] /\ conf[w].at = "open"
          /\ UNCHANGED <<thread, cpu, thread_id, alive>>
      BY <1>6 DEF OpenTty, lists
    <2>2. conf' \in ConfType
      BY <1>0, <2>1 DEF PlaceTypes, ConfType
    <2>3. /\ conf'[w].card = conf[w].card
          /\ \A v \in {"cpu", "ui"} \ {w} : conf'[v] = conf[v]
      BY <1>0, <2>1 DEF PlaceTypes, ConfType
    <2>. QED
      BY <1>0, <2>1, <2>2, <2>3 DEF Places, PlaceTypes
  <1>7. ASSUME NEW w \in {"cpu", "ui"}, OpenFails(w) \/ ResetFifos(w)
        PROVE  Places' /\ PlaceTypes'
    <2>1. PICK c : c = conf[w].card
      OBVIOUS
    <2>2. PICK k : Continue(w, c, k)
      BY <1>7, <2>1 DEF OpenFails, ResetFifos
    <2>3. /\ c \in Card /\ (w = "cpu" => cpu.at = "run") /\ UNCHANGED alive
      BY <1>7, <2>1 DEF OpenFails, ResetFifos, Places, SscTypeOK, MaybeCard, lists
    <2>4. conf' = [conf EXCEPT ![w] = Idle]
      BY <2>2 DEF Continue
    <2>5. conf' \in ConfType /\ \A v \in {"cpu", "ui"} : conf'[v] \in {conf[v], Idle}
      BY <1>0, <2>4 DEF PlaceTypes, ConfType, Idle, MaybeCard
    <2>6. CASE w = "cpu"
      <3>1. ThreadStart(c, CommandSet(k, cpu.byte)) /\ cpu' = [cpu EXCEPT !.byte = {}]
        BY <2>2, <2>6 DEF Continue
      <3>2. cpu' \in CpuType /\ cpu'.at = "run"
        BY <1>0, <2>3, <2>6, <3>1 DEF PlaceTypes, CpuType
      <3>. QED
        BY <1>t, <2>3, <2>5, <2>6, <3>1, <3>2
    <2>7. CASE w = "ui"
      <3>1. UNCHANGED <<thread, cpu, thread_id>>
        BY <2>2, <2>7 DEF Continue
      <3>. QED
        BY <1>0, <2>3, <2>5, <2>7, <3>1 DEF Places, PlaceTypes, Idle
    <2>. QED
      BY <2>6, <2>7
  <1>8. CASE Thread
    BY <1>0, <1>8, ThreadMoves DEF Places, PlaceTypes
  <1>9. CASE Dispose \/ Disposal
    <2>1. UNCHANGED <<thread, conf>> /\ thread_id' \in {thread_id, FALSE}
      BY <1>9 DEF Dispose, Disposal, Unlink, AwaitStop, EndThread, Join, Free
    <2>2. conf["cpu"].at = "idle"
      BY <1>9 DEF Dispose, Disposal, Unlink, AwaitStop, EndThread, Join, Free,
                  Places, ProgramRuns, Idle
    <2>3. alive' \subseteq Card
      BY <1>0, <1>9 DEF Dispose, Disposal, Unlink, AwaitStop, EndThread, Join, Free,
                        PlaceTypes, lists
    <2>4. /\ cpu' \in CpuType /\ cpu'.at # "run"
          /\ cpu'.at \in {"unlink", "stop", "last", "join", "free"} => cpu'.card # NoCard
      <3>1. CASE Dispose
        <4>1. 1 \in MaybeCard /\ 1 # NoCard
          BY SscAssumption DEF SscAssumption, MaybeCard, Card, NoCard
        <4>. QED
          BY <3>1, <4>1 DEF Dispose, CpuType
      <3>2. CASE Unlink \/ AwaitStop \/ EndThread \/ Join
        <4>1. PICK at \in {"stop", "last", "crashed", "join", "free"} :
                cpu' = [cpu EXCEPT !.at = at]
          BY <3>2 DEF Unlink, AwaitStop, EndThread, Join
        <4>2. cpu.card # NoCard
          BY <3>2 DEF Unlink, AwaitStop, EndThread, Join, Places
        <4>. QED
          BY <1>0, <4>1, <4>2 DEF PlaceTypes, CpuType
      <3>3. CASE Free
        <4>1. cpu.card \in Card
          BY <1>0, <3>3 DEF Free, Places, PlaceTypes, CpuType, MaybeCard
        <4>2. CASE cpu.card < Cards
          <5>1. cpu' = [cpu EXCEPT !.at = "unlink", !.card = cpu.card + 1]
            BY <3>3, <4>2 DEF Free
          <5>2. cpu.card + 1 \in MaybeCard /\ cpu.card + 1 # NoCard
            BY <4>1, <4>2, SscAssumption DEF SscAssumption, MaybeCard, Card, NoCard
          <5>. QED
            BY <1>0, <5>1, <5>2 DEF PlaceTypes, CpuType
        <4>3. CASE ~(cpu.card < Cards)
          <5>1. cpu' = [cpu EXCEPT !.at = "gone", !.card = NoCard]
            BY <3>3, <4>3 DEF Free
          <5>. QED
            BY <1>0, <5>1 DEF PlaceTypes, CpuType, MaybeCard
        <4>. QED
          BY <4>2, <4>3
      <3>. QED
        BY <1>9, <3>1, <3>2, <3>3 DEF Disposal
    <2>. QED
      BY <1>0, <2>1, <2>2, <2>3, <2>4 DEF Places, PlaceTypes
  <1>10. CASE UNCHANGED sscvars
    BY <1>10, <1>u DEF sscvars, lists
  <1>. QED
    BY <1>1, <1>2, <1>3, <1>4, <1>5, <1>6, <1>7, <1>8, <1>9, <1>10
       DEF SscNext, Program, Configure

(* The lists: the cards of a list are in every set that is closed and has  *)
(* its first card, and are such a set.                                     *)
LEMMA MembersIn ==
  ASSUME NEW list, NEW S \in SUBSET Card, Closed(S), list.first \in S \cup {NoCard}
  PROVE  Members(list) \subseteq S
  BY DEF Members

LEMMA MembersClosed ==
  ASSUME NEW list, list \in List, next \in [Card -> MaybeCard]
  PROVE  Closed(Members(list)) /\ list.first \in Members(list) \cup {NoCard}
  <1>1. ASSUME NEW c \in Members(list), next[c] # NoCard
        PROVE  next[c] \in Members(list)
    <2>1. c \in Card /\ next[c] \in Card
      BY <1>1 DEF Members, MaybeCard
    <2>2. ASSUME NEW S \in SUBSET Card, Closed(S), list.first \in S \cup {NoCard}
          PROVE  next[c] \in S
      <3>1. c \in S
        BY <2>2 DEF Members
      <3>. QED
        BY <1>1, <2>2, <3>1 DEF Closed
    <2>. QED
      BY <2>1, <2>2 DEF Members
  <1>2. list.first \in Members(list) \cup {NoCard}
    BY DEF Members, List, MaybeCard
  <1>. QED
    BY <1>1, <1>2 DEF Closed

(* A card of a list that is not its first one has one before it.           *)
LEMMA HasBefore ==
  ASSUME NEW list, list \in List, next \in [Card -> MaybeCard],
         NEW c \in Members(list), c # list.first
  PROVE  /\ Before(list, c) \in Members(list)
         /\ next[Before(list, c)] = c /\ c \in Card
  <1>1. \E d \in Members(list) : next[d] = c
    <2> SUFFICES ASSUME \A d \in Members(list) : next[d] # c PROVE FALSE
      OBVIOUS
    <2> DEFINE R == Members(list) \ {c}
    <2>1. Closed(Members(list)) /\ list.first \in Members(list) \cup {NoCard}
      BY MembersClosed
    <2>2. Closed(R) /\ list.first \in R \cup {NoCard} /\ R \in SUBSET Card
      BY <2>1 DEF Closed, Members
    <2> HIDE DEF R
    <2>3. Members(list) \subseteq R
      BY <2>2, MembersIn
    <2>. QED
      BY <2>3 DEF R
  <1>. QED
    BY <1>1 DEF Before, Members

(* What inserting a card, and removing one, makes of a list and of the     *)
(* links, and of a set that they stay in.                                  *)
LEMMA Inserts ==
  ASSUME NEW list, list \in List, next \in [Card -> MaybeCard], NEW c \in Card,
         next' = InsertedLinks(list, c)
  PROVE  /\ InsertedIn(list, c) \in List /\ next' \in [Card -> MaybeCard]
         /\ InsertedIn(list, c).first \in {c, list.first}
         /\ InsertedIn(list, c).last = c
         /\ \A S \in SUBSET Card : Closed(S) => Closed(S \cup {c})'
  <1>1. InsertedIn(list, c) \in List
    BY DEF InsertedIn, List, MaybeCard
  <1>2. \A d \in Card : next'[d] \in {c, NoCard, next[d]}
    BY DEF InsertedLinks
  <1>3. next' \in [Card -> MaybeCard] /\ next'[c] \in {c, NoCard}
    BY <1>2 DEF InsertedLinks, MaybeCard
  <1>4. ASSUME NEW S \in SUBSET Card, Closed(S) PROVE Closed(S \cup {c})'
    BY <1>2, <1>3, <1>4 DEF Closed
  <1>. QED
    BY <1>1, <1>3, <1>4 DEF InsertedIn

LEMMA Removes ==
  ASSUME NEW list, list \in List, next \in [Card -> MaybeCard],
         NEW c, CanRemove(list, c), next' = RemovedLinks(list, c)
  PROVE  /\ RemovedFrom(list, c) \in List /\ next' \in [Card -> MaybeCard]
         /\ \A S \in SUBSET Card : Closed(S) => Closed(S)'
         /\ \A S \in SUBSET Card :
              Closed(S) /\ {list.first, list.last} \subseteq S \cup {NoCard} =>
                {RemovedFrom(list, c).first, RemovedFrom(list, c).last}
                  \subseteq S \cup {NoCard}
  <1>0. c \in Members(list) /\ c \in Card /\ next[c] \in MaybeCard
    BY DEF CanRemove, Members
  <1>1. CASE list.first = c
    <2>1. RemovedFrom(list, c) = [first |-> next[c],
                                  last |-> IF next[c] = NoCard THEN NoCard ELSE list.last]
      BY <1>1 DEF RemovedFrom
    <2>2. next' = next
      BY <1>1 DEF RemovedLinks
    <2>3. RemovedFrom(list, c) \in List
      BY <1>0, <2>1 DEF List, MaybeCard
    <2>4. \A S \in SUBSET Card : Closed(S) => Closed(S)'
      BY <2>2 DEF Closed
    <2>5. ASSUME NEW S \in SUBSET Card, Closed(S),
                 {list.first, list.last} \subseteq S \cup {NoCard}
          PROVE  {RemovedFrom(list, c).first, RemovedFrom(list, c).last}
                   \subseteq S \cup {NoCard}
      <3>1. c \in S
        BY <1>0, <1>1, <2>5, SscAssumption DEF Card, NoCard, SscAssumption
      <3>. QED
        BY <2>1, <2>5, <3>1 DEF Closed
    <2>. QED
      BY <2>2, <2>3, <2>4, <2>5
  <1>2. CASE list.first # c
    <2>1. PICK b \in Members(list) : b = Before(list, c) /\ next[b] = c
      BY <1>0, <1>2, HasBefore
    <2>2. b \in Card
      BY DEF Members
    <2>3. RemovedFrom(list, c) = [list EXCEPT !.last = IF next[c] = NoCard THEN b
                                                       ELSE list.last]
      BY <1>2, <2>1 DEF RemovedFrom
    <2>4. next' = [next EXCEPT ![b] = next[c]]
      BY <1>2, <2>1 DEF RemovedLinks
    <2>5. /\ RemovedFrom(list, c) \in List
          /\ RemovedFrom(list, c).first = list.first
          /\ RemovedFrom(list, c).last = IF next[c] = NoCard THEN b ELSE list.last
      BY <1>0, <2>2, <2>3 DEF List, MaybeCard
    <2>6. next' \in [Card -> MaybeCard]
      BY <1>0, <2>2, <2>4
    <2>7. ASSUME NEW S \in SUBSET Card, Closed(S) PROVE Closed(S)'
      <3> SUFFICES ASSUME NEW d \in S PROVE next'[d] \in S \cup {NoCard}
        BY DEF Closed
      <3>1. CASE d = b
        <4>1. c \in S
          BY <1>0, <2>1, <2>7, <3>1, SscAssumption DEF Closed, Card, NoCard, SscAssumption
        <4>. QED
          BY <2>2, <2>4, <2>7, <3>1, <4>1 DEF Closed
      <3>2. CASE d # b
        BY <2>4, <2>7, <3>2 DEF Closed
      <3>. QED
        BY <3>1, <3>2
    <2>8. ASSUME NEW S \in SUBSET Card, Closed(S),
                 {list.first, list.last} \subseteq S \cup {NoCard}
          PROVE  {RemovedFrom(list, c).first, RemovedFrom(list, c).last}
                   \subseteq S \cup {NoCard}
      <3>1. b \in S
        BY <2>1, <2>8, MembersIn
      <3>. QED
        BY <2>5, <2>8, <3>1
    <2>. QED
      BY <2>5, <2>6, <2>7, <2>8
  <1>. QED
    BY <1>1, <1>2

(* What happens to the links and the lists.                                *)
LEMMA LinksStep ==
  ASSUME SscTypeOK, Places, [SscNext]_sscvars
  PROVE  \/ TakeCommand \/ Unlink
         \/ UNCHANGED <<next, slots, started>>
  <1>1. CASE Thread
    BY <1>1, ThreadMoves
  <1>2. CASE ~Thread
    BY <1>2 DEF SscNext, sscvars, Program, WriteCommand, SelectRom, ReadDipsw,
         WriteData, ReadData, ReadStatus, Timer, UiConf, Configure, OpenTty, OpenFails,
         ResetFifos, Dispose, Disposal, AwaitStop, EndThread, Join, Free, lists
  <1>. QED
    BY <1>1, <1>2

LEMMA ListTypes ==
  ASSUME SscTypeOK, Places, Pending, [SscNext]_sscvars
  PROVE  next' \in [Card -> MaybeCard] /\ slots' \in List /\ started' \in List
  <1>0. next \in [Card -> MaybeCard] /\ slots \in List /\ started \in List
    BY DEF SscTypeOK
  <1>1. CASE TakeCommand
    <2> DEFINE m == Head(commands)
    <2>1. /\ m \in Command /\ UNCHANGED slots
          /\ \/ /\ m.cmd = "start" /\ started' = InsertedIn(started, m.card)
                /\ next' = InsertedLinks(started, m.card)
             \/ /\ CanRemove(started, m.card) /\ started' = RemovedFrom(started, m.card)
                /\ next' = RemovedLinks(started, m.card)
             \/ UNCHANGED <<started, next>>
      BY <1>1, TakeCommandDoes
    <2>2. m.cmd = "start" => m.card \in Card
      <3>1. Queued(m)
        <4>1. commands \in Seq(Command) /\ commands # <<>>
          BY <1>1 DEF SscTypeOK, Command, TakeCommand
        <4>2. 1 \in 1 .. Len(commands) /\ m = commands[1]
          BY <4>1, HeadTailProperties, EmptySeq, LenProperties
        <4>. QED
          BY <4>2 DEF Queued
      <3>2. Waits(m)
        BY <2>1, <3>1 DEF Pending
      <3>. QED
        BY <2>1, <3>2 DEF Waits, Command, MaybeCard
    <2> HIDE DEF m
    <2>. QED
      BY <1>0, <2>1, <2>2, Inserts, Removes
  <1>2. CASE Unlink
    BY <1>0, <1>2, Removes DEF Unlink
  <1>. QED
    BY <1>0, <1>1, <1>2, LinksStep

(* The thread only comes to a card of its list, or after the one it is at. *)
LEMMA ThreadCard ==
  ASSUME SscTypeOK, Places, [SscNext]_sscvars
  PROVE  \/ thread'.card \in {thread.card, NoCard, started.first}
         \/ thread.card \in Card /\ thread'.card = next[thread.card]
  <1>1. CASE Thread
    BY <1>1, ThreadMoves
  <1>2. CASE ~Thread
    <2>1. UNCHANGED thread \/ thread' = [thread EXCEPT !.at = "commands"]
      BY <1>2 DEF SscNext, sscvars, Program, WriteCommand, SelectRom, ReadDipsw,
         WriteData, ReadData, ReadStatus, Timer, UiConf, Configure, OpenTty, OpenFails,
         ResetFifos, Continue, ThreadStart, Dispose, Disposal, Unlink, AwaitStop,
         EndThread, Join, Free
    <2>. QED
      BY <2>1 DEF SscTypeOK
  <1>. QED
    BY <1>1, <1>2

LEMMA BegunStays ==
  ASSUME SscTypeOK, Places, [SscNext]_sscvars, NEW d \in Card, Begun(d)
  PROVE  Begun(d)'
  <1>1. CASE Plain
    BY <1>1 DEF Plain, SameStates, Begun
  <1>2. ASSUME NEW c \in Card, Started(c) PROVE Begun(d)'
    BY <1>2 DEF Started, Begun
  <1>3. CASE TakeCommand
    <2>1. PICK c : \/ card' = [card EXCEPT ![c].state = "running"]
                   \/ card' = [card EXCEPT ![c].state = "stopped"]
                   \/ card' = card
      BY <1>3, TakeCommandDoes
    <2>2. card \in [Card -> CardType] /\ card[d] \in CardType
      BY DEF SscTypeOK
    <2>3. ASSUME NEW s \in {"running", "stopped"}, card' = [card EXCEPT ![c].state = s]
          PROVE  Begun(d)'
      BY <2>2, <2>3 DEF CardType, Begun
    <2>. QED
      BY <2>1, <2>3 DEF Begun
  <1>4. CASE Unlink \/ EndThread
    BY <1>4 DEF Unlink, EndThread, Begun
  <1>. QED
    BY <1>1, <1>2, <1>3, <1>4, StateStep

LEMMA LinkedStep ==
  ASSUME SscTypeOK, Places, Pending, Linked, [SscNext]_sscvars
  PROVE  Linked'
  <1>0. next \in [Card -> MaybeCard] /\ slots \in List /\ started \in List
    BY DEF SscTypeOK
  <1>1. PICK S \in SUBSET Card :
          /\ \A c \in S : Begun(c)
          /\ Closed(S)
          /\ {started.first, started.last, thread.card} \subseteq S \cup {NoCard}
    BY DEF Linked
  <1>2. \A c \in S : Begun(c)'
    BY <1>1, BegunStays
  <1>3. thread'.card \in S \cup {NoCard}
    <2>1. thread.card \in Card /\ thread'.card = next[thread.card]
            => thread.card \in S
      BY <1>1, SscAssumption DEF Card, NoCard, SscAssumption
    <2>. QED
      BY <1>1, <2>1, ThreadCard DEF Closed
  <1>4. ASSUME NEW R \in SUBSET Card, \A c \in R : Begun(c)', Closed(R)',
               {started'.first, started'.last, thread'.card} \subseteq R \cup {NoCard}
        PROVE  Linked'
    BY <1>4 DEF Linked
  <1>5. CASE UNCHANGED <<next, started>>
    BY <1>1, <1>2, <1>3, <1>4, <1>5 DEF Closed
  <1>6. CASE Unlink
    <2>1. UNCHANGED started /\ (Closed(S)' \/ UNCHANGED next)
      BY <1>0, <1>1, <1>6, Removes DEF Unlink
    <2>2. Closed(S)'
      BY <1>1, <2>1 DEF Closed
    <2>. QED
      BY <1>1, <1>2, <1>3, <1>4, <2>1, <2>2
  <1>7. CASE TakeCommand
    <2> DEFINE m == Head(commands)
    <2>1. /\ m \in Command
          /\ \/ /\ m.cmd = "start" /\ started' = InsertedIn(started, m.card)
                /\ next' = InsertedLinks(started, m.card)
                /\ card' = [card EXCEPT ![m.card].state = "running"]
             \/ /\ CanRemove(started, m.card) /\ started' = RemovedFrom(started, m.card)
                /\ next' = RemovedLinks(started, m.card)
             \/ UNCHANGED <<started, next>>
      BY <1>7, TakeCommandDoes
    <2>2. m.cmd = "start" => m.card \in Card
      <3>1. Queued(m)
        <4>1. commands \in Seq(Command) /\ commands # <<>>
          BY <1>7 DEF SscTypeOK, Command, TakeCommand
        <4>2. 1 \in 1 .. Len(commands) /\ m = commands[1]
          BY <4>1, HeadTailProperties, EmptySeq, LenProperties
        <4>. QED
          BY <4>2 DEF Queued
      <3>2. Waits(m)
        BY <2>1, <3>1 DEF Pending
      <3>. QED
        BY <2>1, <3>2 DEF Waits, Command, MaybeCard
    <2> HIDE DEF m
    <2>3. CASE /\ m.cmd = "start" /\ started' = InsertedIn(started, m.card)
               /\ next' = InsertedLinks(started, m.card)
               /\ card' = [card EXCEPT ![m.card].state = "running"]
      <3>1. PICK c \in Card : c = m.card
        BY <2>2, <2>3
      <3>2. /\ Closed(S \cup {c})'
            /\ {started'.first, started'.last} \subseteq S \cup {c, NoCard}
        BY <1>0, <1>1, <2>3, <3>1, Inserts
      <3>3. Begun(c)'
        BY <2>3, <3>1 DEF Begun, SscTypeOK, CardType
      <3>. QED
        BY <1>2, <1>3, <1>4, <3>2, <3>3
    <2>4. CASE /\ CanRemove(started, m.card) /\ started' = RemovedFrom(started, m.card)
               /\ next' = RemovedLinks(started, m.card)
      <3>1. Closed(S)' /\ {started'.first, started'.last} \subseteq S \cup {NoCard}
        BY <1>0, <1>1, <2>4, Removes
      <3>. QED
        BY <1>2, <1>3, <1>4, <3>1
    <2>. QED
      BY <1>5, <2>1, <2>3, <2>4
  <1>. QED
    BY <1>5, <1>6, <1>7, LinksStep

(* The types of all of it.                                                 *)
LEMMA TypesStep ==
  ASSUME SscTypeOK, Places, Pending, [SscNext]_sscvars
  PROVE  SscTypeOK'
  <1>1. /\ card' \in [Card -> CardType] /\ seen' \in [Card -> Counts]
        /\ \A d \in Card : CardFits(card'[d])
    BY CardStep
  <1>2. commands' \in Seq(Command) /\ Pending'
    BY PendingStep
  <1>3. Len(commands') <= Cards + 1
    <2>1. PICK q \in Seq(Command) : q = commands'
      BY <1>2
    <2>2. OneEach(q)
      BY <1>2, <2>1 DEF Pending, OneEach
    <2>. QED
      BY <2>1, <2>2, FewCommands
  <1>4. PlaceTypes'
    BY PlacesStep
  <1>5. next' \in [Card -> MaybeCard] /\ slots' \in List /\ started' \in List
    BY ListTypes
  <1>. QED
    BY <1>1, <1>2, <1>3, <1>4, <1>5
       DEF SscTypeOK, CardFits, Counts, Command, PlaceTypes, ThreadType, ConfType, CpuType

LEMMA SscStarts ==
  ASSUME SscInit
  PROVE  SscInv /\ EmptyMeansRoom
  <1>0. Cards \in 1 .. 7 /\ Capacity \in Nat \ {0} /\ MaxByte \in Nat
    BY SscAssumption DEF SscAssumption
  <1>e. <<>> \in Seq(Byte) /\ <<>> \in Seq(Command) /\ Len(<<>>) = 0
    BY EmptySeq
  <1>1. PICK tty \in [Card -> BOOLEAN] :
          card = [c \in Card |->
                    [state |-> "init", open |-> tty[c], rx |-> <<>>, tx |-> <<>>,
                     status |-> {"TX_EMPTY"}, command |-> {"IRQ_R"},
                     irq |-> FALSE, armed |-> FALSE]]
    BY DEF SscInit
  <1>2. \A c \in Card : /\ card[c] \in CardType /\ card[c].state = "init"
                        /\ card[c].rx = <<>> /\ card[c].tx = <<>>
    BY <1>1, <1>e DEF CardType, StatusBit, CommandBit
  <1>3. card \in [Card -> CardType]
    BY <1>1, <1>2
  <1>4. /\ seen \in [Card -> Counts]
        /\ \A c \in Card : seen[c].line = 0 /\ seen[c].got = 0 /\ seen[c].put = 0
                           /\ seen[c].out = 0 /\ seen[c].reset = FALSE
                           /\ seen[c].early = FALSE
    BY <1>0 DEF SscInit, Counts
  <1>5. SscTypeOK
    <2>1. next \in [Card -> MaybeCard]
      BY <1>0 DEF SscInit, MaybeCard, Card, NoCard
    <2>2. slots \in List /\ started \in List
      BY <1>0 DEF SscInit, List, MaybeCard, Card, NoCard
    <2>3. commands \in Seq([cmd : {"start", "stop", "terminate"}, card : MaybeCard])
          /\ Len(commands) <= Cards + 1
      BY <1>0, <1>e DEF SscInit, Command
    <2>4. /\ thread_id \in BOOLEAN /\ alive \subseteq Card
          /\ thread \in [at : {"none", "commands", "select", "read", "write", "remove",
                               "ended", "broken", "overrun", "crashed"},
                         card : MaybeCard, rfds : SUBSET Card, wfds : SUBSET Card,
                         n : 0 .. Capacity]
      <3>1. /\ thread = [at |-> "none", card |-> NoCard, rfds |-> {}, wfds |-> {}, n |-> 0]
            /\ thread_id = FALSE /\ alive = Card
        BY DEF SscInit
      <3>2. 0 \in 0 .. Capacity /\ NoCard \in MaybeCard
        BY <1>0 DEF MaybeCard
      <3>. QED
        BY <3>1, <3>2
    <2>5. conf \in [{"cpu", "ui"} -> [at : {"idle", "open", "reset"}, card : MaybeCard]]
      BY DEF SscInit, Idle, MaybeCard
    <2>6. cpu \in [at : {"run", "unlink", "stop", "last", "join", "free", "gone",
                         "crashed"}, card : MaybeCard, byte : SUBSET CommandBit]
      BY DEF SscInit, MaybeCard
    <2>7. \A c \in Card : Len(card[c].rx) <= Capacity /\ Len(card[c].tx) <= Capacity
      BY <1>0, <1>2, <1>e
    <2>. QED
      BY <1>3, <1>4, <2>1, <2>2, <2>3, <2>4, <2>5, <2>6, <2>7 DEF SscTypeOK, Counts
  <1>6. Places
    BY DEF SscInit, Places, Serving, Idle
  <1>7. Pending
    BY <1>e DEF SscInit, Pending, Queued
  <1>8. Linked
    <2>1. Closed({}) /\ {started.first, started.last, thread.card} \subseteq {NoCard}
      BY DEF SscInit, Closed
    <2>. QED
      BY <2>1 DEF Linked
  <1>9. \A c \in Card : Kept(c)
    <2> SUFFICES ASSUME NEW c \in Card PROVE Kept(c)
      OBVIOUS
    <2>1. Gone(c) = 0
      BY DEF SscInit, Gone
    <2>. QED
      BY <1>2, <1>4, <2>1, WholeNothing DEF Kept, RxKept, TxKept
  <1>10. EmptyMeansRoom
    BY <1>0, <1>2, <1>e DEF EmptyMeansRoom
  <1>. QED
    BY <1>5, <1>6, <1>7, <1>8, <1>9, <1>10 DEF SscInv

LEMMA SscInductive == SscSpec => [](SscInv /\ EmptyMeansRoom)
  <1>1. SscInit => SscInv /\ EmptyMeansRoom
    BY SscStarts
  <1>2. SscInv /\ EmptyMeansRoom /\ [SscNext]_sscvars => (SscInv /\ EmptyMeansRoom)'
    <2> SUFFICES ASSUME SscInv, EmptyMeansRoom, [SscNext]_sscvars
                 PROVE  (SscInv /\ EmptyMeansRoom)'
      OBVIOUS
    <2>0. SscTypeOK /\ Places /\ Pending /\ Linked /\ \A c \in Card : Kept(c)
      BY DEF SscInv
    <2>1. SscTypeOK'
      BY <2>0, TypesStep
    <2>2. Places'
      BY <2>0, PlacesStep
    <2>3. Pending'
      BY <2>0, PendingStep
    <2>4. Linked'
      BY <2>0, LinkedStep
    <2>5. \A c \in Card : Kept(c)'
      BY <2>0, KeptStep
    <2>6. EmptyMeansRoom'
      BY <2>0, RoomStep
    <2>. QED
      BY <2>1, <2>2, <2>3, <2>4, <2>5, <2>6 DEF SscInv
  <1>. QED
    BY <1>1, <1>2, PTL DEF SscSpec

(***************************************************************************)
(* Whatever the program, the user interface, the thread and dispose do to  *)
(* any number of cards, every variable keeps its type: no FIFO holds more  *)
(* than its capacity, and no more commands wait than one for each card and *)
(* one to end the thread.                                                  *)
(***************************************************************************)
THEOREM SerialTypes == SscSpec => []SscTypeOK
  <1>1. SscInv => SscTypeOK
    BY DEF SscInv
  <1>. QED
    BY <1>1, SscInductive, PTL

(***************************************************************************)
(* On a card that was not reconfigured while in use, the status says that  *)
(* the transmitter is empty only when there is room for a byte, in spite   *)
(* of the thread that empties the FIFO.                                    *)
(***************************************************************************)
THEOREM EmptyIsRoom == SscSpec => []EmptyMeansRoom
  BY SscInductive, PTL

(* A queue that holds what it should, between the byte before and the one  *)
(* after.                                                                  *)
LEMMA Framed ==
  ASSUME NEW f \in Seq(Nat), NEW from \in Nat, NEW upto \in Nat
  PROVE  Whole(f, Len(f), 0, from, upto) => Consecutive(<<from>> \o f \o <<upto + 1>>)
  <1>1. PICK s : s = <<from>> \o f \o <<upto + 1>>
    OBVIOUS
  <1>2. PICK m \in Nat : m = Len(f)
    BY LenProperties
  <1>3. /\ Len(s) = m + 2 /\ s[1] = from /\ s[m + 2] = upto + 1
        /\ \A i \in 2 .. m + 1 : s[i] = f[i - 1]
    <2>1. PICK b \in Nat : b = upto + 1
      OBVIOUS
    <2>2. PICK g : g = <<from>> \o f
      OBVIOUS
    <2>3. /\ <<from>> \in Seq(Nat) /\ Len(<<from>>) = 1 /\ <<from>>[1] = from
          /\ <<b>> \in Seq(Nat) /\ Len(<<b>>) = 1 /\ <<b>>[1] = b
      OBVIOUS
    <2>4. /\ g \in Seq(Nat) /\ Len(g) = 1 + m
          /\ \A i \in 1 .. 1 + m : g[i] = IF i <= 1 THEN <<from>>[i] ELSE f[i - 1]
      BY <1>2, <2>2, <2>3, ConcatProperties
    <2>5. /\ Len(s) = 1 + m + 1
          /\ \A i \in 1 .. 1 + m + 1 :
               s[i] = IF i <= 1 + m THEN g[i] ELSE <<b>>[i - (1 + m)]
      BY <1>1, <2>1, <2>2, <2>3, <2>4, ConcatProperties
    <2>6. s[1] = from
      <3>1. 1 \in 1 .. 1 + m /\ 1 \in 1 .. 1 + m + 1 /\ 1 <= 1 + m
        OBVIOUS
      <3>. QED
        BY <2>3, <2>4, <2>5, <3>1
    <2>7. s[m + 2] = b
      <3>1. /\ m + 2 \in 1 .. 1 + m + 1 /\ ~(m + 2 <= 1 + m) /\ m + 2 - (1 + m) = 1
        OBVIOUS
      <3>. QED
        BY <2>3, <2>5, <3>1
    <2>8. ASSUME NEW i \in 2 .. m + 1 PROVE s[i] = f[i - 1]
      <3>1. i \in 1 .. 1 + m /\ i \in 1 .. 1 + m + 1 /\ i <= 1 + m /\ ~(i <= 1)
        OBVIOUS
      <3>. QED
        BY <2>4, <2>5, <3>1
    <2>9. Len(s) = m + 2
      BY <2>5
    <2>. QED
      BY <2>1, <2>6, <2>7, <2>8, <2>9
  <1>4. \A i \in 1 .. m : f[i] \in Nat
    BY <1>2, ElementOfSeq
  <1>5. ASSUME NEW i \in 1 .. m + 1
        PROVE  /\ i = 1 \/ i - 1 \in 1 .. m
               /\ i = m + 1 \/ i \in 1 .. m
               /\ s[i] = IF i = 1 THEN from ELSE f[i - 1]
               /\ s[i + 1] = IF i = m + 1 THEN upto + 1 ELSE f[i]
    <2>1. CASE i = 1
      <3>1. i # m + 1 => i + 1 \in 2 .. m + 1 /\ i + 1 - 1 = i
        BY <2>1
      <3>2. i = m + 1 => i + 1 = m + 2
        OBVIOUS
      <3>. QED
        BY <1>3, <2>1, <3>1, <3>2
    <2>2. CASE i # 1
      <3>1. i \in 2 .. m + 1
        BY <2>2
      <3>2. i # m + 1 => i + 1 \in 2 .. m + 1 /\ i + 1 - 1 = i
        BY <2>2
      <3>3. i = m + 1 => i + 1 = m + 2
        OBVIOUS
      <3>. QED
        BY <1>3, <2>2, <3>1, <3>2, <3>3
    <2>. QED
      BY <2>1, <2>2
  <1>7. ASSUME Whole(f, m, 0, from, upto), NEW i \in 1 .. m + 1
        PROVE  s[i + 1] = s[i] + 1
    <2>0. /\ upto = from + m
          /\ \A j \in 1 .. m : f[j] = from + j
      <3>1. upto + 0 = from + m /\ \A j \in 1 .. m : f[j] + 0 = from + j
        BY <1>7 DEF Whole
      <3>. QED
        BY <1>4, <3>1
    <2>1. /\ s[i] = IF i = 1 THEN from ELSE f[i - 1]
          /\ s[i + 1] = IF i = m + 1 THEN upto + 1 ELSE f[i]
      BY <1>5
    <2>2. s[i] = from + (i - 1)
      <3>1. i # 1 => i - 1 \in 1 .. m
        OBVIOUS
      <3>. QED
        BY <2>0, <2>1, <3>1
    <2>3. s[i + 1] = from + i
      BY <2>0, <2>1
    <2>. QED
      BY <2>2, <2>3
  <1>8. 1 .. Len(s) - 1 = 1 .. m + 1
    BY <1>3
  <1>. QED
    BY <1>1, <1>2, <1>7, <1>8 DEF Consecutive

LEMMA KeptInOrder ==
  ASSUME SscInv
  PROVE  InOrder
  <1> SUFFICES ASSUME NEW c \in Card, ~seen[c].reset
               PROVE  Consecutive(Received(c)) /\ Consecutive(Sent(c))
    BY DEF InOrder
  <1>n. Byte \subseteq Nat
    BY SscAssumption DEF Byte, SscAssumption
  <1>0. /\ card[c].rx \in Seq(Nat) /\ card[c].tx \in Seq(Nat) /\ thread.n \in Nat
        /\ {seen[c].line, seen[c].got, seen[c].put, seen[c].out} \subseteq Nat
    BY <1>n, CardNumbers, SeqMonotonic DEF SscInv
  <1>1. RxKept(c) /\ TxKept(c)
    BY DEF SscInv, Kept
  <1>2. Consecutive(Received(c))
    BY <1>0, <1>1, Framed DEF RxKept, Received
  <1>3. Consecutive(Sent(c))
    <2>1. PICK t : /\ t = IF thread.at = "remove" /\ thread.card = c
                            THEN Left(card[c].tx, thread.n) ELSE card[c].tx
                   /\ Sent(c) = <<seen[c].out>> \o t \o <<seen[c].put + 1>>
      BY DEF Sent
    <2>2. /\ t \in Seq(Nat)
          /\ Whole(t, Len(t), 0, seen[c].out, seen[c].put)
      <3>1. CASE thread.at = "remove" /\ thread.card = c
        <4>1. t = Left(card[c].tx, thread.n) /\ Gone(c) = thread.n
          BY <2>1, <3>1 DEF Gone
        <4>. QED
          BY <1>0, <1>1, <4>1, WholeLeft, LeftIs DEF TxKept
      <3>2. CASE ~(thread.at = "remove" /\ thread.card = c)
        <4>1. t = card[c].tx /\ Gone(c) = 0
          BY <2>1, <3>2 DEF Gone
        <4>. QED
          BY <1>0, <1>1, <4>1 DEF TxKept
      <3>. QED
        BY <3>1, <3>2
    <2>. QED
      BY <1>0, <2>1, <2>2, Framed
  <1>. QED
    BY <1>2, <1>3

(***************************************************************************)
(* However the program, the thread, the user interface and dispose         *)
(* interleave, on any number of cards, the bytes of a card that was not    *)
(* reconfigured while in use are received and sent in order, each of them  *)
(* once, as long as the thread did not overrun its buffer.                 *)
(***************************************************************************)
THEOREM BytesInOrder == SscSpec => []InOrder
  <1>1. SscInv => InOrder
    BY KeptInOrder
  <1>. QED
    BY <1>1, SscInductive, PTL

(* With one card, from what the commands and the links are.                *)
LEMMA OneCardStep ==
  ASSUME Cards = 1, SscInv, OneCard, [SscNext]_sscvars
  PROVE  OneCard'
  <1>0. /\ SscTypeOK /\ Places /\ Pending /\ Card = {1} /\ 1 # NoCard
        /\ next \in [Card -> MaybeCard] /\ slots \in List /\ started \in List
        /\ card \in [Card -> CardType] /\ SscTypeOK'
    <2>1. SscTypeOK /\ Places /\ Pending
      BY DEF SscInv
    <2>2. SscTypeOK'
      BY <2>1, TypesStep
    <2>3. Card = {1} /\ 1 # NoCard
      BY DEF Card, NoCard
    <2>. QED
      BY <2>1, <2>2, <2>3 DEF SscTypeOK
  <1>l. ASSUME NEW list, list \in List, list.first \in {NoCard, 1}, CanRemove(list, 1)
        PROVE  list.first = 1
    <2>1. Closed({})
      BY DEF Closed
    <2>2. list.first = NoCard => Members(list) \subseteq {}
      BY <2>1, MembersIn
    <2>. QED
      BY <1>l, <2>2 DEF CanRemove
  <1>r. ASSUME NEW list, list \in List, CanRemove(list, 1)
        PROVE  /\ list.first = 1
               /\ RemovedFrom(list, 1).first = NoCard /\ RemovedFrom(list, 1).last = NoCard
               /\ RemovedLinks(list, 1) = next
    <2>1. list.first = 1
      BY <1>0, <1>l, <1>r DEF List, MaybeCard
    <2>2. next[1] = NoCard
      BY DEF OneCard
    <2>. QED
      BY <2>1, <2>2 DEF RemovedFrom, RemovedLinks
  <1>1. CASE Plain /\ UNCHANGED <<next, slots, started>>
    <2>1. card'[1].state = card[1].state
      BY <1>0, <1>1 DEF Plain, SameStates
    <2>2. CASE Thread
      <3>1. UNCHANGED <<cpu, thread_id, alive>> /\ thread.at # "none"
        BY <1>0, <2>2, ThreadMoves
      <3>2. thread.at \notin {"ended", "broken"}
        BY <2>2 DEF Thread, TakeCommand, BuildSets, Select, Skip, ReadLine, ReadFails,
                    WriteLine, WriteFails, Overrun, RemoveSent, Ready
      <3>. QED
        BY <1>1, <2>1, <3>1, <3>2 DEF OneCard
    <2>3. CASE AwaitStop \/ Join \/ Free \/ Dispose
      <3>1. UNCHANGED <<thread, thread_id>>
        BY <2>3 DEF AwaitStop, Join, Free, Dispose
      <3>2. CASE AwaitStop
        BY <1>1, <2>1, <3>1, <3>2 DEF OneCard, AwaitStop, SscTypeOK, lists, SscInv
      <3>3. CASE Join
        BY <1>1, <2>1, <3>1, <3>3 DEF OneCard, Join, SscTypeOK, lists, SscInv
      <3>4. CASE Free
        <4>1. cpu.card = 1
          BY <1>0, <3>4 DEF Free, Places, SscTypeOK, MaybeCard
        <4>2. cpu'.at = "gone" /\ cpu.at = "free"
          BY <1>0, <3>4, <4>1 DEF Free, SscTypeOK
        <4>. QED
          BY <1>1, <2>1, <3>1, <4>2 DEF OneCard
      <3>5. CASE Dispose
        BY <1>1, <2>1, <3>1, <3>5 DEF OneCard, Dispose, ProgramRuns, lists, Places, SscInv
      <3>. QED
        BY <2>3, <3>2, <3>3, <3>4, <3>5
    <2>4. CASE ~Thread /\ ~(AwaitStop \/ Join \/ Free \/ Dispose \/ Unlink \/ EndThread)
      <3>1. /\ cpu'.at = cpu.at /\ UNCHANGED alive
            /\ thread' = thread \/ cpu.at = "run"
        <4>1. ASSUME NEW c \in Card, Program(c) \/ Timer(c) \/ UiConf(c)
              PROVE  /\ cpu'.at = cpu.at /\ UNCHANGED alive
                     /\ thread' = thread \/ cpu.at = "run"
          BY <1>0, <4>1 DEF Program, WriteCommand, CpuConf, SelectRom, ReadDipsw,
             WriteData, ReadData, ReadStatus, Timer, UiConf, ProgramRuns, lists, SscTypeOK
        <4>2. ASSUME NEW w \in {"cpu", "ui"}, Configure(w)
              PROVE  /\ cpu'.at = cpu.at /\ UNCHANGED alive
                     /\ thread' = thread \/ cpu.at = "run"
          <5>1. CASE OpenTty(w)
            BY <5>1 DEF OpenTty, lists
          <5>2. CASE OpenFails(w) \/ ResetFifos(w)
            <6>1. PICK c, k : Continue(w, c, k)
              BY <5>2 DEF OpenFails, ResetFifos
            <6>2. UNCHANGED alive /\ (w = "cpu" => cpu.at = "run")
              BY <1>0, <5>2 DEF OpenFails, ResetFifos, lists, Places
            <6>3. CASE w = "cpu"
              <7>1. cpu' = [cpu EXCEPT !.byte = {}]
                BY <6>1, <6>3 DEF Continue
              <7>. QED
                BY <1>0, <6>2, <6>3, <7>1 DEF SscTypeOK
            <6>4. CASE w = "ui"
              BY <6>1, <6>2, <6>4 DEF Continue
            <6>. QED
              BY <6>3, <6>4
          <5>. QED
            BY <4>2, <5>1, <5>2 DEF Configure
        <4>3. CASE UNCHANGED sscvars
          BY <4>3 DEF sscvars, lists
        <4>. QED
          BY <2>4, <4>1, <4>2, <4>3 DEF SscNext, Disposal
      <3>2. Places'
        BY <1>0, PlacesStep
      <3>. QED
        BY <1>1, <2>1, <3>1, <3>2 DEF OneCard, Plain, Places
    <2>5. CASE EndThread
      <3>1. /\ cpu.at = "last" /\ cpu'.at = "free" /\ ~LastCard
            /\ UNCHANGED <<thread, alive>>
        BY <1>1, <2>5 DEF EndThread, SscTypeOK, SscInv, lists, Plain
      <3>2. slots.first = NoCard /\ ~thread_id
        BY <3>1 DEF OneCard, LastCard
      <3>. QED
        BY <1>1, <2>1, <3>1, <3>2 DEF OneCard, Plain
    <2>6. CASE Unlink
      <3>1. cpu.at = "unlink" /\ slots.first = 1 /\ UNCHANGED <<thread, alive>>
        BY <2>6 DEF Unlink, OneCard
      <3>2. cpu'.at = "crashed" \/ slots'.first = NoCard
        BY <1>0, <1>r, <2>6, <3>1 DEF Unlink, SscTypeOK, SscInv, Places, MaybeCard
      <3>3. cpu'.at = "crashed"
        BY <1>1, <1>0, <3>1, <3>2
      <3>. QED
        BY <1>1, <2>1, <3>1, <3>3 DEF OneCard, Plain
    <2>. QED
      BY <2>2, <2>3, <2>4, <2>5, <2>6
  <1>2. ASSUME NEW c \in Card, Started(c), UNCHANGED <<next, slots, started>>
        PROVE  OneCard'
    <2>1. /\ c = 1 /\ card[1].state # "running" /\ cpu.at = "run" /\ cpu'.at = "run"
          /\ thread_id'
      BY <1>0, <1>2 DEF Started
    <2>2. UNCHANGED alive
      BY <2>1 DEF SscNext, sscvars, Program, WriteCommand, SelectRom, ReadDipsw,
           WriteData, ReadData, ReadStatus, Timer, UiConf, Configure, OpenTty, OpenFails,
           ResetFifos, Dispose, Disposal, Unlink, AwaitStop, EndThread, Join, Free,
           Thread, TakeCommand, BuildSets, Select, Skip, ReadLine, ReadFails,
           WriteLine, WriteFails, Overrun, RemoveSent, lists
    <2>. QED
      BY <1>2, <2>1, <2>2 DEF OneCard
  <1>3. CASE TakeCommand
    <2> DEFINE m == Head(commands)
    <2>1. /\ m \in Command /\ commands # <<>> /\ thread.at = "commands"
          /\ UNCHANGED <<slots, alive, thread_id, cpu>>
          /\ \/ /\ m.cmd = "start" /\ thread' = thread
                /\ card' = [card EXCEPT ![m.card].state = "running"]
                /\ started' = InsertedIn(started, m.card)
                /\ next' = InsertedLinks(started, m.card)
             \/ /\ m.cmd = "stop" /\ CanRemove(started, m.card) /\ thread' = thread
                /\ card' = [card EXCEPT ![m.card].state = "stopped"]
                /\ started' = RemovedFrom(started, m.card)
                /\ next' = RemovedLinks(started, m.card)
             \/ /\ UNCHANGED <<card, started, next>>
                /\ m.cmd \in {"terminate", "stop"}
                /\ \E at \in {"ended", "crashed"} : thread' = [thread EXCEPT !.at = at]
      BY <1>0, <1>3, TakeCommandDoes DEF Command
    <2>2. Waits(m)
      <3>1. commands \in Seq(Command)
        BY <1>0 DEF SscTypeOK, Command
      <3>2. 1 \in 1 .. Len(commands) /\ m = commands[1]
        BY <2>1, <3>1, HeadTailProperties, EmptySeq, LenProperties
      <3>. QED
        BY <1>0, <2>1, <3>2 DEF Queued, Pending
    <2> HIDE DEF m
    <2>3. (cpu.at \notin {"free", "gone"} /\ thread_id) \/ cpu.at \in {"join"}
      BY <1>0, <2>1 DEF OneCard, Places
    <2>4. CASE m.cmd = "start"
      <3>1. m.card = 1 /\ card[1].state = "start" /\ started.first = NoCard
            /\ started.last = NoCard
        BY <1>0, <2>1, <2>2, <2>4 DEF Waits, Command, MaybeCard, OneCard
      <3>2. card'[1].state = "running"
        BY <1>0, <2>1, <2>4, <3>1 DEF CardType
      <3>3. started'.first = 1 /\ started'.last = 1
        BY <2>1, <2>4, <3>1 DEF InsertedIn
      <3>4. next'[1] = NoCard
        BY <1>0, <2>1, <2>4, <3>1 DEF InsertedLinks
      <3>5. thread' = thread
        BY <2>1, <2>4
      <3>. QED
        BY <2>1, <3>2, <3>3, <3>4, <3>5 DEF OneCard
    <2>5. CASE /\ m.cmd = "stop" /\ CanRemove(started, m.card) /\ thread' = thread
               /\ started' = RemovedFrom(started, m.card)
               /\ next' = RemovedLinks(started, m.card)
      <3>1. m.card = 1
        BY <1>0, <2>1, <2>2, <2>5 DEF Waits, Command, MaybeCard
      <3>. QED
        BY <1>0, <1>r, <2>1, <2>5, <3>1 DEF OneCard
    <2>6. CASE /\ UNCHANGED <<card, started, next>>
               /\ \E at \in {"ended", "crashed"} : thread' = [thread EXCEPT !.at = at]
      <3>1. /\ cpu.at \notin {"free", "gone"}
            /\ cpu.at \notin {"join", "free", "gone"} => thread_id
        BY <2>1 DEF OneCard
      <3>. QED
        BY <1>0, <2>1, <2>6, <3>1 DEF OneCard, SscTypeOK
    <2>. QED
      BY <2>1, <2>4, <2>5, <2>6
  <1>4. CASE Unlink
    <2>1. /\ cpu.at = "unlink" /\ cpu.card = 1 /\ cpu'.at \in {"stop", "last", "crashed"}
          /\ UNCHANGED <<card, started, alive, thread_id, thread>>
          /\ cpu'.at # "crashed" => /\ CanRemove(slots, 1)
                                    /\ slots' = RemovedFrom(slots, 1)
                                    /\ next' = RemovedLinks(slots, 1)
          /\ cpu'.at = "crashed" => UNCHANGED <<slots, next>>
      BY <1>0, <1>4 DEF Unlink, SscTypeOK, Places, MaybeCard
    <2>2. UNCHANGED next /\ (cpu'.at # "crashed" => slots'.first = NoCard)
      BY <1>0, <1>r, <2>1
    <2>. QED
      BY <2>1, <2>2 DEF OneCard
  <1>5. CASE EndThread
    <2>1. /\ cpu.at = "last" /\ UNCHANGED <<card, next, slots, started, alive, thread>>
          /\ \/ cpu'.at = "join"
             \/ ~LastCard /\ cpu'.at = "free" /\ UNCHANGED thread_id
      BY <1>0, <1>5 DEF EndThread, SscTypeOK, lists
    <2>2. cpu'.at = "free" => ~thread_id /\ thread.at = "none"
      BY <2>1 DEF OneCard, LastCard
    <2>. QED
      BY <2>1, <2>2 DEF OneCard
  <1>. QED
    BY <1>0, <1>1, <1>2, <1>3, <1>4, <1>5, StateStep, LinksStep

(* With any number of cards.  A card of a list that is not its first one   *)
(* has another before it.                                                  *)
LEMMA HasOther ==
  ASSUME NEW list, list \in List, next \in [Card -> MaybeCard],
         NEW c \in Members(list), c # list.first
  PROVE  \E d \in Members(list) \ {c} : next[d] = c
  <1> SUFFICES ASSUME \A d \in Members(list) \ {c} : next[d] # c PROVE FALSE
    OBVIOUS
  <1> DEFINE R == Members(list) \ {c}
  <1>1. Closed(Members(list)) /\ list.first \in Members(list) \cup {NoCard}
    BY MembersClosed
  <1>2. Closed(R) /\ list.first \in R \cup {NoCard} /\ R \in SUBSET Card
    BY <1>1 DEF Closed, Members
  <1> HIDE DEF R
  <1>3. Members(list) \subseteq R
    BY <1>2, MembersIn
  <1>. QED
    BY <1>3 DEF R

LEMMA NoCardIsNone == NoCard \notin Card
  BY SscAssumption DEF NoCard, Card, SscAssumption

(* A set that the thread's list stays in shows what becomes of the list.   *)
LEMMA PathFrom ==
  ASSUME NEW R \in SUBSET Card, Closed(R)', started'.first \in R \cup {NoCard},
         \A c, d \in R : next'[c] = next'[d] /\ next'[c] # NoCard => c = d,
         \A c \in R : next'[c] = started'.first => started'.first = NoCard
  PROVE  Path'
  <1>1. Members(started)' \subseteq R
    BY DEF Members
  <1>. QED
    BY <1>1 DEF Path

(* The card c after b is cut out of the thread's list.                     *)
LEMMA Cut ==
  ASSUME SscTypeOK, Path, NEW b \in Members(started), NEW c \in Card, next[b] = c,
         next' = [next EXCEPT ![b] = next[c]], started'.first = started.first
  PROVE  /\ Path' /\ b # c
         /\ \E R \in SUBSET Card : /\ R = Members(started) \ {c} /\ Closed(R)'
                                  /\ started'.first \in R \cup {NoCard}
  <1> DEFINE M == Members(started)
  <1>0. /\ next \in [Card -> MaybeCard] /\ started \in List /\ M \subseteq Card
        /\ c # NoCard
    BY NoCardIsNone DEF SscTypeOK, Members
  <1>r. PICK R \in SUBSET Card : R = M \ {c}
    BY <1>0
  <1>1. Closed(M) /\ started.first \in M \cup {NoCard}
    BY <1>0, MembersClosed
  <1>2. c \in M /\ c # started.first
    BY <1>0, <1>1 DEF Closed, Path
  <1>3. /\ \A x, y \in M : next[x] = next[y] /\ next[x] # NoCard => x = y
        /\ \A x \in M : next[x] = started.first => started.first = NoCard
    BY DEF Path
  <1>4. b # c
    <2>1. PICK d \in M \ {c} : next[d] = c
      BY <1>0, <1>2, HasOther
    <2>. QED
      BY <1>0, <1>3, <2>1
  <1> HIDE DEF M
  <1>5. \A x \in M : next'[x] = IF x = b THEN next[c] ELSE next[x]
    BY <1>0
  <1>6. \A x \in R : next'[x] \in R \cup {NoCard}
    <2> SUFFICES ASSUME NEW x \in R PROVE next'[x] \in R \cup {NoCard}
      OBVIOUS
    <2>1. CASE x = b
      <3>1. next[c] \in M \cup {NoCard} /\ next[c] # c
        BY <1>0, <1>1, <1>2, <1>3, <1>4 DEF M, Closed
      <3>. QED
        BY <1>r, <1>5, <2>1, <3>1
    <2>2. CASE x # b
      <3>1. next[x] \in M \cup {NoCard} /\ next[x] # c
        BY <1>0, <1>1, <1>3, <1>r, <2>2 DEF M, Closed
      <3>. QED
        BY <1>r, <1>5, <2>2, <3>1
    <2>. QED
      BY <2>1, <2>2
  <1>7. \A x, y \in R : next'[x] = next'[y] /\ next'[x] # NoCard => x = y
    BY <1>2, <1>3, <1>5, <1>r
  <1>8. \A x \in R : next'[x] = started'.first => started'.first = NoCard
    BY <1>2, <1>3, <1>5, <1>r
  <1>9. started'.first \in R \cup {NoCard}
    BY <1>0, <1>1, <1>2, <1>r
  <1>10. Closed(R)'
    BY <1>6 DEF Closed
  <1>. QED
    BY <1>4, <1>7, <1>8, <1>9, <1>10, <1>r, PathFrom DEF M

(* What the thread's list is after one card of it is removed.              *)
LEMMA Stops ==
  ASSUME SscTypeOK, Path, NEW c, CanRemove(started, c),
         started' = RemovedFrom(started, c), next' = RemovedLinks(started, c)
  PROVE  /\ Path'
         /\ \E R \in SUBSET Card :
              /\ R = Members(started) \ {c} /\ Closed(R)'
              /\ started'.first \in R \cup {NoCard}
              /\ started'.last \in {NoCard, started.last} \cup R
  <1> DEFINE M == Members(started)
  <1>0. /\ next \in [Card -> MaybeCard] /\ started \in List /\ M \subseteq Card
        /\ c \in M /\ c \in Card /\ c # NoCard /\ next[c] \in MaybeCard
    <2>1. next \in [Card -> MaybeCard] /\ started \in List /\ c \in M
      BY DEF SscTypeOK, CanRemove
    <2>2. M \subseteq Card
      BY DEF Members
    <2> HIDE DEF M
    <2>. QED
      BY <2>1, <2>2, NoCardIsNone
  <1>r. PICK R \in SUBSET Card : R = M \ {c}
    BY <1>0
  <1>1. Closed(M) /\ started.first \in M \cup {NoCard}
    BY <1>0, MembersClosed
  <1>2. CASE started.first = c
    <2>1. /\ started' = [first |-> next[c],
                         last |-> IF next[c] = NoCard THEN NoCard ELSE started.last]
          /\ next' = next
      BY <1>2 DEF RemovedFrom, RemovedLinks
    <2>2. \A x \in M : next[x] # c
      BY <1>0, <1>2 DEF Path
    <2>3. Closed(R)'
      <3>1. \A x \in R : next'[x] \in R \cup {NoCard}
        BY <1>1, <1>r, <2>1, <2>2 DEF Closed
      <3>. QED
        BY <3>1 DEF Closed
    <2>4. started'.first \in R \cup {NoCard}
      BY <1>0, <1>1, <1>r, <2>1, <2>2 DEF Closed
    <2>5. /\ \A x, y \in R : next'[x] = next'[y] /\ next'[x] # NoCard => x = y
          /\ \A x \in R : next'[x] = started'.first => started'.first = NoCard
      BY <1>0, <1>r, <2>1 DEF Path
    <2>7. started'.last \in {NoCard, started.last}
      BY <2>1
    <2>8. Path'
      BY <2>3, <2>4, <2>5, PathFrom
    <2>. QED
      BY <1>r, <2>3, <2>4, <2>7, <2>8
  <1>3. CASE started.first # c
    <2>1. PICK b \in M : b = Before(started, c) /\ next[b] = c
      BY <1>0, <1>3, HasBefore
    <2>2. /\ started' = [started EXCEPT !.last = IF next[c] = NoCard THEN b
                                                                    ELSE started.last]
          /\ next' = [next EXCEPT ![b] = next[c]]
      BY <1>3, <2>1 DEF RemovedFrom, RemovedLinks
    <2>3. started'.first = started.first /\ started'.last \in {b, started.last}
      BY <1>0, <2>2 DEF List
    <2>4. /\ Path' /\ b # c
          /\ \E Q \in SUBSET Card : /\ Q = M \ {c} /\ Closed(Q)'
                                   /\ started'.first \in Q \cup {NoCard}
      <3>1. c \in Card /\ b \in Members(started) /\ next[b] = c
        BY <1>0, <2>1
      <3>2. /\ next' = [next EXCEPT ![b] = next[c]]
            /\ started'.first = started.first
        BY <2>2, <2>3
      <3> HIDE DEF M
      <3>. QED
        BY <3>1, <3>2, Cut DEF M
    <2>5. Closed(R)' /\ started'.first \in R \cup {NoCard}
      <3>1. PICK Q \in SUBSET Card : /\ Q = M \ {c} /\ Closed(Q)'
                                     /\ started'.first \in Q \cup {NoCard}
        BY <2>4
      <3>2. Q = R
        BY <1>r, <3>1
      <3>. QED
        BY <3>1, <3>2
    <2>. QED
      BY <1>r, <2>1, <2>3, <2>4, <2>5
  <1>. QED
    BY <1>2, <1>3

(* What it is after a card that is not in it is inserted.                  *)
LEMMA Joins ==
  ASSUME SscTypeOK, Path, NEW c \in Card, c \notin Members(started), c # started.last,
         started' = InsertedIn(started, c), next' = InsertedLinks(started, c)
  PROVE  Path'
  <1> DEFINE M == Members(started)
  <1>0. /\ next \in [Card -> MaybeCard] /\ started \in List /\ M \subseteq Card
        /\ c # NoCard /\ NoCard \notin Card
    BY NoCardIsNone DEF SscTypeOK, Members
  <1>r. PICK R \in SUBSET Card : R = IF started.last = NoCard THEN {c} ELSE M \cup {c}
    BY <1>0
  <1>1. Closed(M) /\ started.first \in M \cup {NoCard}
    BY <1>0, MembersClosed
  <1>2. \A d \in Card : next'[d] = IF d = started.last THEN c
                                   ELSE IF d = c THEN NoCard ELSE next[d]
    BY DEF InsertedLinks
  <1>3. started'.first = IF started.last = NoCard THEN c ELSE started.first
    BY DEF InsertedIn
  <1>4. started'.first \in R \cup {NoCard}
    BY <1>0, <1>1, <1>3, <1>r
  <1>5. \A d \in R : next'[d] \in R \cup {NoCard}
    BY <1>0, <1>1, <1>2, <1>r DEF Closed
  <1>6. \A x, y \in R : next'[x] = next'[y] /\ next'[x] # NoCard => x = y
    <2>1. CASE started.last = NoCard
      BY <1>r, <2>1
    <2>2. CASE started.last # NoCard
      <3>1. \A x \in M : next[x] # c
        BY <1>0, <1>1 DEF Closed
      <3>. QED
        BY <1>0, <1>2, <1>r, <2>2, <3>1 DEF Path
    <2>. QED
      BY <2>1, <2>2
  <1>7. \A x \in R : next'[x] = started'.first => started'.first = NoCard
    <2>1. CASE started.last = NoCard
      BY <1>0, <1>2, <1>3, <1>r, <2>1
    <2>2. CASE started.last # NoCard
      BY <1>0, <1>1, <1>2, <1>3, <1>r, <2>2 DEF Path
    <2>. QED
      BY <2>1, <2>2
  <1>8. Closed(R)'
    BY <1>5 DEF Closed
  <1>. QED
    BY <1>4, <1>6, <1>7, <1>8, PathFrom

(* What the steps do to where dispose is, to the cards that are freed, and *)
(* to which were let go early.                                             *)
LEMMA DisposalStep ==
  ASSUME SscTypeOK, Places, [SscNext]_sscvars
  PROVE  /\ Unlink \/ \A c \in Card : seen'[c].early = seen[c].early
         /\ \/ Dispose \/ Disposal
            \/ cpu'.at = cpu.at /\ cpu'.card = cpu.card /\ UNCHANGED alive
  <1>0. /\ seen \in [Card -> Counts] /\ cpu \in CpuType
    BY DEF SscTypeOK, Counts, CpuType
  <1> DEFINE Same == \A c \in Card : seen'[c].early = seen[c].early
             Rest == cpu'.at = cpu.at /\ cpu'.card = cpu.card /\ UNCHANGED alive
  <1>1. ASSUME NEW c \in Card, WriteData(c) PROVE Same /\ Rest
    <2>1. PICK p : seen' = [seen EXCEPT ![c].put = p]
      BY <1>1 DEF WriteData
    <2>. QED
      BY <1>0, <1>1, <2>1 DEF Counts, WriteData, lists
  <1>2. ASSUME NEW c \in Card, ReadData(c) PROVE Same /\ Rest
    <2>1. PICK p : seen' = [seen EXCEPT ![c].got = p]
      BY <1>2 DEF ReadData
    <2>. QED
      BY <1>0, <1>2, <2>1 DEF Counts, ReadData, lists
  <1>3. ASSUME NEW c \in Card, \/ \E byte \in Bytes : WriteCommand(c, byte)
                               \/ SelectRom(c) \/ ReadDipsw(c) \/ ReadStatus(c)
                               \/ Timer(c) \/ UiConf(c)
        PROVE  Same /\ Rest
    <2>1. UNCHANGED <<seen, alive>>
      BY <1>3 DEF WriteCommand, SelectRom, ReadDipsw, ReadStatus, Timer, UiConf, lists
    <2>2. UNCHANGED cpu \/ \E byte : cpu' = [cpu EXCEPT !.byte = byte]
      BY <1>3 DEF WriteCommand, CpuConf, SelectRom, ReadDipsw, ReadStatus, Timer, UiConf
    <2>. QED
      BY <1>0, <2>1, <2>2 DEF CpuType
  <1>4. ASSUME NEW w \in {"cpu", "ui"}, Configure(w) PROVE Same /\ Rest
    <2>1. UNCHANGED alive
      BY <1>4 DEF Configure, OpenTty, OpenFails, ResetFifos, lists
    <2>2. UNCHANGED cpu \/ cpu' = [cpu EXCEPT !.byte = {}]
      <3>1. CASE OpenTty(w)
        BY <3>1 DEF OpenTty
      <3>2. CASE OpenFails(w) \/ ResetFifos(w)
        <4>1. PICK c, k : Continue(w, c, k)
          BY <3>2 DEF OpenFails, ResetFifos
        <4>. QED
          BY <4>1 DEF Continue
      <3>. QED
        BY <1>4, <3>1, <3>2 DEF Configure
    <2>3. Same
      <3>1. CASE OpenTty(w) \/ OpenFails(w)
        BY <3>1 DEF OpenTty, OpenFails
      <3>2. CASE ResetFifos(w)
        <4>1. PICK c : c = conf[w].card
          OBVIOUS
        <4> DEFINE y == [seen[c] EXCEPT !.line = 0, !.got = 0, !.put = 0, !.out = 0,
                                        !.reset = TRUE]
        <4>2. \A d \in Card : seen'[d] \in {seen[d], IF d = c THEN y ELSE seen[d]}
          <5>1. seen' = [seen EXCEPT ![c] = IF card[c].state = "init" THEN seen[c]
                                                                     ELSE y]
            BY <3>2, <4>1 DEF ResetFifos
          <5> HIDE DEF y
          <5>. QED
            BY <1>0, <5>1
        <4>3. c \in Card => y.early = seen[c].early
          BY <1>0 DEF Counts
        <4> HIDE DEF y
        <4>. QED
          BY <4>2, <4>3
      <3>. QED
        BY <1>4, <3>1, <3>2 DEF Configure
    <2>. QED
      BY <1>0, <2>1, <2>2, <2>3 DEF CpuType
  <1>5. CASE Thread
    <2>1. UNCHANGED <<cpu, alive>>
      BY <1>5, ThreadMoves
    <2>2. CASE ReadLine
      <3>1. PICK p : seen' = [seen EXCEPT ![thread.card].line = p]
        BY <2>2 DEF ReadLine
      <3>. QED
        BY <1>0, <2>1, <3>1 DEF Counts
    <2>3. CASE WriteLine
      <3>1. PICK p : seen' = [seen EXCEPT ![thread.card].out = p]
        BY <2>3 DEF WriteLine
      <3>. QED
        BY <1>0, <2>1, <3>1 DEF Counts
    <2>4. CASE ~ReadLine /\ ~WriteLine
      <3>1. UNCHANGED seen
        BY <1>5, <2>4 DEF Thread, TakeCommand, BuildSets, Select, Skip, ReadFails,
                          WriteFails, Overrun, RemoveSent
      <3>. QED
        BY <2>1, <3>1
    <2>. QED
      BY <2>2, <2>3, <2>4
  <1>6. CASE Dispose \/ AwaitStop \/ EndThread \/ Join \/ Free
    BY <1>6 DEF Dispose, AwaitStop, EndThread, Join, Free, Disposal
  <1>7. CASE Unlink
    BY <1>7 DEF Disposal
  <1>8. CASE UNCHANGED sscvars
    BY <1>8 DEF sscvars, lists
  <1>. QED
    BY <1>1, <1>2, <1>3, <1>4, <1>5, <1>6, <1>7, <1>8 DEF SscNext, Program, Disposal

(* A thread that takes commands is with no card.                           *)
LEMMA RestingStep ==
  ASSUME SscTypeOK, Places, Resting, [SscNext]_sscvars
  PROVE  Resting'
  <1>1. CASE Thread
    <2>1. /\ thread.at # "none" /\ thread'.at # "none"
          /\ thread'.at = "commands" => thread'.card = NoCard \/ thread' = thread
      BY <1>1, ThreadMoves
    <2>. QED
      BY <2>1 DEF Resting
  <1>2. CASE ~Thread
    <2>1. \/ UNCHANGED thread
          \/ /\ thread' = [thread EXCEPT !.at = "commands"]
             /\ ~thread_id /\ cpu.at = "run"
      <3>1. ASSUME NEW c \in Card, NEW k, ThreadStart(c, k), cpu.at = "run"
            PROVE  \/ UNCHANGED thread
                   \/ /\ thread' = [thread EXCEPT !.at = "commands"]
                      /\ ~thread_id /\ cpu.at = "run"
        BY <3>1 DEF ThreadStart
      <3>2. ASSUME NEW w \in {"cpu", "ui"}, Configure(w), thread' # thread
            PROVE  \E c \in Card : \E k : ThreadStart(c, k) /\ cpu.at = "run"
        <4>1. OpenFails(w) \/ ResetFifos(w)
          BY <3>2 DEF Configure, OpenTty
        <4>2. PICK c : c = conf[w].card
          OBVIOUS
        <4>3. PICK k : Continue(w, c, k)
          BY <4>1, <4>2 DEF OpenFails, ResetFifos
        <4>4. c \in Card /\ (w = "cpu" => cpu.at = "run")
          BY <4>1, <4>2 DEF OpenFails, ResetFifos, Places, SscTypeOK, MaybeCard
        <4>5. w = "cpu" /\ ThreadStart(c, CommandSet(k, cpu.byte))
          BY <3>2, <4>3 DEF Continue
        <4>. QED
          BY <4>4, <4>5
      <3>3. ASSUME NEW c \in Card, ReadDipsw(c)
            PROVE  ThreadStart(c, card[c]) /\ cpu.at = "run"
        BY <3>3 DEF ReadDipsw, ProgramRuns
      <3>4. \/ UNCHANGED thread
            \/ \E w \in {"cpu", "ui"} : Configure(w) /\ thread' # thread
            \/ \E c \in Card : ReadDipsw(c)
        BY <1>2 DEF SscNext, sscvars, Program, WriteCommand, SelectRom, WriteData,
           ReadData, ReadStatus, Timer, UiConf, Dispose, Disposal, Unlink, AwaitStop,
           EndThread, Join, Free
      <3>. QED
        BY <3>1, <3>2, <3>3, <3>4
    <2>2. ~thread_id /\ cpu.at = "run" => thread.card = NoCard
      BY DEF Places, Resting
    <2>. QED
      BY <2>1, <2>2 DEF Resting, SscTypeOK
  <1>. QED
    BY <1>1, <1>2

(* The command that the thread takes waits for its card.                   *)
LEMMA HeadWaits ==
  ASSUME SscTypeOK, Pending, commands # <<>>
  PROVE  Waits(Head(commands)) /\ Head(commands) \in Command
  <1>1. commands \in Seq(Command)
    BY DEF SscTypeOK, Command
  <1>2. /\ 1 \in 1 .. Len(commands) /\ Head(commands) = commands[1]
        /\ Head(commands) \in Command
    BY <1>1, HeadTailProperties, EmptySeq, LenProperties
  <1>. QED
    BY <1>2 DEF Queued, Pending

LEMMA LetGoneStep ==
  ASSUME SscTypeOK, Places, Pending, LetGone, [SscNext]_sscvars
  PROVE  LetGone'
  <1>0. /\ card \in [Card -> CardType] /\ seen \in [Card -> Counts]
        /\ cpu \in CpuType /\ NoCard \notin Card
    BY NoCardIsNone DEF SscTypeOK, Counts, CpuType
  <1>1. CASE Unlink
    <2>1. PICK d \in Card : d = cpu.card
      BY <1>1 DEF Unlink, Places, SscTypeOK, MaybeCard
    <2>2. /\ cpu.at = "unlink" /\ UNCHANGED <<card, alive>> /\ cpu'.card = d
          /\ cpu'.at \in {"stop", "last", "crashed"}
          /\ cpu'.at = "stop" => Running(d)
          /\ cpu'.at = "last" => ~Running(d)
      BY <1>0, <1>1, <2>1 DEF Unlink, MustStop, Running, CpuType
    <2>3. \A c \in Card : seen'[c].early = IF c = d THEN seen[c].early \/ card[c].state = "start"
                                                    ELSE seen[c].early
      <3>1. seen' = [seen EXCEPT ![d].early = seen[d].early \/ card[d].state = "start"]
        BY <1>1, <2>1 DEF Unlink
      <3>. QED
        BY <1>0, <3>1, Zenon DEF Counts
    <2>4. card[d].state \in {"init", "start", "running", "stopped"}
      BY <1>0 DEF CardType
    <2>5. ASSUME NEW c \in Card, (c \notin alive \/ Halting(c))', ~seen'[c].early
          PROVE  card[c].state \in {"init", "stopped"}
      <3>1. CASE c = d
        BY <2>2, <2>3, <2>4, <2>5, <3>1 DEF Halting, Running, LetGone
      <3>2. CASE c # d
        BY <2>2, <2>3, <2>5, <3>2 DEF Halting, LetGone
      <3>. QED
        BY <3>1, <3>2
    <2>. QED
      BY <2>2, <2>5 DEF LetGone, Running
  <1>2. CASE Dispose \/ AwaitStop \/ EndThread \/ Join \/ Free
    <2>1. UNCHANGED <<card, seen>>
      BY <1>2 DEF Dispose, AwaitStop, EndThread, Join, Free
    <2>2. CASE Dispose
      <3>1. cpu.at = "run" /\ cpu'.at = "unlink" /\ UNCHANGED alive
        BY <2>2 DEF Dispose, ProgramRuns, lists
      <3>. QED
        BY <2>1, <3>1 DEF LetGone, Halting
    <2>3. CASE AwaitStop
      <3>1. /\ cpu.at = "stop" /\ cpu'.at = "last" /\ cpu'.card = cpu.card
            /\ UNCHANGED alive /\ card[cpu.card].state # "running"
        BY <1>0, <2>3 DEF AwaitStop, LetGo, lists, CpuType
      <3>. QED
        BY <2>1, <3>1 DEF LetGone, Halting
    <2>4. CASE EndThread \/ Join
      <3>1. /\ cpu.at \in {"last", "join"} /\ cpu'.at \in {"join", "free"}
            /\ cpu'.card = cpu.card /\ UNCHANGED alive
        BY <1>0, <2>4 DEF EndThread, Join, lists, CpuType
      <3>. QED
        BY <2>1, <3>1 DEF LetGone, Halting
    <2>5. CASE Free
      <3>1. /\ cpu.at = "free" /\ cpu'.at \in {"unlink", "gone"}
            /\ alive' = alive \ {cpu.card}
        BY <1>0, <2>5 DEF Free, CpuType
      <3>. QED
        BY <2>1, <3>1 DEF LetGone, Halting
    <2>. QED
      BY <1>2, <2>2, <2>3, <2>4, <2>5
  <1>3. CASE /\ cpu'.at = cpu.at /\ cpu'.card = cpu.card /\ UNCHANGED alive
             /\ \A c \in Card : seen'[c].early = seen[c].early
    <2>1. CASE Plain
      <3>1. cpu.at = "stop" => cpu.card \in Card
        BY <1>0 DEF Places, CpuType, MaybeCard
      <3>. QED
        BY <1>3, <2>1, <3>1 DEF LetGone, Halting, Plain, SameStates
    <2>2. ASSUME NEW d \in Card, Started(d) PROVE LetGone'
      <3>1. cpu.at = "run" /\ cpu'.at = "run" /\ alive' = Card
        BY <1>3, <2>2 DEF Started, LetGone
      <3>2. \A c \in Card : card'[c].state # "stopped"
        BY <2>2, <3>1 DEF Started, LetGone
      <3>. QED
        BY <3>1, <3>2 DEF LetGone, Halting
    <2>3. CASE TakeCommand
      <3>1. PICK m \in Command : m = Head(commands) /\ Waits(m)
        BY <2>3, HeadWaits DEF TakeCommand
      <3>2. \/ UNCHANGED card
            \/ /\ m.cmd = "start" /\ card' = [card EXCEPT ![m.card].state = "running"]
            \/ /\ m.cmd = "stop" /\ card' = [card EXCEPT ![m.card].state = "stopped"]
        BY <2>3, <3>1, TakeCommandDoes
      <3>3. CASE UNCHANGED card
        BY <1>3, <3>3 DEF LetGone, Halting
      <3>4. ASSUME NEW s \in {"running", "stopped"},
                   card' = [card EXCEPT ![m.card].state = s], m.card # NoCard,
                   card[m.card].state \in {"start", "running"},
                   s = "stopped" => cpu.at = "stop" /\ cpu.card = m.card
            PROVE  LetGone'
        <4>1. m.card \in Card
          BY <3>4 DEF Command, MaybeCard
        <4>2. \A c \in Card : card'[c].state = IF c = m.card THEN s ELSE card[c].state
          BY <1>0, <3>4, <4>1 DEF CardType
        <4>3. ASSUME NEW c \in Card, (c \notin alive \/ Halting(c))', ~seen'[c].early
              PROVE  card'[c].state \in {"init", "stopped"}
          <5>1. card[c].state \in {"init", "stopped"}
            BY <1>3, <4>3 DEF LetGone, Halting
          <5>. QED
            BY <3>4, <4>2, <5>1
        <4>4. cpu'.at = "stop" => card'[cpu'.card].state \in {"running", "stopped"}
          <5>1. cpu'.at = "stop" => cpu.card \in Card
            BY <1>0, <1>3 DEF Places, CpuType, MaybeCard
          <5>. QED
            BY <1>3, <4>2, <5>1 DEF LetGone
        <4>5. cpu'.at = "run" => /\ alive' = Card
                                 /\ \A c \in Card : card'[c].state # "stopped"
          BY <1>3, <3>4, <4>2 DEF LetGone
        <4>. QED
          BY <4>3, <4>4, <4>5 DEF LetGone
      <3>. QED
        BY <3>1, <3>2, <3>3, <3>4 DEF Waits
    <2>4. CASE EndThread
      BY <1>2, <2>4
    <2>. QED
      BY <1>1, <2>1, <2>2, <2>3, <2>4, StateStep
  <1>. QED
    BY <1>1, <1>2, <1>3, DisposalStep DEF Disposal

(* The cards that the thread comes to run.                                 *)
LEMMA StateKept ==
  ASSUME SscTypeOK, Places, [SscNext]_sscvars, ~TakeCommand, NEW c \in Card,
         card[c].state \in {"running", "stopped"},
         cpu.at = "run" => card[c].state # "stopped"
  PROVE  card'[c].state = card[c].state
  <1>1. CASE Plain
    BY <1>1 DEF Plain, SameStates
  <1>2. ASSUME NEW d \in Card, Started(d) PROVE card'[c].state = card[c].state
    BY <1>2 DEF Started
  <1>3. CASE Unlink \/ EndThread
    BY <1>3 DEF Unlink, EndThread
  <1>. QED
    BY <1>1, <1>2, <1>3, StateStep

LEMMA RunsStep ==
  ASSUME SscTypeOK, SscTypeOK', Places, Pending, Resting, Resting', LetGone,
         Path, Runs, LastRan, [SscNext]_sscvars
  PROVE  Path' /\ Runs' /\ LastRan'
  <1>0. /\ next \in [Card -> MaybeCard] /\ slots \in List /\ started \in List
        /\ NoCard \notin Card /\ card \in [Card -> CardType]
    BY NoCardIsNone DEF SscTypeOK
  <1>1. PICK S \in SUBSET Card :
          /\ \A c \in S : Running(c)
          /\ Closed(S)
          /\ {started.first, thread.card} \subseteq S \cup {NoCard}
    BY DEF Runs
  <1>2. thread'.card \in S \cup {NoCard}
    <2>1. thread.card \in Card /\ thread'.card = next[thread.card]
            => thread.card \in S
      BY <1>0, <1>1
    <2>. QED
      BY <1>1, <2>1, ThreadCard DEF Closed
  <1>3. Members(started) \subseteq S
    BY <1>1, MembersIn
  <1>4. CASE ~TakeCommand
    <2>1. UNCHANGED started
      BY <1>4, LinksStep DEF Unlink
    <2>2. \A c \in S : Running(c)'
      BY <1>1, <1>4, StateKept DEF Running
    <2>3. LastRan'
      <3>1. started.last # NoCard => started.last \in Card
        BY <1>0 DEF List, MaybeCard
      <3>. QED
        BY <1>4, <2>1, <3>1, StateKept DEF LastRan, LetGone
    <2>4. CASE UNCHANGED next
      <3>1. Closed(S)'
        BY <1>1, <2>4 DEF Closed
      <3>2. Path'
        BY <2>1, <2>4 DEF Path, Members, Closed
      <3>. QED
        BY <1>1, <1>2, <2>1, <2>2, <2>3, <3>1, <3>2 DEF Runs
    <2>5. CASE Unlink
      <3> DEFINE c == cpu.card
      <3>1. \/ UNCHANGED next
            \/ CanRemove(slots, c) /\ next' = RemovedLinks(slots, c)
        BY <2>5 DEF Unlink
      <3>2. CASE CanRemove(slots, c) /\ next' = RemovedLinks(slots, c) /\ next' # next
        <4>1. PICK d \in Card : d = c /\ d # slots.first /\ d \in Members(slots)
          BY <3>2 DEF CanRemove, Members, RemovedLinks
        <4>2. PICK b \in Card : b = Before(slots, d) /\ next[b] = d
          <5>1. Before(slots, d) \in Members(slots) /\ next[Before(slots, d)] = d
            BY <1>0, <4>1, HasBefore
          <5>. QED
            BY <5>1 DEF Members
        <4>3. next' = [next EXCEPT ![b] = next[d]]
          BY <3>2, <4>1, <4>2 DEF RemovedLinks
        <4>4. Closed(S)'
          BY <1>0, <1>1, <3>2, Removes
        <4>5. Path'
          <5>1. CASE b \in Members(started)
            BY <2>1, <4>2, <4>3, <5>1, Cut
          <5>2. CASE b \notin Members(started)
            <6>1. PICK R \in SUBSET Card : R = Members(started)
              BY DEF Members
            <6>2. Closed(R) /\ started.first \in R \cup {NoCard}
              BY <1>0, <6>1, MembersClosed
            <6>3. \A x \in R : next'[x] = next[x]
              BY <1>0, <4>3, <5>2, <6>1
            <6>4. Closed(R)'
              BY <6>2, <6>3 DEF Closed
            <6>5. /\ \A x, y \in R : next'[x] = next'[y] /\ next'[x] # NoCard => x = y
                  /\ \A x \in R : next'[x] = started'.first => started'.first = NoCard
              BY <2>1, <6>1, <6>3 DEF Path
            <6>. QED
              BY <2>1, <6>2, <6>4, <6>5, PathFrom
          <5>. QED
            BY <5>1, <5>2
        <4>. QED
          BY <1>1, <1>2, <2>1, <2>2, <2>3, <4>4, <4>5 DEF Runs
      <3>. QED
        BY <2>4, <3>1, <3>2
    <2>. QED
      BY <1>4, <2>4, <2>5, LinksStep
  <1>5. CASE TakeCommand
    <2>1. PICK m \in Command : m = Head(commands) /\ Waits(m)
      BY <1>5, HeadWaits DEF TakeCommand
    <2>2. /\ thread.at = "commands" /\ thread.card = NoCard
          /\ \/ /\ m.cmd = "start" /\ thread' = thread
                /\ card' = [card EXCEPT ![m.card].state = "running"]
                /\ started' = InsertedIn(started, m.card)
                /\ next' = InsertedLinks(started, m.card)
             \/ /\ m.cmd = "stop" /\ CanRemove(started, m.card) /\ thread' = thread
                /\ card' = [card EXCEPT ![m.card].state = "stopped"]
                /\ started' = RemovedFrom(started, m.card)
                /\ next' = RemovedLinks(started, m.card)
             \/ UNCHANGED <<card, started, next>>
      BY <1>5, <2>1, TakeCommandDoes DEF Resting
    <2>3. CASE UNCHANGED <<card, started, next>>
      <3>1. Closed(S)' /\ Path'
        BY <1>1, <2>3 DEF Closed, Path, Members
      <3>. QED
        BY <1>1, <1>2, <2>3, <3>1 DEF Runs, Running, LastRan
    <2>4. CASE /\ m.cmd = "start" /\ thread' = thread
               /\ card' = [card EXCEPT ![m.card].state = "running"]
               /\ started' = InsertedIn(started, m.card)
               /\ next' = InsertedLinks(started, m.card)
      <3>1. PICK c \in Card : c = m.card /\ card[c].state = "start"
        BY <2>1, <2>4 DEF Waits, Command, MaybeCard
      <3>2. c \notin Members(started) /\ c # started.last
        BY <1>0, <1>1, <1>3, <3>1 DEF Running, LastRan
      <3>3. Path'
        BY <2>4, <3>1, <3>2, Joins
      <3>4. PICK R \in SUBSET Card : R = S \cup {c}
        OBVIOUS
      <3>5. Closed(R)' /\ started'.first \in R \cup {NoCard} /\ started'.last = c
        BY <1>0, <1>1, <2>4, <3>1, <3>4, Inserts
      <3>6. \A d \in R : Running(d)'
        BY <1>0, <1>1, <2>4, <3>1, <3>4 DEF Running, CardType
      <3>. QED
        BY <1>2, <3>3, <3>4, <3>5, <3>6 DEF Runs, LastRan, Running
    <2>5. CASE /\ m.cmd = "stop" /\ CanRemove(started, m.card) /\ thread' = thread
               /\ card' = [card EXCEPT ![m.card].state = "stopped"]
               /\ started' = RemovedFrom(started, m.card)
               /\ next' = RemovedLinks(started, m.card)
      <3>1. PICK c \in Card : c = m.card /\ c \in Members(started)
        BY <2>5 DEF CanRemove, Members
      <3>2. /\ Path'
            /\ \E R \in SUBSET Card :
                 /\ R = Members(started) \ {c} /\ Closed(R)'
                 /\ started'.first \in R \cup {NoCard}
                 /\ started'.last \in {NoCard, started.last} \cup R
        BY <2>5, <3>1, Stops
      <3>3. PICK R \in SUBSET Card :
                 /\ R = Members(started) \ {c} /\ Closed(R)'
                 /\ started'.first \in R \cup {NoCard}
                 /\ started'.last \in {NoCard, started.last} \cup R
        BY <3>2
      <3>4. \A d \in Card : card'[d].state = IF d = c THEN "stopped" ELSE card[d].state
        BY <1>0, <2>5, <3>1 DEF CardType
      <3>5. \A d \in R : Running(d)'
        BY <1>1, <1>3, <3>3, <3>4 DEF Running
      <3>6. LastRan'
        <4>1. started'.last # NoCard => started'.last \in Card
          BY DEF SscTypeOK, List, MaybeCard
        <4>2. ASSUME started'.last = started.last, started.last # NoCard
              PROVE  card'[started'.last].state \in {"running", "stopped"}
          BY <3>4, <4>1, <4>2 DEF LastRan
        <4>3. ASSUME started'.last \in R
              PROVE  card'[started'.last].state \in {"running", "stopped"}
          BY <3>5, <4>3 DEF Running
        <4>. QED
          BY <3>3, <4>2, <4>3 DEF LastRan
      <3>7. thread'.card = NoCard
        BY <2>2, <2>5
      <3>. QED
        BY <3>2, <3>3, <3>5, <3>6, <3>7 DEF Runs
    <2>. QED
      BY <2>2, <2>3, <2>4, <2>5
  <1>. QED
    BY <1>4, <1>5

LEMMA FreedStarts == SscInit => FreedInv
  <1> SUFFICES ASSUME SscInit PROVE FreedInv
    OBVIOUS
  <1>1. /\ started = [first |-> NoCard, last |-> NoCard] /\ thread.card = NoCard
        /\ cpu.at = "run" /\ alive = Card /\ \A c \in Card : card[c].state = "init"
    BY DEF SscInit
  <1>2. Closed({})
    BY DEF Closed
  <1>3. Members(started) \subseteq {}
    BY <1>1, <1>2, MembersIn
  <1>4. Path
    BY <1>3 DEF Path
  <1>5. Runs
    BY <1>1, <1>2 DEF Runs
  <1>. QED
    BY <1>1, <1>4, <1>5 DEF FreedInv, LastRan, Resting, LetGone, Halting

(***************************************************************************)
(* Whatever the number of cards, and however the list of all cards and the *)
(* thread's list mix up their links, the thread has no card, and no        *)
(* command about one, that dispose has freed; except one that was let go   *)
(* before the thread had taken its start, when it is not the only card.    *)
(***************************************************************************)
THEOREM CardIsAlive == SscSpec => []UsedIsAlive
  <1> DEFINE Inv == FreedInv /\ (Cards = 1 => OneCard)
  <1>1. SscInit => Inv
    <2>1. SscInit /\ Cards = 1 => OneCard
      BY DEF SscInit, OneCard, Card
    <2>. QED
      BY <2>1, FreedStarts
  <1>2. SscInv /\ SscInv' /\ Inv /\ [SscNext]_sscvars => Inv'
    <2> SUFFICES ASSUME SscInv, SscInv', FreedInv, Cards = 1 => OneCard,
                        [SscNext]_sscvars
                 PROVE  FreedInv' /\ (Cards = 1 => OneCard')
      OBVIOUS
    <2>1. /\ SscTypeOK /\ SscTypeOK' /\ Places /\ Pending
          /\ Path /\ Runs /\ LastRan /\ Resting /\ LetGone
      BY DEF SscInv, FreedInv
    <2>2. Resting' /\ LetGone'
      BY <2>1, RestingStep, LetGoneStep
    <2>3. Path' /\ Runs' /\ LastRan'
      BY <2>1, <2>2, RunsStep
    <2>4. Cards = 1 => OneCard'
      BY OneCardStep
    <2>. QED
      BY <2>2, <2>3, <2>4 DEF FreedInv
  <1>3. SscInv /\ Inv => UsedIsAlive
    <2> SUFFICES ASSUME SscInv, FreedInv, Cards = 1 => OneCard,
                        thread.at \notin {"none", "ended", "broken"},
                        NEW c \in Card \ alive, Meets(c)
                 PROVE  seen[c].early /\ Cards > 1
      BY DEF UsedIsAlive
    <2>1. Cards > 1
      <3>1. Cards # 1
        BY DEF OneCard
      <3>. QED
        BY <3>1, SscAssumption DEF SscAssumption
    <2>2. CASE ~seen[c].early
      <3>1. card[c].state \in {"init", "stopped"}
        BY <2>2 DEF FreedInv, LetGone
      <3>2. PICK S \in SUBSET Card :
              /\ \A d \in S : Running(d)
              /\ Closed(S)
              /\ {started.first, thread.card} \subseteq S \cup {NoCard}
        BY DEF FreedInv, Runs
      <3>3. Members(started) \subseteq S /\ c # NoCard
        BY <3>2, MembersIn, NoCardIsNone
      <3>4. c \notin Members(started) /\ thread.card # c
        BY <3>1, <3>2, <3>3 DEF Running
      <3>5. PICK i \in DOMAIN commands : commands[i].card = c
        BY <3>4 DEF Meets
      <3>6. commands \in Seq(Command)
        BY DEF SscInv, SscTypeOK, Command
      <3>7. i \in 1 .. Len(commands) /\ commands[i] \in Command
        BY <3>6, LenProperties, ElementOfSeq
      <3>8. Waits(commands[i])
        BY <3>7 DEF SscInv, Pending, Queued
      <3>. QED
        BY <3>1, <3>3, <3>5, <3>8 DEF Waits
    <2>3. seen[c].early \in BOOLEAN
      BY DEF SscInv, SscTypeOK
    <2>. QED
      BY <2>1, <2>2, <2>3
  <1> HIDE DEF Inv
  <1>. QED
    BY <1>1, <1>2, <1>3, SscInductive, PTL DEF SscSpec

=============================================================================
