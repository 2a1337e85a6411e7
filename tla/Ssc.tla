-------------------------------- MODULE Ssc --------------------------------
(***************************************************************************)
(* The Super Serial cards of mii_ssc.c: a program that uses their          *)
(* registers, the timer that raises their interrupts, the user interface   *)
(* that reconfigures them, and the one thread that serves them all, to     *)
(* which the cards send commands.  The FIFOs are the queues that module    *)
(* Fifo implements, so each of their operations is one step; a reset that  *)
(* races one, which Fifo's proof excludes, leaves the queue with any items. *)
(***************************************************************************)
EXTENDS Naturals, Sequences

CONSTANTS
  Cards,     \* how many cards there are, in slots 1 to Cards
  Capacity,  \* what a data FIFO holds, 15 in the code
  Chunk,     \* what the thread's own buffer holds, 8 in the code
  Bytes,     \* the command bytes programs write, as the bits set in them
  MaxByte    \* bound: bytes that come in, and that go out, on a card's line

\* DTR, receive interrupts off (IRQ_R), transmit interrupts on (IRQ_T is 1).
CommandBit == {"DTR", "IRQ_R", "IRQ_T"}

\* RX_FULL, at which only the program looks, is left out.
StatusBit == {"TX_EMPTY", "IRQ"}

ASSUME SscAssumption ==
  /\ Cards \in 1 .. 7
  /\ Capacity \in Nat \ {0}
  /\ Chunk \in Nat \ {0}
  /\ Bytes \subseteq SUBSET CommandBit
  /\ MaxByte \in Nat

VARIABLES
  card,      \* the fields of each mii_card_ssc_t
  alive,     \* the cards that are not freed
  next,      \* c->self.stqe_next, the link that both lists use
  slots,     \* _mii_card_ssc_slots: its first card, and the one its last is in
  started,   \* _mii_card_ssc_started: likewise
  commands,  \* _mii_ssc_cmd
  thread_id, \* is _mii_ssc_thread_id set?
  thread,    \* the thread: its place, card, rfds, wfds, and bytes just written
  conf,      \* where the CPU and the UI are in _mii_scc_set_conf
  cpu,       \* the emulator's thread: its place, the card disposed, the command
  seen       \* history: of each card the last bytes that came in on the line,
             \* was read, was put in tx, went out; were its FIFOs reset in
             \* use, and was it let go before the thread took its start?

lists == <<alive, next, slots, started>>
sscvars == <<card, lists, commands, thread_id, thread, conf, cpu, seen>>

Card == 1 .. Cards
NoCard == 0
MaybeCard == Card \cup {NoCard}
List == [first : MaybeCard, last : MaybeCard]
Byte == 0 .. MaxByte

\* open is tty_fd > 0, irq whether irq_num is raised, armed whether
\* timer_check runs; bytes are numbered from 1 in the order they come.
CardType ==
  [state : {"init", "start", "running", "stopped"}, open : BOOLEAN,
   rx : Seq(Byte), tx : Seq(Byte), status : SUBSET StatusBit,
   command : SUBSET CommandBit, irq : BOOLEAN, armed : BOOLEAN]

SscTypeOK ==
  /\ card \in [Card -> CardType]
  /\ \A c \in Card : Len(card[c].rx) <= Capacity /\ Len(card[c].tx) <= Capacity
  /\ alive \subseteq Card
  /\ next \in [Card -> MaybeCard]
  /\ slots \in List
  /\ started \in List
  /\ commands \in Seq([cmd : {"start", "stop", "terminate"}, card : MaybeCard])
  /\ Len(commands) <= Cards + 1
  /\ thread_id \in BOOLEAN
  /\ thread \in [at : {"none", "commands", "select", "read", "write", "remove",
                       "ended", "broken", "overrun", "crashed"},
                 card : MaybeCard, rfds : SUBSET Card, wfds : SUBSET Card,
                 n : 0 .. Capacity]
  /\ conf \in [{"cpu", "ui"} -> [at : {"idle", "open", "reset"}, card : MaybeCard]]
  /\ cpu \in [at : {"run", "unlink", "stop", "last", "join", "free", "gone",
                    "crashed"}, card : MaybeCard, byte : SUBSET CommandBit]
  /\ seen \in [Card -> [line : 0 .. MaxByte, got : 0 .. MaxByte,
                        put : 0 .. MaxByte, out : 0 .. MaxByte,
                        reset : BOOLEAN, early : BOOLEAN]]

Idle == [at |-> "idle", card |-> NoCard]

\* Every card is initialised, in the order of the slots, and configured.
SscInit ==
  /\ \E tty \in [Card -> BOOLEAN] :
       card = [c \in Card |->
                 [state |-> "init", open |-> tty[c], rx |-> <<>>, tx |-> <<>>,
                  status |-> {"TX_EMPTY"}, command |-> {"IRQ_R"},
                  irq |-> FALSE, armed |-> FALSE]]
  /\ alive = Card
  /\ next = [c \in Card |-> IF c < Cards THEN c + 1 ELSE NoCard]
  /\ slots = [first |-> 1, last |-> Cards]
  /\ started = [first |-> NoCard, last |-> NoCard]
  /\ commands = <<>>
  /\ thread_id = FALSE
  /\ thread = [at |-> "none", card |-> NoCard, rfds |-> {}, wfds |-> {}, n |-> 0]
  /\ conf = [w \in {"cpu", "ui"} |-> Idle]
  /\ cpu = [at |-> "run", card |-> NoCard, byte |-> {}]
  /\ seen = [c \in Card |-> [line |-> 0, got |-> 0, put |-> 0, out |-> 0,
                             reset |-> FALSE, early |-> FALSE]]

-----------------------------------------------------------------------------
(* Lists.  last is the card whose link ends the list, or NoCard when that   *)
(* is the head itself.                                                      *)

\* Cards whose links lead to cards of theirs.
Closed(S) == \A c \in S : next[c] \in S \cup {NoCard}

\* The cards met when walking a list, along the links from the first.
Members(list) ==
  {c \in Card : \A S \in SUBSET Card :
                  Closed(S) /\ list.first \in S \cup {NoCard} => c \in S}

\* STAILQ_INSERT_TAIL: what the list and the links become.
InsertedIn(list, c) ==
  [first |-> IF list.last = NoCard THEN c ELSE list.first, last |-> c]
InsertedLinks(list, c) ==
  [d \in Card |-> IF d = list.last THEN c
                  ELSE IF d = c THEN NoCard ELSE next[d]]

\* STAILQ_REMOVE follows a null pointer when the card is not in the list.
CanRemove(list, c) == c \in Members(list)
Before(list, c) == CHOOSE d \in Members(list) : next[d] = c
RemovedFrom(list, c) ==
  IF list.first = c
    THEN [first |-> next[c],
          last |-> IF next[c] = NoCard THEN NoCard ELSE list.last]
    ELSE [list EXCEPT !.last = IF next[c] = NoCard THEN Before(list, c) ELSE @]
RemovedLinks(list, c) ==
  IF list.first = c THEN next ELSE [next EXCEPT ![Before(list, c)] = next[c]]

-----------------------------------------------------------------------------
(* The program: accesses to the card's registers and to its ROM.            *)

ProgramRuns == cpu.at = "run" /\ conf["cpu"] = Idle

Room(fifo) == Len(fifo) < Capacity

\* Mutation of Starts: a card is started although it is already.
StartsAgain(c) == card[c].open

\* A card is started once, when it has a tty.
Starts(c) == card[c].state \notin {"start", "running"} /\ card[c].open

\* _mii_ssc_thread_start: the card is to be k otherwise.
ThreadStart(c, k) ==
  IF Starts(c)
    THEN /\ card' = [card EXCEPT ![c] = [k EXCEPT !.state = "start",
                                                  !.armed = TRUE]]
         /\ commands' = Append(commands, [cmd |-> "start", card |-> c])
         /\ thread_id' = TRUE
         /\ thread' = IF thread_id THEN thread
                                   ELSE [thread EXCEPT !.at = "commands"]
    ELSE /\ card' = [card EXCEPT ![c] = k]
         /\ UNCHANGED <<commands, thread_id, thread>>

\* The end of _mii_ssc_command_set, which does nothing without a tty.
CommandSet(k, byte) ==
  IF k.open
    THEN [k EXCEPT !.command = byte,
                   !.irq = @ \/ ("IRQ" \in k.status /\ "IRQ_R" \in k.command \ byte)]
    ELSE k

\* Reopen c's tty, then start it and set its command to byte.
CpuConf(c, byte) ==
  /\ card' = [card EXCEPT ![c].open = FALSE]
  /\ conf' = [conf EXCEPT !["cpu"] = [at |-> "open", card |-> c]]
  /\ cpu' = [cpu EXCEPT !.byte = byte]

\* A write of the command register; raising DTR reopens the tty first.
WriteCommand(c, byte) ==
  /\ ProgramRuns
  /\ IF "DTR" \in byte \ card[c].command
       THEN CpuConf(c, byte)
       ELSE /\ card' = [card EXCEPT ![c] = CommandSet(@, byte)]
            /\ UNCHANGED <<conf, cpu>>
  /\ UNCHANGED <<lists, commands, thread_id, thread, seen>>

\* The program runs in the card's ROM: the card is opened, and started.
SelectRom(c) ==
  /\ ProgramRuns
  /\ card[c].state # "running"
  /\ CpuConf(c, card[c].command)
  /\ UNCHANGED <<lists, commands, thread_id, thread, seen>>

\* PR#x and IN#x read the switches from the ROM at CB00.
ReadDipsw(c) ==
  /\ ProgramRuns
  /\ card[c].state = "init"
  /\ ThreadStart(c, card[c])
  /\ UNCHANGED <<lists, conf, cpu, seen>>

\* A byte's number; those of a card reset in use are not told apart.
Number(c, n) == IF seen[c].reset THEN 0 ELSE n

\* Mutation of TxFlag: full is noticed only by the next write.
TxFlagLate(k, after) == IF Room(k.tx) THEN k.status ELSE k.status \ {"TX_EMPTY"}

\* The status of card k once tx is what it is after a write.
TxFlag(k, after) == IF Room(after) THEN k.status ELSE k.status \ {"TX_EMPTY"}

\* A write to a full FIFO is dropped.
WriteData(c) ==
  LET k == card[c]
      after == IF Room(k.tx)
               THEN Append(k.tx, Number(c, seen[c].put + 1))
               ELSE k.tx
  IN  /\ ProgramRuns
      /\ k.state = "running"
      /\ seen[c].put < MaxByte
      /\ card' = [card EXCEPT ![c].tx = after, ![c].status = TxFlag(k, after)]
      /\ seen' = [seen EXCEPT ![c].put = IF Room(k.tx) THEN Number(c, @ + 1) ELSE @]
      /\ UNCHANGED <<lists, commands, thread_id, thread, conf, cpu>>

\* More to read interrupts again, without the status' flag.
ReadData(c) ==
  LET k == card[c] IN
  /\ ProgramRuns
  /\ k.state = "running"
  /\ k.rx # <<>>
  /\ card' = [card EXCEPT
       ![c].rx = Tail(@),
       ![c].irq = @ \/ (Tail(k.rx) # <<>> /\ "IRQ_R" \notin k.command)]
  /\ seen' = [seen EXCEPT ![c].got = Head(k.rx)]
  /\ UNCHANGED <<lists, commands, thread_id, thread, conf, cpu>>

ReadStatus(c) ==
  /\ ProgramRuns
  /\ card' = [card EXCEPT ![c].status = @ \ {"IRQ"}, ![c].irq = FALSE]
  /\ UNCHANGED <<lists, commands, thread_id, thread, conf, cpu, seen>>

\* Mutation of Interrupts: a receive interrupt only when tx is full too.
InterruptsFull(k) == k.rx # <<>> /\ ~Room(k.tx) /\ "IRQ_R" \notin k.command

\* Does the timer raise the line of card k?
Interrupts(k) ==
  \/ k.rx # <<>> /\ "IRQ_R" \notin k.command
  \/ Room(k.tx) /\ "IRQ_T" \in k.command

\* _mii_ssc_timer_cb: of a card that is not running, the timer stops for good.
Timer(c) ==
  LET k == card[c] IN
  /\ ProgramRuns
  /\ k.armed
  /\ card' = [card EXCEPT ![c] =
       IF k.state # "running" THEN [k EXCEPT !.armed = FALSE]
       ELSE [k EXCEPT !.irq = @ \/ Interrupts(k),
                      !.status = (IF Room(k.tx) THEN {"TX_EMPTY"} ELSE {})
                        \cup (IF Interrupts(k) THEN {"IRQ"} ELSE @ \ {"TX_EMPTY"})]]
  /\ UNCHANGED <<lists, commands, thread_id, thread, conf, cpu, seen>>

-----------------------------------------------------------------------------
(* _mii_scc_set_conf, in the CPU's thread or in the UI's: the tty is closed, *)
(* opened, and the FIFOs reset.                                              *)

\* The user saves the card's dialog: another device, or the same.
UiConf(c) ==
  /\ conf["ui"] = Idle
  /\ cpu.at = "run"
  /\ \E same \in BOOLEAN :
       /\ card' = [card EXCEPT ![c].open = @ /\ same]
       /\ conf' = [conf EXCEPT !["ui"] =
            [at |-> IF card'[c].open THEN "reset" ELSE "open", card |-> c]]
  /\ UNCHANGED <<lists, commands, thread_id, thread, cpu, seen>>

\* What the CPU does after set_conf, whatever it returned; c became k.
Continue(w, c, k) ==
  /\ conf' = [conf EXCEPT ![w] = Idle]
  /\ IF w = "cpu"
       THEN /\ ThreadStart(c, CommandSet(k, cpu.byte))
            /\ cpu' = [cpu EXCEPT !.byte = {}]
       ELSE /\ card' = [card EXCEPT ![c] = k]
            /\ UNCHANGED <<commands, thread_id, thread, cpu>>

OpenTty(w) ==
  /\ conf[w].at = "open"
  /\ card' = [card EXCEPT ![conf[w].card].open = TRUE]
  /\ conf' = [conf EXCEPT ![w].at = "reset"]
  /\ UNCHANGED <<lists, commands, thread_id, thread, cpu, seen>>

\* open() fails, unless the other thread has opened it.
OpenFails(w) ==
  LET c == conf[w].card IN
  /\ conf[w].at = "open"
  /\ ~card[c].open
  /\ Continue(w, c, card[c])
  /\ UNCHANGED <<lists, seen>>

\* What a FIFO of card c holds once both its cursors are stored: nothing;
\* or any number of the bytes that were in it, when the cursor of a thread
\* that was using it meanwhile is stored over the reset's, or before it.
AfterReset(c) ==
  {[i \in 1 .. n |-> 0] :
     n \in IF card[c].state = "init" THEN {0} ELSE 0 .. Capacity}

ResetFifos(w) ==
  LET c == conf[w].card IN
  /\ conf[w].at = "reset"
  /\ \E rx, tx \in AfterReset(c) :
       Continue(w, c, [card[c] EXCEPT !.rx = rx, !.tx = tx])
  /\ seen' = [seen EXCEPT ![c] = IF card[c].state = "init" THEN @ ELSE
                 [@ EXCEPT !.line = 0, !.got = 0, !.put = 0, !.out = 0, !.reset = TRUE]]
  /\ UNCHANGED lists

-----------------------------------------------------------------------------
(* The thread: commands, then what to wait for, select, and each card.      *)

\* Where the thread goes for card c of its list, or at the list's end.
Serve(c, r, w) ==
  [at |-> IF c = NoCard THEN "commands" ELSE IF c \in r THEN "read" ELSE "write",
   card |-> c, rfds |-> r, wfds |-> w, n |-> 0]

\* The loop over the cards goes on to the next one, or is left.
ServeNext == Serve(next[thread.card], thread.rfds, thread.wfds)
Leave == Serve(NoCard, {}, {})

TakeCommand ==
  LET c == Head(commands).card
      Becomes(s) == card' = [card EXCEPT ![c].state = s] /\ UNCHANGED thread
      Ends(at) == thread' = [thread EXCEPT !.at = at]
                  /\ UNCHANGED <<card, started, next>>
  IN  /\ thread.at = "commands"
      /\ commands # <<>>
      /\ commands' = Tail(commands)
      /\ CASE Head(commands).cmd = "start" ->
                /\ started' = InsertedIn(started, c)
                /\ next' = InsertedLinks(started, c)
                /\ Becomes("running")
           [] Head(commands).cmd = "stop" ->
                IF CanRemove(started, c)
                  THEN /\ started' = RemovedFrom(started, c)
                       /\ next' = RemovedLinks(started, c)
                       /\ Becomes("stopped")
                  ELSE Ends("crashed")
           [] Head(commands).cmd = "terminate" -> Ends("ended")
      /\ UNCHANGED <<slots, alive, thread_id, conf, cpu, seen>>

\* The descriptors to wait for: room to receive, something to send.
BuildSets ==
  LET served == {c \in Members(started) : card[c].open} IN
  /\ thread.at = "commands"
  /\ commands = <<>>
  /\ thread' = [thread EXCEPT !.at = "select",
                  !.rfds = {c \in served : Room(card[c].rx)},
                  !.wfds = {c \in served : card[c].tx # <<>>}]
  /\ UNCHANGED <<card, lists, commands, thread_id, conf, cpu, seen>>

\* select fails when a descriptor was closed meanwhile, and ends the thread;
\* else it returns what is ready, or nothing after a millisecond.
Select ==
  /\ thread.at = "select"
  /\ IF \E c \in thread.rfds \cup thread.wfds : ~card[c].open
       THEN thread' = [Leave EXCEPT !.at = "broken"]
       ELSE \E r \in SUBSET thread.rfds, w \in SUBSET thread.wfds :
              thread' = Serve(IF r \cup w = {} THEN NoCard ELSE started.first, r, w)
  /\ UNCHANGED <<card, lists, commands, thread_id, conf, cpu, seen>>

\* A tty that is open again has the number it had.
Ready(place, fds) ==
  thread.at = place /\ thread.card \in fds /\ card[thread.card].open

\* Nothing to do for this card: read, then write, then the next one.
Skip ==
  /\ \/ /\ thread.at = "read"
        /\ ~Ready("read", thread.rfds)
        /\ thread' = [thread EXCEPT !.at = "write", !.rfds = @ \ {thread.card}]
     \/ /\ thread.at = "write"
        /\ ~Ready("write", thread.wfds)
        /\ thread' = ServeNext
  /\ UNCHANGED <<card, lists, commands, thread_id, conf, cpu, seen>>

\* At most what there is room for is read from the line.
ReadLine ==
  LET c == thread.card IN
  /\ Ready("read", thread.rfds)
  /\ \E n \in 0 .. Capacity - Len(card[c].rx) :
       /\ seen[c].line + n <= MaxByte
       /\ card' = [card EXCEPT
            ![c].rx = @ \o [i \in 1 .. n |-> Number(c, seen[c].line + i)]]
       /\ seen' = [seen EXCEPT ![c].line = Number(c, @ + n)]
  /\ thread' = [thread EXCEPT !.at = "write", !.rfds = @ \ {c}]
  /\ UNCHANGED <<lists, commands, thread_id, conf, cpu>>

\* read fails: for now, or for good, when the tty is given up.
ReadFails ==
  /\ Ready("read", thread.rfds)
  /\ \E again \in BOOLEAN : card' = [card EXCEPT ![thread.card].open = again]
  /\ thread' = Leave
  /\ UNCHANGED <<lists, commands, thread_id, conf, cpu, seen>>

\* All of tx is offered to the line, which takes some.
WriteLine ==
  LET c == thread.card IN
  /\ Ready("write", thread.wfds)
  /\ \E n \in 0 .. Len(card[c].tx) :
       /\ seen' = [seen EXCEPT ![c].out = IF n = 0 THEN @ ELSE card[c].tx[n]]
       /\ thread' = [thread EXCEPT !.at = "remove", !.wfds = @ \ {c}, !.n = n]
  /\ UNCHANGED <<card, lists, commands, thread_id, conf, cpu>>

WriteFails ==
  /\ Ready("write", thread.wfds)
  /\ thread' = Leave
  /\ UNCHANGED <<card, lists, commands, thread_id, conf, cpu, seen>>

\* Mutation of Left: one byte too few is removed.
LeftOneMore(fifo, n) == SubSeq(fifo, IF n = 0 THEN 1 ELSE n, Len(fifo))

\* tx without the bytes that were sent.
Left(fifo, n) == SubSeq(fifo, n + 1, Len(fifo))

\* More is read, or peeked at, than the thread's buffer holds.  What that
\* does is undefined: no harm, as above, or the thread is lost.
Overrun ==
  LET c == thread.card IN
  /\ \/ /\ Ready("read", thread.rfds)
        /\ Capacity - Len(card[c].rx) > Chunk
        /\ seen[c].line + Chunk < MaxByte
     \/ /\ Ready("write", thread.wfds)
        /\ Len(card[c].tx) > Chunk
  /\ thread' = [thread EXCEPT !.at = "overrun"]
  /\ UNCHANGED <<card, lists, commands, thread_id, conf, cpu, seen>>

RemoveSent ==
  /\ thread.at = "remove"
  /\ card' = [card EXCEPT ![thread.card].tx = Left(@, thread.n)]
  /\ thread' = ServeNext
  /\ UNCHANGED <<lists, commands, thread_id, conf, cpu, seen>>

-----------------------------------------------------------------------------
(* mii_dispose, at the end of the emulator's thread: each card in turn.     *)

\* No dialog is being saved when the machine goes.
Dispose ==
  /\ ProgramRuns
  /\ conf["ui"] = Idle
  /\ cpu' = [at |-> "unlink", card |-> 1, byte |-> {}]
  /\ UNCHANGED <<card, lists, commands, thread_id, thread, conf, seen>>

\* A card that the thread has not started yet is not stopped.
MustStop(c) == card[c].state = "running"

Unlink ==
  LET c == cpu.card IN
  /\ cpu.at = "unlink"
  /\ seen' = [seen EXCEPT ![c].early = @ \/ card[c].state = "start"]
  /\ IF CanRemove(slots, c)
       THEN /\ slots' = RemovedFrom(slots, c)
            /\ next' = RemovedLinks(slots, c)
            /\ cpu' = [cpu EXCEPT !.at = IF MustStop(c) THEN "stop" ELSE "last"]
            /\ commands' = IF MustStop(c)
                 THEN Append(commands, [cmd |-> "stop", card |-> c]) ELSE commands
       ELSE /\ cpu' = [cpu EXCEPT !.at = "crashed"]
            /\ UNCHANGED <<slots, next, commands>>
  /\ UNCHANGED <<card, started, alive, thread_id, thread, conf>>

\* Mutation of LetGo: the state to wait for is the first one.
LetGoUnused(c) == card[c].state = "init"

\* Does the thread no longer serve the card?
LetGo(c) == card[c].state # "running"

AwaitStop ==
  /\ cpu.at = "stop"
  /\ LetGo(cpu.card)
  /\ cpu' = [cpu EXCEPT !.at = "last"]
  /\ UNCHANGED <<card, lists, commands, thread_id, thread, conf, seen>>

\* Mutation of LastCard: the thread is left running.
LastCardNever == FALSE

\* The last card of the list ends the thread.
LastCard == slots.first = NoCard /\ thread_id

EndThread ==
  /\ cpu.at = "last"
  /\ IF LastCard
       THEN /\ thread_id' = FALSE
            /\ commands' = Append(commands, [cmd |-> "terminate", card |-> NoCard])
            /\ cpu' = [cpu EXCEPT !.at = "join"]
       ELSE /\ cpu' = [cpu EXCEPT !.at = "free"]
            /\ UNCHANGED <<thread_id, commands>>
  /\ UNCHANGED <<card, lists, thread, conf, seen>>

Join ==
  /\ cpu.at = "join"
  /\ thread.at \in {"ended", "broken"}
  /\ cpu' = [cpu EXCEPT !.at = "free"]
  /\ UNCHANGED <<card, lists, commands, thread_id, thread, conf, seen>>

Free ==
  LET c == cpu.card IN
  /\ cpu.at = "free"
  /\ alive' = alive \ {c}
  /\ cpu' = IF c < Cards THEN [cpu EXCEPT !.at = "unlink", !.card = c + 1]
                         ELSE [cpu EXCEPT !.at = "gone", !.card = NoCard]
  /\ UNCHANGED <<card, next, slots, started, commands, thread_id, thread, conf, seen>>

-----------------------------------------------------------------------------
Program(c) ==
  \/ \E byte \in Bytes : WriteCommand(c, byte)
  \/ SelectRom(c)
  \/ ReadDipsw(c)
  \/ WriteData(c)
  \/ ReadData(c)
  \/ ReadStatus(c)

Configure(w) == OpenTty(w) \/ OpenFails(w) \/ ResetFifos(w)

Thread ==
  \/ TakeCommand \/ BuildSets \/ Select \/ Skip
  \/ ReadLine \/ ReadFails
  \/ WriteLine \/ WriteFails \/ Overrun \/ RemoveSent

Disposal == Unlink \/ AwaitStop \/ EndThread \/ Join \/ Free

SscNext ==
  \/ \E c \in Card : Program(c) \/ Timer(c) \/ UiConf(c)
  \/ \E w \in {"cpu", "ui"} : Configure(w)
  \/ Thread
  \/ Dispose
  \/ Disposal

\* The threads run.  A timer is counted down by every instruction, so the
\* program's accesses between two of its periods cannot put it off for ever.
SscSpec ==
  /\ SscInit /\ [][SscNext]_sscvars
  /\ WF_sscvars(Thread) /\ WF_sscvars(Disposal) /\ WF_sscvars(Configure("cpu"))
  /\ \A c \in Card : SF_sscvars(Timer(c))

-----------------------------------------------------------------------------
Consecutive(s) == \A i \in 1 .. Len(s) - 1 : s[i + 1] = s[i] + 1

\* What has been received, and what has been sent: the last byte delivered,
\* those under way, and the next one to come.
Received(c) == <<seen[c].got>> \o card[c].rx \o <<seen[c].line + 1>>
Sent(c) ==
  <<seen[c].out>> \o (IF thread.at = "remove" /\ thread.card = c
                        THEN Left(card[c].tx, thread.n) ELSE card[c].tx)
    \o <<seen[c].put + 1>>

(***************************************************************************)
(* However the thread, the program and the UI interleave, no byte is lost, *)
(* received or sent twice, or before an earlier one, on a card that was    *)
(* not reconfigured while in use and as long as the thread did not overrun *)
(* its buffer.                                                             *)
(***************************************************************************)
InOrder ==
  \A c \in Card : ~seen[c].reset => Consecutive(Received(c)) /\ Consecutive(Sent(c))

(***************************************************************************)
(* A program that writes when the status says that the transmitter is      *)
(* empty is not writing to a full FIFO, which would drop the byte; unless  *)
(* the card was reconfigured while in use.                                 *)
(***************************************************************************)
EmptyMeansRoom ==
  \A c \in Card : ~seen[c].reset /\ "TX_EMPTY" \in card[c].status =>
                   Len(card[c].tx) < Capacity

\* Does the thread use card c, or will a command make it?
Meets(c) ==
  \/ c \in Members(started)
  \/ thread.card = c
  \/ \E i \in DOMAIN commands : commands[i].card = c

(***************************************************************************)
(* The thread never meets a card that was freed: dispose lets go of a card *)
(* only once the thread did, or ended, although the list of all cards and  *)
(* the thread's list share their links.  There is one exception: when      *)
(* there are other cards, a card that was started and is let go before the *)
(* thread took its start.                                                  *)
(***************************************************************************)
UsedIsAlive ==
  thread.at \notin {"none", "ended", "broken"} =>
    \A c \in Card \ alive : Meets(c) => seen[c].early /\ Cards > 1

(***************************************************************************)
(* What came in interrupts the program, or is read by it, as long as the   *)
(* program wants interrupts and the timer was not stopped by a slow start. *)
(***************************************************************************)
Awaits(k) ==
  k.rx # <<>> /\ k.armed /\ k.state = "running" /\ "IRQ_R" \notin k.command
DataInterrupts ==
  \A c \in Card :
    Awaits(card[c]) ~> card[c].irq \/ ~Awaits(card[c]) \/ cpu.at # "run"

(***************************************************************************)
(* dispose() of one card comes back: the thread lets go of it and ends,    *)
(* unless a tty closed under its select, or its own buffer overrun, ended  *)
(* it earlier.                                                             *)
(***************************************************************************)
DisposeReturns ==
  cpu.at = "unlink" ~> cpu.at = "gone" \/ thread.at \in {"broken", "overrun"}

=============================================================================
