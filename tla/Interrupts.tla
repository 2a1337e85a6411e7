----------------------------- MODULE Interrupts -----------------------------
(***************************************************************************)
(* The interrupt path of the emulator: the IRQ multiplexer of mii.c, the   *)
(* interrupt line kept in the CPU state (mii->cpu_state.irq), the dispatch *)
(* at the head of mii_cpu_run and the two-NOP trap it recognises.          *)
(*                                                                         *)
(* Drivers raise and clear lines only while the CPU makes a bus access:    *)
(* from a cycle timer, which the access callback runs first, or from the   *)
(* soft switch the access reaches.  So one step is one instruction phase   *)
(* and every phase carries the accesses it makes.                          *)
(***************************************************************************)
EXTENDS Naturals, Sequences

CONSTANTS
  Lines,      \* the IRQ numbers handed out by mii_irq_register
  MaxFrames   \* bound: how deep the program lets handlers nest

ASSUME FramesAssumption == MaxFrames \in Nat \ {0}

VARIABLES
  raised,     \* mii->irq.raised, as a set of lines
  irq,        \* s.irq: the CPU's interrupt line, a latch
  IRQ,        \* cpu->IRQ: "none", or "brk" between a BRK and its dispatch
  I,          \* cpu->P.I
  frames,     \* what interrupts pushed and RTI pulls: I, and (history) prev
  at,         \* phase of mii_cpu_run: "next", "vectored" or "execute"
  IR,         \* cpu->IR, the opcode being executed
  ir_log,     \* the opcode fetched before IR: the high byte of the trap test
  prev,       \* history: the opcode before IR in program order, as opposed to
              \* fetch order, which interrupt handlers cut into
  spurious    \* history: IRQs dispatched since a line was last raised

vars == <<raised, irq, IRQ, I, frames, at, IR, ir_log, prev, spurious>>

(***************************************************************************)
(* Opcodes by what they do here: the two trap NOPs, the flag operations,   *)
(* BRK and RTI, an access to a device's soft switch, and all the others.   *)
(***************************************************************************)
Opcode == {"EB", "FB", "CLI", "SEI", "BRK", "RTI", "device", "other"}
None == "none"

Frame == [I : BOOLEAN, prev : Opcode \cup {None}]

TypeOK ==
  /\ raised \subseteq Lines
  /\ irq \in BOOLEAN
  /\ IRQ \in {None, "brk"}
  /\ I \in BOOLEAN
  /\ frames \in Seq(Frame)
  /\ at \in {"next", "vectored", "execute"}
  /\ IR \in Opcode \cup {None}
  /\ ir_log \in Opcode \cup {None}
  /\ prev \in Opcode \cup {None}
  /\ spurious \in Nat

Init ==
  /\ raised = {}
  /\ irq = FALSE
  /\ IRQ = None
  /\ I = FALSE
  /\ frames = <<>>
  /\ at = "next"
  /\ IR = None
  /\ ir_log = None
  /\ prev = None
  /\ spurious = 0

-----------------------------------------------------------------------------
(***************************************************************************)
(* One or more bus accesses.  Timers run before the access and may raise   *)
(* the lines in up; the soft switch reached may then clear the lines in    *)
(* down.  The callback last ors the multiplexer into the line it was       *)
(* handed, line.                                                           *)
(***************************************************************************)
irq_raise(up) == raised \cup up

irq_clear(set, down) == set \ down

\* Mutation of Latch: the multiplexer is looked at before the access.
LatchEarly(line, lines) == line \/ raised # {}

Latch(line, lines) == line \/ lines # {}

Access(line, up, down) ==
  /\ raised' = irq_clear(irq_raise(up), down)
  /\ irq' = Latch(line, raised')

\* Mutation of Pending: handlers do not nest.
PendingFlat ==
  IF IRQ = None /\ irq /\ ~I /\ frames = <<>> THEN "irq" ELSE IRQ

\* The interrupt the dispatch finds: a BRK just executed, or the line when
\* the program has interrupts enabled.
Pending == IF IRQ = None /\ irq /\ ~I THEN "irq" ELSE IRQ

\* Mutation of DispatchLine: s.irq is not cleared.
DispatchLineKept == irq

\* The line handed to the three pushes of the dispatch: s.irq was cleared.
DispatchLine == FALSE

\* Is op the second NOP of a trap?
IsTrap(op) == ir_log = "EB" /\ op = "FB"

History(taken) ==
  spurious' = IF raised' # {} THEN 0 ELSE spurious + (IF taken THEN 1 ELSE 0)

\* Dispatch an IRQ or a BRK: push PC and P, set I, fetch the vector.
TakeInterrupt(up) ==
  /\ at = "next"
  /\ Pending # None
  /\ Access(DispatchLine, up, {})
  /\ frames' = Append(frames, [I |-> I, prev |-> prev])
  /\ I' = TRUE
  /\ IRQ' = None
  /\ at' = "vectored"
  /\ prev' = None
  /\ History(Pending = "irq")
  /\ UNCHANGED <<IR, ir_log>>

\* Fetch an opcode.  A trap makes mii_cpu_run return to mii_run, whose
\* handler skips the trap byte; the next call starts at next_instruction.
Fetch(op, up) ==
  /\ \/ at = "next" /\ Pending = None
     \/ at = "vectored"
  /\ op \in {"CLI", "BRK"} => Len(frames) < MaxFrames
  /\ op = "RTI" => frames # <<>>
  /\ Access(irq, up, {})
  /\ IF IsTrap(op)
       THEN at' = "next" /\ ir_log' = None /\ IR' = None /\ prev' = None
       ELSE at' = "execute" /\ IR' = op /\ UNCHANGED <<ir_log, prev>>
  /\ History(FALSE)
  /\ UNCHANGED <<IRQ, I, frames>>

\* The instruction is over: it is now the last one, in both orders.
Retire ==
  /\ at' = "next"
  /\ IR' = None
  /\ ir_log' = IR
  /\ prev' = IR

\* An instruction that reaches no device; CLI and SEI set the flag after
\* their dummy fetch.
Plain(up) ==
  /\ at = "execute"
  /\ IR \in {"EB", "FB", "CLI", "SEI", "other"}
  /\ Access(irq, up, {})
  /\ I' = IF IR \in {"CLI", "SEI"} THEN IR = "SEI" ELSE I
  /\ Retire
  /\ History(FALSE)
  /\ UNCHANGED <<IRQ, frames>>

\* An access to a card: it may clear lines (mouse service, SSC status) and,
\* through the timers or by itself (SSC data with more waiting), raise some.
Device(up, down) ==
  /\ at = "execute"
  /\ IR = "device"
  /\ Access(irq, up, down)
  /\ Retire
  /\ History(FALSE)
  /\ UNCHANGED <<IRQ, I, frames>>

\* BRK raises the line itself, after its last access, and is dispatched at
\* once whatever I says.
Brk(up) ==
  /\ at = "execute"
  /\ IR = "BRK"
  /\ raised' = irq_raise(up)
  /\ irq' = TRUE
  /\ IRQ' = "brk"
  /\ Retire
  /\ History(FALSE)
  /\ UNCHANGED <<I, frames>>

Rti(up) ==
  /\ at = "execute"
  /\ IR = "RTI"
  /\ Access(irq, up, {})
  /\ LET top == frames[Len(frames)]
     IN I' = top.I /\ prev' = top.prev
  /\ frames' = SubSeq(frames, 1, Len(frames) - 1)
  /\ at' = "next"
  /\ IR' = None
  /\ ir_log' = "RTI"
  /\ History(FALSE)
  /\ UNCHANGED IRQ

\* mii_reset between two runs, then the reset branch of mii_cpu_run: two
\* vector fetches, P = 0, a fresh stack.  Neither the multiplexer nor the
\* line is touched.
Reset(up) ==
  /\ at = "next"
  /\ Access(irq, up, {})
  /\ I' = FALSE
  /\ frames' = <<>>
  /\ prev' = None
  /\ at' = "next"
  /\ History(FALSE)
  /\ UNCHANGED <<IRQ, IR, ir_log>>

Next ==
  \E up \in SUBSET Lines :
    \/ TakeInterrupt(up)
    \/ \E op \in Opcode : Fetch(op, up)
    \/ Plain(up)
    \/ \E down \in SUBSET Lines : Device(up, down)
    \/ Brk(up)
    \/ Rti(up)
    \/ Reset(up)

Spec == Init /\ [][Next]_vars

-----------------------------------------------------------------------------
(***************************************************************************)
(* Between two accesses the line covers the multiplexer: no driver's       *)
(* request is ever raised without the CPU's line being set as well.        *)
(***************************************************************************)
LineCoversSources == raised # {} => irq

(***************************************************************************)
(* No lost interrupt: with a source raised and interrupts enabled the CPU  *)
(* never starts another instruction first; the next step is the dispatch   *)
(* (or a reset).                                                           *)
(***************************************************************************)
NoLostInterrupt ==
  [][at = "next" /\ raised # {} /\ ~I => at' # "execute"]_vars

(***************************************************************************)
(* A source that has been serviced costs at most one spurious interrupt:   *)
(* the pushes of a dispatch made with no source raised leave the line off. *)
(***************************************************************************)
AtMostOneSpurious == spurious <= 1

=============================================================================
