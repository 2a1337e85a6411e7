--------------------------- MODULE InterruptsProofs ---------------------------
(***************************************************************************)
(* Proofs about the interrupt path, for any set of sources and any depth   *)
(* of nested handlers.                                                     *)
(***************************************************************************)
EXTENDS Interrupts, SequenceTheorems, TLAPS

(***************************************************************************)
(* The inductive invariant.  An RTI about to run has a frame to pull.  A   *)
(* dispatch made while nothing was raised leaves the line off, and off it  *)
(* stays until a source is raised or a BRK sets it for itself; so there    *)
(* is no second spurious dispatch.                                         *)
(***************************************************************************)
RtiHasFrame == at = "execute" /\ IR = "RTI" => frames # <<>>
BrkAtBoundary == IRQ # None => at = "next"
SpuriousSpent == /\ spurious <= 1
                 /\ spurious = 1 /\ IRQ = None => ~irq

IInv ==
  /\ TypeOK
  /\ RtiHasFrame
  /\ BrkAtBoundary
  /\ LineCoversSources
  /\ SpuriousSpent

LEMMA InitIInv == Init => IInv
  <1> SUFFICES ASSUME Init PROVE IInv
    OBVIOUS
  <1>1. frames \in Seq(Frame)
    BY DEF Init
  <1>2. TypeOK
    BY <1>1 DEF Init, TypeOK, None
  <1>3. SpuriousSpent
    <2>1. spurious <= 1 /\ spurious # 1
      BY DEF Init
    <2>. QED
      BY <2>1 DEF SpuriousSpent
  <1>. QED
    BY <1>2, <1>3 DEF Init, IInv, RtiHasFrame, BrkAtBoundary,
                      LineCoversSources, None

\* What the accesses of a phase leave behind, whatever line they were handed.
LEMMA AccessEffect ==
  ASSUME NEW line \in BOOLEAN, NEW up \in SUBSET Lines,
         NEW down \in SUBSET Lines, TypeOK, Access(line, up, down)
  PROVE  /\ raised' \subseteq Lines
         /\ irq' \in BOOLEAN
         /\ irq' <=> (line \/ raised' # {})
  BY DEF Access, TypeOK, irq_raise, irq_clear, Latch

\* The history variable only ever counts a dispatch with nothing raised.
LEMMA HistoryEffect ==
  ASSUME NEW taken \in BOOLEAN, TypeOK, History(taken)
  PROVE  /\ spurious' \in Nat
         /\ raised' # {} => spurious' = 0
         /\ raised' = {} /\ taken => spurious' = spurious + 1
         /\ raised' = {} /\ ~taken => spurious' = spurious
  BY DEF History, TypeOK

LEMMA NextIInv == IInv /\ [Next]_vars => IInv'
  <1> SUFFICES ASSUME IInv, [Next]_vars
               PROVE  IInv'
    OBVIOUS
  <1> USE DEF None
  <1>0. TypeOK
    BY DEF IInv
  <1>1. ASSUME NEW up \in SUBSET Lines, TakeInterrupt(up)
        PROVE  IInv'
    <2>1. /\ raised' \subseteq Lines
          /\ irq' \in BOOLEAN
          /\ irq' <=> raised' # {}
      BY <1>0, <1>1, AccessEffect DEF TakeInterrupt, DispatchLine
    <2>2. /\ spurious' \in Nat
          /\ raised' # {} => spurious' = 0
          /\ raised' = {} /\ Pending = "irq" => spurious' = spurious + 1
          /\ raised' = {} /\ Pending # "irq" => spurious' = spurious
      BY <1>0, <1>1, HistoryEffect DEF TakeInterrupt
    <2>3. [I |-> I, prev |-> prev] \in Frame
      BY <1>0 DEF TypeOK, Frame
    <2>4. frames' \in Seq(Frame)
      BY <1>0, <1>1, <2>3, AppendProperties DEF TakeInterrupt, TypeOK
    <2>5. TypeOK'
      BY <1>0, <1>1, <2>1, <2>2, <2>4 DEF TakeInterrupt, TypeOK
    <2>6. SpuriousSpent'
      BY <1>0, <1>1, <2>1, <2>2 DEF IInv, SpuriousSpent, TakeInterrupt,
                                    Pending, TypeOK
    <2>. QED
      BY <1>1, <2>1, <2>5, <2>6 DEF IInv, TakeInterrupt, RtiHasFrame,
                                    BrkAtBoundary, LineCoversSources
  \* The other steps keep the line, so one argument serves them all.
  <1>2. ASSUME NEW up \in SUBSET Lines, NEW down \in SUBSET Lines,
               Access(irq, up, down), History(FALSE), UNCHANGED IRQ
        PROVE  /\ raised' \subseteq Lines
               /\ irq' \in BOOLEAN
               /\ spurious' \in Nat
               /\ LineCoversSources'
               /\ SpuriousSpent'
    <2>1. /\ raised' \subseteq Lines
          /\ irq' \in BOOLEAN
          /\ irq' <=> (irq \/ raised' # {})
      BY <1>0, <1>2, AccessEffect DEF TypeOK
    <2>2. /\ spurious' \in Nat
          /\ raised' # {} => spurious' = 0
          /\ raised' = {} => spurious' = spurious
      BY <1>0, <1>2, HistoryEffect DEF TypeOK
    <2>3. LineCoversSources'
      BY <2>1 DEF LineCoversSources
    <2>4. CASE raised' = {}
      BY <1>2, <2>1, <2>2, <2>3, <2>4 DEF IInv, SpuriousSpent
    <2>5. CASE raised' # {}
      BY <2>1, <2>2, <2>3, <2>5 DEF SpuriousSpent
    <2>. QED
      BY <2>4, <2>5
  <1>3. ASSUME NEW op \in Opcode, NEW up \in SUBSET Lines, Fetch(op, up)
        PROVE  IInv'
    <2>1. /\ raised' \subseteq Lines
          /\ irq' \in BOOLEAN
          /\ spurious' \in Nat
          /\ LineCoversSources'
          /\ SpuriousSpent'
      BY <1>3, <1>2 DEF Fetch
    <2>2. TypeOK'
      BY <1>0, <1>3, <2>1 DEF Fetch, TypeOK
    <2>3. RtiHasFrame' /\ BrkAtBoundary'
      BY <1>0, <1>3 DEF Fetch, Pending, IInv, RtiHasFrame, BrkAtBoundary, TypeOK
    <2>. QED
      BY <2>1, <2>2, <2>3 DEF IInv
  <1>4. ASSUME NEW up \in SUBSET Lines, Plain(up)
        PROVE  IInv'
    <2>1. /\ raised' \subseteq Lines
          /\ irq' \in BOOLEAN
          /\ spurious' \in Nat
          /\ LineCoversSources'
          /\ SpuriousSpent'
      BY <1>4, <1>2 DEF Plain
    <2>. QED
      BY <1>0, <1>4, <2>1 DEF Plain, Retire, TypeOK, IInv, RtiHasFrame,
                              BrkAtBoundary
  <1>5. ASSUME NEW up \in SUBSET Lines, NEW down \in SUBSET Lines,
               Device(up, down)
        PROVE  IInv'
    <2>1. /\ raised' \subseteq Lines
          /\ irq' \in BOOLEAN
          /\ spurious' \in Nat
          /\ LineCoversSources'
          /\ SpuriousSpent'
      BY <1>5, <1>2 DEF Device
    <2>. QED
      BY <1>0, <1>5, <2>1 DEF Device, Retire, TypeOK, IInv, RtiHasFrame,
                              BrkAtBoundary
  <1>6. ASSUME NEW up \in SUBSET Lines, Brk(up)
        PROVE  IInv'
    <2>1. /\ spurious' \in Nat
          /\ raised' # {} => spurious' = 0
          /\ raised' = {} => spurious' = spurious
      BY <1>0, <1>6, HistoryEffect DEF Brk
    <2>2. SpuriousSpent'
      <3>1. IRQ' # "none"
        BY <1>6 DEF Brk
      <3>2. spurious' <= 1
        BY <1>0, <2>1 DEF IInv, SpuriousSpent, TypeOK
      <3>. QED
        BY <3>1, <3>2 DEF SpuriousSpent
    <2>3. TypeOK'
      BY <1>0, <1>6, <2>1 DEF Brk, Retire, irq_raise, TypeOK
    <2>. QED
      BY <1>6, <2>2, <2>3 DEF Brk, Retire, IInv, RtiHasFrame, BrkAtBoundary,
                              LineCoversSources
  <1>7. ASSUME NEW up \in SUBSET Lines, Rti(up)
        PROVE  IInv'
    <2>1. /\ raised' \subseteq Lines
          /\ irq' \in BOOLEAN
          /\ spurious' \in Nat
          /\ LineCoversSources'
          /\ SpuriousSpent'
      BY <1>7, <1>2 DEF Rti
    <2>2. frames \in Seq(Frame) /\ frames # <<>>
      BY <1>7 DEF IInv, TypeOK, RtiHasFrame, Rti
    <2>3. Len(frames) \in 1 .. Len(frames)
      BY <2>2, EmptySeq, LenProperties
    <2>4. frames[Len(frames)] \in Frame
      BY <2>2, <2>3, ElementOfSeq
    <2>5. I' \in BOOLEAN /\ prev' \in Opcode \cup {None}
      BY <1>7, <2>4 DEF Rti, Frame
    <2>6. frames' \in Seq(Frame)
      BY <1>7, <2>2, <2>3, SubSeqProperties DEF Rti
    <2>7. TypeOK'
      BY <1>0, <1>7, <2>1, <2>5, <2>6 DEF Rti, TypeOK, Opcode
    <2>. QED
      BY <1>0, <1>7, <2>1, <2>7 DEF Rti, IInv, RtiHasFrame, BrkAtBoundary
  <1>8. ASSUME NEW up \in SUBSET Lines, Reset(up)
        PROVE  IInv'
    <2>1. /\ raised' \subseteq Lines
          /\ irq' \in BOOLEAN
          /\ spurious' \in Nat
          /\ LineCoversSources'
          /\ SpuriousSpent'
      BY <1>8, <1>2 DEF Reset
    <2>2. frames' \in Seq(Frame)
      BY <1>8 DEF Reset
    <2>. QED
      BY <1>0, <1>8, <2>1, <2>2 DEF Reset, TypeOK, IInv, RtiHasFrame,
                                    BrkAtBoundary
  <1>9. CASE UNCHANGED vars
    BY <1>9 DEF vars, IInv, TypeOK, RtiHasFrame, BrkAtBoundary,
                LineCoversSources, SpuriousSpent
  <1>. QED
    BY <1>1, <1>3, <1>4, <1>5, <1>6, <1>7, <1>8, <1>9 DEF Next

THEOREM Invariant == Spec => []IInv
  BY InitIInv, NextIInv, PTL DEF Spec

(***************************************************************************)
(* Every variable keeps its type: in particular RTI only ever restores a   *)
(* frame that a dispatch pushed.                                           *)
(***************************************************************************)
THEOREM TypeCorrect == Spec => []TypeOK
  <1>1. IInv => TypeOK
    BY DEF IInv
  <1>. QED
    BY <1>1, Invariant, PTL

(***************************************************************************)
(* The CPU's line is never off while a driver holds a source raised.       *)
(***************************************************************************)
THEOREM LineCovers == Spec => []LineCoversSources
  <1>1. IInv => LineCoversSources
    BY DEF IInv
  <1>. QED
    BY <1>1, Invariant, PTL

(***************************************************************************)
(* Between two raises of any source at most one IRQ is dispatched with no  *)
(* source raised, however the handlers nest and whatever they do.          *)
(***************************************************************************)
THEOREM SpuriousBounded == Spec => []AtMostOneSpurious
  <1>1. IInv => AtMostOneSpurious
    BY DEF IInv, SpuriousSpent, AtMostOneSpurious
  <1>. QED
    BY <1>1, Invariant, PTL

(***************************************************************************)
(* No lost interrupt: with a source raised and interrupts enabled, the     *)
(* next phase is never the execution of another instruction.               *)
(***************************************************************************)
THEOREM NothingLost == Spec => NoLostInterrupt
  <1> DEFINE Prompt == at = "next" /\ raised # {} /\ ~I => at' # "execute"
  <1>1. IInv /\ [Next]_vars => [Prompt]_vars
    <2> SUFFICES ASSUME IInv, Next, at = "next", raised # {}, ~I
                 PROVE  at' # "execute"
      OBVIOUS
    <2>1. Pending # None
      BY DEF IInv, TypeOK, LineCoversSources, Pending, None
    <2>. QED
      BY <2>1 DEF Next, TakeInterrupt, Fetch, Plain, Device, Brk, Rti, Reset
  <1>. QED
    BY <1>1, Invariant, PTL DEF Spec, NoLostInterrupt

===============================================================================
