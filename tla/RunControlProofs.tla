-------------------------- MODULE RunControlProofs --------------------------
(***************************************************************************)
(* Proofs about RunControl, for a machine driven by its UI, by mish's      *)
(* "step" and by its breakpoints.  The other commands write mii->state or  *)
(* cpu_state over whatever the regulator is about, and break these.        *)
(***************************************************************************)
EXTENDS RunControl, SequenceTheorems, TLAPS

\* Where a request for a reset is kept, by where the regulator is: in
\* cpu_state outside mii_cpu_run, in the CPU's copy when it has just begun.
ResetPlace ==
  /\ pc \notin Inside => (asked => reset)
  /\ pc = "next" => (asked => s_reset)
  /\ pc \in {"access", "answer", "retire"} => ~asked

\* A machine stopped inside an instruction has no other to run.
StopPlace ==
  /\ pc = "next" => state # "STOPPED"
  /\ pc \in {"access", "answer", "retire"} /\ state = "STOPPED"
       => instruction_run = 0

\* How many steps the command in force had counted without being run.
Gap == IF promise = "short" THEN 1 ELSE 0

\* The steps owed and the steps counted, by where the regulator is, for a
\* command that can count on them.
StepPlace ==
  promise # "none" =>
    /\ state = "STEP" /\ pc \in {"signals", "run"} \cup Inside
         => owed = step_inst + Gap
    /\ state = "STEP" /\ pc \in Inside => instruction_run = 0
    /\ state = "STEP" => pc \notin {"start", "dispose", "gone"}
    /\ state = "STEP" /\ pc = "switch" => owed + 1 = step_inst + Gap
    /\ pc = "step" => owed + 1 = step_inst + Gap

\* A machine whose thread has not started, or is over, is not stopped; and
\* while a step is counted nobody stops it.
StillPlace == state = "STOPPED" => pc \notin {"start", "step", "dispose", "gone"}

IInv ==
  /\ TypeOK
  /\ typed \in {"none", "STEP"}
  /\ ResetPlace /\ StopPlace /\ StepPlace /\ StillPlace

-----------------------------------------------------------------------------
\* The fifo of signals: one taken, one put in it.
LEMMA Taken ==
  ASSUME signals \in Seq(Signal), signals # <<>>, Len(signals) <= Capacity
  PROVE  /\ Tail(signals) \in Seq(Signal)
         /\ Len(Tail(signals)) <= Capacity
         /\ Head(signals) \in Signal
  BY CapacityAssumption, HeadTailProperties, LenProperties

LEMMA Put ==
  ASSUME signals \in Seq(Signal), NEW sig \in Signal, Len(signals) < Capacity
  PROVE  /\ Append(signals, sig) \in Seq(Signal)
         /\ Len(Append(signals, sig)) <= Capacity
  BY CapacityAssumption, AppendProperties, LenProperties

\* The machine starts in the invariant.
LEMMA Opening == Init => IInv
<1> SUFFICES ASSUME Init PROVE IInv
  OBVIOUS
<1>1. signals \in Seq(Signal) /\ Len(signals) <= Capacity
  <2>1. signals = <<>>
    BY DEF Init
  <2> QED
    BY <2>1, CapacityAssumption
<1>2. TypeOK
  <2>1. step_inst \in 0 .. MaxStep /\ instruction_run \in 0 .. Batch
        /\ owed \in -1 .. MaxStep
    BY BatchAssumption, StepAssumption DEF Init
  <2>2. /\ state \in State /\ pc \in Place /\ bp \in SUBSET Kind
        /\ ui \in {"loop", "joining", "done"}
        /\ typed \in {"none", "RUNNING", "STEP", "reset"}
        /\ promise \in {"exact", "short", "none"}
    BY DEF Init, State, Place
  <2>3. reset \in BOOLEAN /\ s_reset \in BOOLEAN /\ asked \in BOOLEAN
    BY Zenon DEF Init
  <2> QED
    BY <1>1, <2>1, <2>2, <2>3 DEF TypeOK
<1>3. typed = "none" /\ ResetPlace /\ StopPlace /\ StepPlace /\ StillPlace
  BY DEF Init, ResetPlace, StopPlace, StepPlace, StillPlace, Inside
<1> QED
  BY <1>2, <1>3 DEF IInv

\* Every step of the regulator and of the UI keeps the invariant.
LEMMA Preserved ==
  ASSUME Shell \subseteq {"step", "bp"}, IInv, [Next]_vars
  PROVE  IInv'
<1> USE CapacityAssumption, BatchAssumption, StepAssumption
<1> USE DEF IInv, TypeOK, ResetPlace, StopPlace, StepPlace, StillPlace, Gap,
            State, Place, Inside, steps
<1>1. CASE Start
  BY <1>1 DEF Start, Kind, Signal
<1>2. CASE TakeSignal
  <2>1. /\ Tail(signals) \in Seq(Signal)
        /\ Len(Tail(signals)) <= Capacity
        /\ Head(signals) \in Signal
    BY <1>2, Taken DEF TakeSignal
  <2>2. /\ pc = "signals" /\ pc' = pc
        /\ signals' = Tail(signals)
        /\ UNCHANGED <<instruction_run, s_reset, ui, typed>>
    BY <1>2 DEF TakeSignal
  <2>3. \/ reset' = TRUE /\ asked' = TRUE
        \/ UNCHANGED <<reset, asked>>
    BY <1>2 DEF TakeSignal
  <2>4. \/ state' \in {"RUNNING", "STOPPED"} /\ UNCHANGED <<steps, bp>>
        \/ CpuStep(1) \/ CpuNext
    BY <1>2, <2>1 DEF TakeSignal, Signal
  <2>5. \/ state' \in {"RUNNING", "STOPPED"} /\ UNCHANGED <<step_inst, owed, promise>>
        \/ state' = "STEP" /\ step_inst' = 1 /\ owed' = 1 /\ promise' = "exact"
        \/ UNCHANGED <<state, step_inst, owed, promise>>
    BY <2>2, <2>4 DEF CpuStep, CpuNext, StepFrom
  <2>6. bp' \in SUBSET Kind
    BY <2>4 DEF CpuStep, CpuNext, StepFrom, Kind
  <2>7. TypeOK'
    <3>1. /\ state' \in State /\ step_inst' \in 0 .. MaxStep
          /\ owed' \in -1 .. MaxStep /\ promise' \in {"exact", "short", "none"}
      BY <2>5
    <3> QED
      BY <2>1, <2>2, <2>3, <2>6, <3>1
  <2>8. ResetPlace'
    BY <2>2, <2>3
  <2>9. StopPlace' /\ StepPlace' /\ StillPlace' /\ typed' = typed
    BY <2>2, <2>5
  <2> QED
    BY <2>7, <2>8, <2>9
<1>3. CASE NoSignal
  BY <1>3 DEF NoSignal, Kind, Signal
<1>4. CASE Run
  BY <1>4 DEF Run, Length, Copy, Kind, Signal
<1>5. CASE NextInstruction
  BY <1>5 DEF NextInstruction, Kind, Signal
<1>6. CASE AccessIn
  BY <1>6 DEF AccessIn, Stops, Disarm, Cut, Kind, Signal
<1>7. CASE AccessOut
  BY <1>7 DEF AccessOut, Kind, Signal
<1>8. CASE Retire
  BY <1>8 DEF Retire, Paid, Fewer, Kind, Signal
<1>9. CASE Trap
  BY <1>9 DEF Trap, Paid, Kind, Signal
<1>10. CASE Switch
  BY <1>10 DEF Switch, Kind, Signal
<1>11. CASE CountStep
  BY <1>11 DEF CountStep, Counted, Kind, Signal
<1>12. CASE Dispose
  BY <1>12 DEF Dispose, Kind, Signal
<1>13. CASE UiQuit
  BY <1>13 DEF UiQuit, Kind, Signal
<1>14. CASE UiReload
  BY <1>14 DEF UiReload, Kind, Signal
<1>15. CASE UiRestart
  <2>1. signals' \in Seq(Signal) /\ Len(signals') <= Capacity
    <3>1. signals' = <<>>
      BY <1>15 DEF UiRestart
    <3> QED
      BY <3>1
  <2>2. step_inst' \in 0 .. MaxStep /\ instruction_run' \in 0 .. Batch
        /\ owed' \in -1 .. MaxStep
    BY <1>15 DEF UiRestart
  <2>3. reset' \in BOOLEAN /\ s_reset' \in BOOLEAN /\ asked' \in BOOLEAN
    BY <1>15, Zenon DEF UiRestart
  <2>4. TypeOK'
    BY <1>15, <2>1, <2>2, <2>3 DEF UiRestart
  <2>5. ResetPlace' /\ StopPlace' /\ StepPlace' /\ StillPlace' /\ typed' = typed
    BY <1>15 DEF UiRestart
  <2> QED
    BY <2>4, <2>5
<1>16. CASE UiExit
  BY <1>16 DEF UiExit, Kind, Signal
<1>17. CASE UiClose
  BY <1>17 DEF UiClose, Kind, Signal
<1>18. CASE \E sig \in Signal : UiSignal(sig)
  <2>1. PICK sig \in Signal : UiSignal(sig)
    BY <1>18
  <2>2. signals' \in Seq(Signal) /\ Len(signals') <= Capacity
    BY <2>1, Put DEF UiSignal, HasRoom
  <2>3. UNCHANGED <<state, pc, step_inst, instruction_run, reset, s_reset, bp,
                    ui, typed, asked, owed, promise>>
    BY <2>1 DEF UiSignal
  <2>4. TypeOK'
    BY <2>2, <2>3
  <2> QED
    BY <2>3, <2>4
<1>19. CASE ShellCommand
  <2>1. CASE ShellStep
    <3>1. /\ state = "STOPPED" /\ step_inst' \in 1 .. MaxStep /\ typed' = "STEP"
          /\ UNCHANGED <<state, bp, pc, signals, instruction_run, reset, s_reset,
                          ui, asked, owed, promise>>
      BY <1>19, <2>1 DEF ShellCommand, ShellStep
    <3>2. step_inst' \in 0 .. MaxStep
      BY <3>1
    <3>3. TypeOK'
      BY <3>1, <3>2
    <3>4. ResetPlace' /\ StopPlace' /\ StillPlace'
      BY <3>1
    <3>5. StepPlace'
      BY <3>1
    <3> QED
      BY <3>1, <3>3, <3>4, <3>5
  <2>2. CASE ShellBreakpoint
    <3>1. /\ bp' \in SUBSET Kind
          /\ UNCHANGED <<state, step_inst, typed, pc, signals, instruction_run,
                          reset, s_reset, ui, asked, owed, promise>>
      BY <1>19, <2>2 DEF ShellCommand, ShellBreakpoint
    <3> QED
      BY <3>1
  <2> QED
    BY <1>19, <2>1, <2>2
    DEF ShellCommand, ShellQuit, ShellStop, ShellCont, ShellNext, ShellReset
<1>20. CASE ShellRest
  <2>1. /\ StepFrom(step_inst) /\ typed' = "none"
        /\ UNCHANGED <<reset, asked, pc, signals, step_inst, instruction_run,
                        s_reset, bp, ui>>
    BY <1>20 DEF ShellRest
  <2>2. \/ /\ state = "STEP" /\ UNCHANGED <<owed, promise>>
        \/ /\ state = "STOPPED" /\ owed' = step_inst
           /\ promise' = IF pc = "switch" THEN "short" ELSE "exact"
        \/ /\ state \notin {"STEP", "STOPPED"} /\ promise' = "none"
           /\ UNCHANGED owed
    BY <2>1 DEF StepFrom
  <2>3. state' = "STEP"
    BY <2>1 DEF StepFrom
  <2>4. TypeOK'
    BY <2>1, <2>2, <2>3
  <2>5. ResetPlace' /\ StopPlace' /\ StillPlace' /\ typed' = "none"
    <3>1. ResetPlace'
      BY <2>1
    <3>2. StopPlace' /\ StillPlace'
      BY <2>1, <2>3
    <3> QED
      BY <2>1, <3>1, <3>2
  <2>6. StepPlace'
    BY <2>1, <2>2, <2>3
  <2> QED
    BY <2>4, <2>5, <2>6
<1>21. CASE UNCHANGED vars
  BY <1>21 DEF vars
<1> QED
  BY <1>1, <1>2, <1>3, <1>4, <1>5, <1>6, <1>7, <1>8, <1>9, <1>10, <1>11, <1>12, <1>13, <1>14, <1>15, <1>16, <1>17, <1>18, <1>19, <1>20, <1>21
  DEF Next, Regulator, UserInterface

-----------------------------------------------------------------------------
(***************************************************************************)
(* Driven by its UI, mish's "step" and breakpoints, the machine is type    *)
(* correct and keeps its three promises, for every length of batch, of     *)
(* step and of fifo: no reset is lost on its way from mii_reset to the     *)
(* CPU, a stopped machine starts no instruction, and no step is counted    *)
(* that was not run, but the first of a command typed between the          *)
(* regulator's two looks at mii->state.                                    *)
(***************************************************************************)
THEOREM UiIsObeyed ==
  ASSUME Shell \subseteq {"step", "bp"}
  PROVE  Spec => [](TypeOK /\ ResetIsKept /\ StoppedIsStill /\ StepsAreRun)
<1>1. IInv => TypeOK /\ ResetIsKept /\ StoppedIsStill /\ StepsAreRun
  BY DEF IInv, ResetPlace, StopPlace, StepPlace, Gap, TypeOK, Place, Inside,
         ResetIsKept, StoppedIsStill, StepsAreRun
<1>2. IInv /\ [Next]_vars => IInv'
  BY Preserved
<1> QED
  BY <1>1, <1>2, Opening, PTL DEF Spec

(***************************************************************************)
(* A reset the user asks for, at whatever moment of the regulator's loop,  *)
(* is in one of the two copies of cpu_state until the CPU serves it.       *)
(***************************************************************************)
THEOREM ResetReachesTheCpu ==
  ASSUME Shell \subseteq {"step", "bp"}
  PROVE  Spec => []ResetIsKept
BY UiIsObeyed, PTL

(***************************************************************************)
(* A machine the user stopped executes no instruction but those of a step. *)
(***************************************************************************)
THEOREM StoppedStaysStill ==
  ASSUME Shell \subseteq {"step", "bp"}
  PROVE  Spec => []StoppedIsStill
BY UiIsObeyed, PTL

=============================================================================
