----------------------------- MODULE RunControl -----------------------------
(***************************************************************************)
(* Who runs the machine: the regulator thread, which takes the UI's        *)
(* signals, runs instructions in batches and acts on mii->state; the UI    *)
(* thread, which signals, quits and reloads the configuration; and the     *)
(* mish shell's thread, which writes the same fields with no lock.         *)
(*                                                                         *)
(* A step is one access to the fields the threads share (or a stretch of   *)
(* one thread that shares nothing).  Of the memory accesses an instruction *)
(* makes one is kept: the others do the same again.                        *)
(***************************************************************************)
EXTENDS Integers, Sequences

CONSTANTS
  Batch,       \* instructions run before mii_run returns (100000 in the code)
  Capacity,    \* signals the fifo holds (15 in the code)
  MaxStep,     \* bound: the longest "step [num]" typed
  Shell        \* the mish commands that are typed

ASSUME BatchAssumption == Batch \in Nat
ASSUME CapacityAssumption == Capacity \in Nat \ {0}
ASSUME StepAssumption == MaxStep \in Nat \ {0}
ASSUME ShellAssumption ==
  Shell \subseteq {"quit", "stop", "cont", "step", "next", "reset", "bp"}

State == {"INIT", "RUNNING", "STOPPED", "STEP", "TERMINATE"}
Signal == {"RESET", "STOP", "STEP", "NEXT", "RUN"}
Place == {"start", "signals", "run", "next", "access", "answer", "retire",
          "switch", "step", "dispose", "gone"}
Inside == {"next", "access", "answer", "retire"}
Kind == {"R", "W", "STICKY"}

VARIABLES
  state,            \* mii->state
  pc,               \* where the regulator is; Inside: in mii_cpu_run
  signals,          \* signal_fifo
  step_inst,        \* mii->trace.step_inst
  instruction_run,  \* mii->cpu.instruction_run
  reset,            \* mii->cpu_state.reset
  s_reset,          \* s.reset, in mii_cpu_run's own copy of cpu_state
  bp,               \* kind of the breakpoint, {} when it is not armed
  ui,               \* what the UI thread is doing
  typed,            \* the second half of a mish command, under way
  asked,            \* history: a reset was requested and not served since
  owed,             \* history: instructions the last step command still owes,
                    \* -1 once it owed none and one more was run
  promise           \* history: what that command can count on, see StepFrom

vars == <<state, pc, signals, step_inst, instruction_run, reset, s_reset, bp,
          ui, typed, asked, owed, promise>>

steps == <<step_inst, owed, promise>>

TypeOK ==
  /\ state \in State
  /\ pc \in Place
  /\ signals \in Seq(Signal) /\ Len(signals) <= Capacity
  /\ step_inst \in 0 .. MaxStep
  /\ instruction_run \in 0 .. Batch
  /\ reset \in BOOLEAN /\ s_reset \in BOOLEAN
  /\ bp \in SUBSET Kind
  /\ ui \in {"loop", "joining", "done"}
  /\ typed \in {"none", "RUNNING", "STEP", "reset"}
  /\ asked \in BOOLEAN
  /\ owed \in -1 .. MaxStep
  /\ promise \in {"exact", "short", "none"}

\* mii_init and mii_prepare have run, the thread is created.
Init ==
  /\ state = "RUNNING"
  /\ pc = "start"
  /\ signals = <<>>
  /\ step_inst = 0
  /\ instruction_run = 0
  /\ reset = TRUE /\ s_reset = FALSE
  /\ bp = {}
  /\ ui = "loop"
  /\ typed = "none"
  /\ asked = TRUE
  /\ owed = 0
  /\ promise = "none"

-----------------------------------------------------------------------------
\* mii_thread_cpu_regulator, down to its loop.
Start ==
  /\ pc = "start"
  /\ pc' = "signals"
  /\ state' = "RUNNING"
  /\ UNCHANGED <<signals, step_inst, instruction_run, reset, s_reset, bp, ui,
                 typed, asked, owed, promise>>

\* The state becomes STEP over the one it was, with n counted: over STOPPED
\* the command owes n instructions, the first of which is counted without
\* being run when the regulator has just looked at mii->state to run one or
\* not; over any other state the shell's write is late, and owes nothing.
StepFrom(n) ==
  /\ state' = "STEP"
  /\ owed' = IF state = "STOPPED" THEN n ELSE owed
  /\ promise' = CASE state = "STEP" -> promise
                  [] state = "STOPPED" -> IF pc = "switch" THEN "short" ELSE "exact"
                  [] OTHER -> "none"

\* mii_cpu_step(n) by the regulator: refused unless stopped.
CpuStep(n) ==
  IF state = "STOPPED"
    THEN step_inst' = n /\ StepFrom(n) /\ UNCHANGED bp
    ELSE UNCHANGED <<state, steps, bp>>

\* mii_cpu_next, on a JSR or not: a breakpoint past it if one is free.
CpuNext ==
  \/ CpuStep(1)
  \/ /\ state = "STOPPED" /\ bp = {}
     /\ bp' = {"R"}
     /\ state' = "RUNNING"
     /\ UNCHANGED steps
  \/ /\ state = "STOPPED" /\ bp # {}
     /\ UNCHANGED <<state, steps, bp>>

\* One signal is read and acted on.
TakeSignal ==
  /\ pc = "signals"
  /\ signals # <<>>
  /\ signals' = Tail(signals)
  /\ LET sig == Head(signals)
     IN /\ IF sig = "RESET" THEN reset' = TRUE /\ asked' = TRUE
                            ELSE UNCHANGED <<reset, asked>>
        /\ CASE sig \in {"RESET", "RUN"} ->
                  state' = "RUNNING" /\ UNCHANGED <<steps, bp>>
             [] sig = "STOP" ->
                  state' = "STOPPED" /\ UNCHANGED <<steps, bp>>
             [] sig = "STEP" -> CpuStep(1)
             [] sig = "NEXT" -> CpuNext
  /\ UNCHANGED <<pc, instruction_run, s_reset, ui, typed>>

NoSignal ==
  /\ pc = "signals"
  /\ signals = <<>>
  /\ pc' = "run"
  /\ UNCHANGED <<state, signals, step_inst, instruction_run, reset, s_reset,
                 bp, ui, typed, asked, owed, promise>>

\* Mutation of Length: a step runs as many as a run.
LengthFull == Batch

\* mii_run's choice of how many instructions.
Length == IF state = "RUNNING" THEN Batch ELSE 0

\* Mutation of Copy: the CPU keeps its copy from one batch to the next.
CopyKept == s_reset

\* The copy mii_cpu_run is given.
Copy == reset

\* if (mii->state != MII_STOPPED) mii_run(mii)
Run ==
  /\ pc = "run"
  /\ IF state = "STOPPED"
       THEN pc' = "switch" /\ UNCHANGED <<instruction_run, s_reset>>
       ELSE /\ pc' = "next"
            /\ instruction_run' = Length
            /\ s_reset' = Copy
  /\ UNCHANGED <<state, signals, step_inst, reset, bp, ui, typed, asked, owed, promise>>

-----------------------------------------------------------------------------
\* next_instruction: a reset in mii_cpu_run's copy is served.
NextInstruction ==
  /\ pc = "next"
  /\ pc' = "access"
  /\ s_reset' = FALSE
  /\ asked' = (asked /\ ~s_reset)
  /\ UNCHANGED <<state, signals, step_inst, instruction_run, reset, bp, ui,
                 typed, owed, promise>>

\* A breakpoint of kind k is hit by an access.
Stops(k, access) == access \in k

\* An access in the range of a breakpoint disarms it, unless it is sticky,
\* whatever its kind.
Disarm(k, access) == IF "STICKY" \in k THEN k ELSE {}

\* Mutation of Cut: one instruction goes, not all.
CutLate == IF instruction_run = 0 THEN 0 ELSE instruction_run - 1

\* What is left of the batch after a breakpoint hit or the end of a frame.
Cut == 0

\* The access callback up to its breakpoints: cpu_state becomes the CPU's
\* copy; the timers may end the frame; the access may be in a breakpoint's
\* range.
AccessIn ==
  /\ pc = "access"
  /\ pc' = "answer"
  /\ reset' = s_reset
  /\ \E access \in {"R", "W"}, ranged, frame \in BOOLEAN :
       LET stop == ranged /\ Stops(bp, access)
       IN /\ ranged => bp # {}
          /\ instruction_run' = IF stop \/ frame THEN Cut ELSE instruction_run
          /\ state' = IF stop THEN "STOPPED" ELSE state
          /\ bp' = IF ranged THEN Disarm(bp, access) ELSE bp
  /\ UNCHANGED <<signals, step_inst, s_reset, ui, typed, asked, owed, promise>>

\* One instruction less is owed.
Paid == IF owed < 0 THEN owed ELSE owed - 1

\* The rest of the callback: the CPU's copy becomes cpu_state.
AccessOut ==
  /\ pc = "answer"
  /\ pc' = "retire"
  /\ s_reset' = reset
  /\ UNCHANGED <<state, signals, step_inst, instruction_run, reset, bp, ui,
                 typed, asked, owed, promise>>

\* Mutation of Fewer: the batch is never used up.
FewerNever == instruction_run

\* What is left of the batch after an instruction.
Fewer == instruction_run - 1

\* The end of an instruction: the next, or back to the regulator.
Retire ==
  /\ pc = "retire"
  /\ owed' = Paid
  /\ IF instruction_run > 0
       THEN /\ pc' = "next"
            /\ instruction_run' = Fewer
            /\ UNCHANGED reset
       ELSE /\ pc' = "switch"
            /\ reset' = s_reset
            /\ UNCHANGED instruction_run
  /\ UNCHANGED <<state, signals, step_inst, s_reset, bp, ui, typed, asked,
                 promise>>

\* The instruction was a trap: mii_cpu_run returns at once, and an unknown
\* trap stops the machine.
Trap ==
  /\ pc = "retire"
  /\ owed' = Paid
  /\ pc' = "switch"
  /\ reset' = s_reset
  /\ state' \in {state, "STOPPED"}
  /\ UNCHANGED <<signals, step_inst, instruction_run, s_reset, bp, ui, typed,
                 asked, promise>>

-----------------------------------------------------------------------------
\* The regulator acts on mii->state.
Switch ==
  /\ pc = "switch"
  /\ pc' = CASE state = "STEP" -> "step"
             [] state = "TERMINATE" -> "dispose"
             [] OTHER -> "signals"
  /\ UNCHANGED <<state, signals, step_inst, instruction_run, reset, s_reset,
                 bp, ui, typed, asked, owed, promise>>

\* Mutation of Counted: the count is looked at before it goes down.
CountedBefore == IF step_inst = 0 THEN 0 ELSE step_inst

\* step_inst, once a step is counted.
Counted == IF step_inst = 0 THEN 0 ELSE step_inst - 1

\* The MII_STEP case: the last step stops the machine.
CountStep ==
  /\ pc = "step"
  /\ pc' = "signals"
  /\ step_inst' = Counted
  /\ state' = IF Counted = 0 THEN "STOPPED" ELSE state
  /\ UNCHANGED <<signals, instruction_run, reset, s_reset, bp, ui, typed,
                 asked, owed, promise>>

\* mii_dispose, and the thread is over.
Dispose ==
  /\ pc = "dispose"
  /\ pc' = "gone"
  /\ state' = "INIT"
  /\ UNCHANGED <<signals, step_inst, instruction_run, reset, s_reset, bp, ui,
                 typed, asked, owed, promise>>

Regulator ==
  /\ ui # "done"
  /\ \/ Start \/ TakeSignal \/ NoSignal \/ Run
     \/ NextInstruction \/ AccessIn \/ AccessOut \/ Retire \/ Trap
     \/ Switch \/ CountStep \/ Dispose

-----------------------------------------------------------------------------
HasRoom == Len(signals) < Capacity

\* A menu item: a signal in the fifo, dropped when it is full.
UiSignal(sig) ==
  /\ ui = "loop"
  /\ sig \in {"STEP", "NEXT"} => state # "RUNNING"
  /\ signals' = IF HasRoom THEN Append(signals, sig) ELSE signals
  /\ UNCHANGED <<state, pc, step_inst, instruction_run, reset, s_reset, bp,
                 ui, typed, asked, owed, promise>>

\* The quit alert is confirmed.  main's loop looks at state before it handles
\* a frame's events; nothing is modelled between the two.
UiQuit ==
  /\ ui = "loop"
  /\ state # "INIT"
  /\ state' = "TERMINATE"
  /\ UNCHANGED <<pc, signals, step_inst, instruction_run, reset, s_reset, bp,
                 ui, typed, asked, owed, promise>>

\* mii_x11_reload_config, up to pthread_join.
UiReload ==
  /\ ui = "loop"
  /\ state # "INIT"
  /\ state' = "TERMINATE"
  /\ ui' = "joining"
  /\ UNCHANGED <<pc, signals, step_inst, instruction_run, reset, s_reset, bp,
                 typed, asked, owed, promise>>

\* The rest of it: a new machine, reset, and a new thread.
UiRestart ==
  /\ ui = "joining"
  /\ pc = "gone"
  /\ ui' = "loop"
  /\ state' = "RUNNING"
  /\ pc' = "start"
  /\ signals' = <<>>
  /\ step_inst' = 0
  /\ instruction_run' = 0
  /\ bp' = {}
  /\ reset' = TRUE /\ s_reset' = FALSE
  /\ asked' = TRUE
  /\ owed' = 0 /\ promise' = "none"
  /\ UNCHANGED typed

\* The window is closed: the process ends without a word to the regulator.
UiClose ==
  /\ ui = "loop"
  /\ ui' = "done"
  /\ UNCHANGED <<state, pc, signals, step_inst, instruction_run, reset,
                 s_reset, bp, typed, asked, owed, promise>>

\* main's loop ends.
UiExit ==
  /\ ui = "loop"
  /\ state = "INIT"
  /\ ui' = "done"
  /\ UNCHANGED <<state, pc, signals, step_inst, instruction_run, reset,
                 s_reset, bp, typed, asked, owed, promise>>

UserInterface ==
  \/ \E sig \in Signal : UiSignal(sig)
  \/ UiQuit \/ UiReload \/ UiRestart \/ UiClose \/ UiExit

-----------------------------------------------------------------------------
\* A mish command, or the first half of one that writes twice.
ShellQuit ==
  /\ "quit" \in Shell
  /\ state' = "TERMINATE"
  /\ UNCHANGED <<step_inst, bp, typed>>

ShellStop ==
  /\ "stop" \in Shell
  /\ state' = "STOPPED"
  /\ step_inst' \in {step_inst, 0}      \* stop or halt
  /\ UNCHANGED <<bp, typed>>

ShellCont ==
  /\ "cont" \in Shell
  /\ step_inst' = 0
  /\ typed' = "RUNNING"
  /\ UNCHANGED <<state, bp>>

ShellStep ==
  /\ "step" \in Shell
  /\ state = "STOPPED"
  /\ step_inst' \in 1 .. MaxStep
  /\ typed' = "STEP"
  /\ UNCHANGED <<state, bp>>

\* As CpuNext; a step is ShellStep's.
ShellNext ==
  /\ "next" \in Shell
  /\ state = "STOPPED" /\ bp = {}
  /\ bp' = {"R"}
  /\ typed' = "RUNNING"
  /\ UNCHANGED <<state, step_inst>>

ShellReset ==
  /\ "reset" \in Shell
  /\ state' = "RUNNING"
  /\ typed' = "reset"
  /\ UNCHANGED <<step_inst, bp>>

ShellBreakpoint ==
  /\ "bp" \in Shell
  /\ bp' \in {k \in SUBSET Kind : k \cap {"R", "W"} # {}} \cup {{}}
  /\ UNCHANGED <<state, step_inst, typed>>

ShellCommand ==
  /\ ui # "done"
  /\ typed = "none"
  /\ \/ ShellQuit \/ ShellStop \/ ShellCont \/ ShellStep \/ ShellNext
     \/ ShellReset \/ ShellBreakpoint
  /\ UNCHANGED <<pc, signals, instruction_run, reset, s_reset, ui, asked, owed,
                 promise>>

\* The second half: cpu_state.reset, or the new state.
ShellRest ==
  /\ ui # "done"
  /\ typed # "none"
  /\ typed' = "none"
  /\ CASE typed = "reset" ->
            reset' = TRUE /\ asked' = TRUE /\ UNCHANGED <<state, owed, promise>>
       [] typed = "STEP" ->
            StepFrom(step_inst) /\ UNCHANGED <<reset, asked>>
       [] OTHER ->
            state' = typed /\ UNCHANGED <<reset, asked, owed, promise>>
  /\ UNCHANGED <<pc, signals, step_inst, instruction_run, s_reset, bp, ui>>

Next == Regulator \/ UserInterface \/ ShellCommand \/ ShellRest

\* The regulator's thread is scheduled, and its sleeps last one frame.
Spec == Init /\ [][Next]_vars /\ WF_vars(Regulator)

-----------------------------------------------------------------------------
(***************************************************************************)
(* A reset that was requested is still to be found, in cpu_state or in the *)
(* copy mii_cpu_run works on, until the CPU serves it.  mish's help says   *)
(* of "mii reset": reset the cpu.                                          *)
(***************************************************************************)
ResetIsKept == asked => reset \/ s_reset

(***************************************************************************)
(* A stopped machine starts no instruction: a breakpoint, an unknown trap  *)
(* or the UI's Stop ends the batch with the instruction under way.         *)
(***************************************************************************)
StoppedIsStill == pc = "next" => state # "STOPPED"

(***************************************************************************)
(* Whenever the regulator counts a step, it ran one more instruction of    *)
(* those the step command asked for than it had counted, for the UI's Step *)
(* and for mish's "step [num]" ("step [num, or one] instruction").  One    *)
(* that was typed between the regulator's two looks at mii->state is one   *)
(* instruction short, and no more than one.                                *)
(***************************************************************************)
StepsAreRun ==
  pc = "step" =>
    /\ promise = "exact" => owed + 1 = step_inst
    /\ promise = "short" => owed = step_inst

\* The user does not send signals so fast that the regulator always finds
\* another: a frame of the UI sends a few, and draining them takes no time.
Unhurried == []<>(pc # "signals")

\* Nothing that the regulator has still to do can take the place of what is
\* in mii->state, but an unknown trap.
Undisputed ==
  signals = <<>> /\ bp = {} /\ typed = "none" /\ pc \notin {"start", "step"}

(***************************************************************************)
(* The regulator never leaves a step standing; and the UI's reload, which  *)
(* waits for the thread to end, sees it end if the thread was in its loop  *)
(* and no signal was queued, no breakpoint armed and no step being counted *)
(* when it asked, unless the program runs into an unknown trap, which      *)
(* stops the machine.  (Each of the others can take the request's place    *)
(* too, and the UI then waits forever.)                                    *)
(***************************************************************************)
Responds ==
  Unhurried =>
    /\ state = "STEP" ~> state # "STEP" \/ pc = "gone" \/ ui = "done"
    /\ ui = "joining" /\ state = "TERMINATE" /\ Undisputed
         ~> pc = "gone" \/ state = "STOPPED"

(***************************************************************************)
(* Whatever the UI and the shell write while a batch runs, it comes to an  *)
(* end, and the regulator to its signals again.                            *)
(***************************************************************************)
Returns == pc \in Inside ~> pc \in {"signals", "gone"} \/ ui = "done"

=============================================================================
