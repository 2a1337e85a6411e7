------------------------------- MODULE Timers -------------------------------
(***************************************************************************)
(* The cycle timers: how the cycles of the CPU are counted out to them at  *)
(* each memory access (mii.c:878-939, 1004-1009, mii_65c02.c:37-44), and   *)
(* three of their clients: the mouse, whose callback always answers the    *)
(* same, the paddles, that only count down (mii_analog.c), and the         *)
(* speaker, whose callback decides whether it is called again              *)
(* (mii_speaker.c).                                                        *)
(*                                                                         *)
(* A step is one cycle of the CPU: a memory access, which runs the timers  *)
(* first, or an internal cycle, which only counts.  An instruction is the  *)
(* sequence of its cycles after the opcode fetch.                          *)
(***************************************************************************)
EXTENDS Integers, Sequences

CONSTANTS
    Instructions,  \* the cycles of each instruction, an interrupt's included
    Period,        \* 1000000 / 60, what the mouse's callback returns
    Delay,         \* (MII_AUDIO_FRAME_SIZE / 2) samples, in cycles
    Hush,          \* MII_AUDIO_FREQ / 64 samples, in cycles
    Values         \* what C070 sets a paddle's timer to

Timer == {"mouse", "speaker", "paddle"}
Cycle == {"access", "internal"}

\* At most two internal cycles in a row, and one before the first access.
ASSUME InstructionsAssumption ==
    \A op \in Instructions :
        /\ op \in Seq(Cycle)
        /\ op # <<>> /\ op[1] = "internal" => Len(op) = 1 \/ op[2] = "access"
        /\ \A n \in 1 .. Len(op) - 2 : "access" \in {op[n], op[n+1], op[n+2]}
ASSUME DelayAssumption ==
    /\ Period \in Nat /\ Period >= 3
    /\ Delay \in Nat /\ Delay >= 3 /\ Hush \in Nat
    /\ Values \subseteq Nat

VARIABLES
    op,       \* the instruction, once its opcode is fetched
    at,       \* cycles of it that are done
    cycle,    \* cpu.cycle
    last,     \* timer.last_cycle
    when,     \* timer.timers[t].when
    speaker,  \* speaker.source.state
    silence,  \* total_cycle less last_click_cycle, Hush + 1 for more
    \* History:
    owed,     \* cycles since the timers last ran
    before,   \* cycles of the instruction before this one
    since     \* cycles counted out since the periodic callback was due

vars == <<op, at, cycle, last, when, speaker, silence, owed, before, since>>

Init == /\ op = <<>> /\ at = 0
        /\ cycle = 0 /\ last = 0
        /\ when = [t \in Timer |-> IF t = "mouse" THEN Period ELSE 0]
        /\ speaker = "IDLE"
        /\ silence = Hush + 1
        /\ owed = 0 /\ before = 0 /\ since = 0

-----------------------------------------------------------------------------
(* The speaker's state, click by click and callback by callback.           *)

\* _mii_speaker_pad.  MII_AUDIO_STARTING is passed through within a call.
Pad(state, click) ==
    CASE state = "IDLE"     -> IF click THEN "PLAYING" ELSE "IDLE"
      [] state = "PLAYING"  -> IF silence > Hush THEN "STOPPING" ELSE "PLAYING"
      [] state = "STOPPING" -> "IDLE"

\* Mutation of Answer: the callback also stops when the speaker is stopping.
AnswerSooner(t) ==
    CASE t = "mouse"   -> Period
      [] t = "speaker" -> IF Pad(speaker, FALSE) = "PLAYING" THEN Delay ELSE 0
      [] t = "paddle"  -> 0

\* What a timer's callback answers; a paddle has none.
Answer(t) ==
    CASE t = "mouse"   -> Period
      [] t = "speaker" -> IF Pad(speaker, FALSE) = "IDLE" THEN 0 ELSE Delay
      [] t = "paddle"  -> 0

Fires(t, cycles) == when[t] > 0 /\ when[t] <= cycles

\* Mutation of Left: a timer is set to its callback's answer.
LeftAnew(t, cycles) ==
    IF Fires(t, cycles) THEN Answer(t)
    ELSE IF when[t] > 0 THEN when[t] - cycles ELSE when[t]

\* Mutation of Left: a timer that has stopped is counted down too.
LeftOfAll(t, cycles) ==
    when[t] - cycles + (IF Fires(t, cycles) THEN Answer(t) ELSE 0)

\* mii_timer_run on one timer: what is left of it after these cycles.
Left(t, cycles) ==
    IF when[t] > 0
      THEN when[t] - cycles + (IF Fires(t, cycles) THEN Answer(t) ELSE 0)
      ELSE when[t]

\* Mutation of Cycles: no difference is taken.
CyclesSoFar == cycle + 1

\* The cycles an access counts out to the timers.
Cycles == IF cycle + 1 > last THEN cycle + 1 - last ELSE cycle + 1

\* _mii_cpu_direct_access_cb: the timers, then what the access itself does:
\* nothing here, the speaker at C030, or the paddles at C070.
Run(what) ==
    LET left == [t \in Timer |-> Left(t, Cycles)]
        heard == IF Fires("speaker", Cycles) THEN Pad(speaker, FALSE) ELSE speaker
    IN /\ last' = cycle + 1
       /\ since' = IF since + Cycles < Period THEN since + Cycles
                                               ELSE since + Cycles - Period
       /\ owed' = 0
       /\ speaker' = IF what = "C030" THEN Pad(heard, TRUE) ELSE heard
       /\ CASE what = "none" -> when' = left
            [] what = "C030" -> when' = [left EXCEPT !["speaker"] = Delay]
            [] what = "C070" ->
                 \E v \in Values : when' = [left EXCEPT !["paddle"] = v]

\* The opcode fetch: the cycles of the instruction before are added up, and
\* the count starts again.
Fetch(next) ==
    /\ at = Len(op)
    /\ Run("none")
    /\ silence' = IF silence + cycle < Hush THEN silence + cycle + 1 ELSE Hush + 1
    /\ before' = cycle + 1
    /\ cycle' = 0
    /\ op' = next /\ at' = 0

Access(what) ==
    /\ at < Len(op) /\ op[at + 1] = "access"
    /\ Run(what)
    /\ silence' = IF what = "C030" THEN 0 ELSE silence
    /\ cycle' = cycle + 1
    /\ at' = at + 1
    /\ UNCHANGED <<op, before>>

Internal ==
    /\ at < Len(op) /\ op[at + 1] = "internal"
    /\ cycle' = cycle + 1
    /\ owed' = owed + 1
    /\ at' = at + 1
    /\ UNCHANGED <<op, last, before, when, speaker, silence, since>>

Next == \/ \E next \in Instructions : Fetch(next)
        \/ \E what \in {"none", "C030", "C070"} : Access(what)
        \/ Internal

\* The CPU runs.
Spec == Init /\ [][Next]_vars /\ WF_vars(Next)

-----------------------------------------------------------------------------
(* What the timers promise.                                                *)

(* Every variable has the values the code can give it.  A timer stops at 0 *)
(* or, as the comment on them in mii.h says, at -1 or -2.                  *)
TypeOK ==
    /\ op \in Instructions \union {<<>>} /\ at \in 0 .. Len(op)
    /\ cycle = at /\ last \in Nat
    /\ when \in [Timer -> Int] /\ \A t \in Timer : when[t] >= -2
    /\ speaker \in {"IDLE", "PLAYING", "STOPPING"}
    /\ silence \in 0 .. Hush + 1
    /\ owed \in 0 .. 2 /\ before \in Nat /\ since \in 0 .. Period - 1

(* Each access counts out to the timers the cycles since the access before *)
(* it, over the ends of instructions too, except after an instruction of   *)
(* one cycle: of the two cycles to the fetch that follows TAX and its      *)
(* likes, one is then lost.                                                *)
TimeKept == [][owed' = 0 => Cycles = owed + 1 \/ before = 1]_vars

(* A periodic callback keeps its period however late each call is: the     *)
(* cycles until the next are those left of a multiple of the period.  So   *)
(* it is never found stopped either.                                       *)
OnTime == when["mouse"] = Period - since

(* The timer of a speaker that is not idle is running: no order of clicks  *)
(* and callbacks leaves a tone that nothing ends.                          *)
SoundEnds == speaker # "IDLE" => when["speaker"] > 0

Clicks == Access("C030")

(* Once the program clicks no more, the speaker becomes idle.              *)
GoesSilent == <>[][~Clicks]_vars => <>[](speaker = "IDLE")
=============================================================================
