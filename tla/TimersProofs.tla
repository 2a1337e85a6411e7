---------------------------- MODULE TimersProofs ----------------------------
(* What the cycle timers promise, for every set of instructions with at    *)
(* most two internal cycles in a row and every period of three or more.    *)
EXTENDS Timers, TLAPS

\* No access of the instruction has been made yet.
Early == \A n \in 1 .. at : op[n] = "internal"

\* What the two copies of the cycle counter say of the cycles owed.
Clocked ==
    /\ IF Early THEN owed = at /\ last = before ELSE owed = cycle - last
    /\ before = 0 => op = <<>>
    /\ owed <= at
    /\ \A n \in at - owed + 1 .. at : op[n] = "internal"

IInv == TypeOK /\ Clocked /\ OnTime /\ SoundEnds

LEMMA InitHolds == Init => IInv
<1> SUFFICES ASSUME Init PROVE IInv
    OBVIOUS
<1> USE DelayAssumption DEF Init, Timer
<1>1. TypeOK
    BY DEF TypeOK
<1>2. Clocked
    BY DEF Clocked, Early
<1>3. OnTime /\ SoundEnds
    BY DEF OnTime, SoundEnds
<1> QED
    BY <1>1, <1>2, <1>3 DEF IInv

(* An instruction starts with one internal cycle at most, and has no three *)
(* of them in a row.                                                       *)
LEMMA Shapes ==
    ASSUME NEW s \in Instructions \union {<<>>}
    PROVE  /\ s \in Seq(Cycle)
           /\ s # <<>> /\ s[1] = "internal" => Len(s) = 1 \/ s[2] = "access"
           /\ \A n \in 1 .. Len(s) - 2 : "access" \in {s[n], s[n+1], s[n+2]}
<1>1. CASE s \in Instructions
    BY <1>1, InstructionsAssumption
<1>2. CASE s = <<>>
    BY <1>2
<1> QED
    BY <1>1, <1>2

(* When an access is made, the timers get what is owed to them, which is   *)
(* at most three cycles, or less after an instruction of one cycle.        *)
LEMMA CyclesOwed ==
    ASSUME IInv
    PROVE  Cycles \in 1 .. 3 /\ (Cycles = owed + 1 \/ before = 1)
<1> USE DEF IInv, TypeOK
<1>1. CASE Early
    <2>1. at <= 1
        <3> SUFFICES ASSUME at >= 2 PROVE FALSE
            BY Shapes
        <3>1. op \in Seq(Cycle) /\ Len(op) >= 2
            BY Shapes
        <3>2. op[1] = "internal" /\ op[2] = "internal"
            BY <1>1, <3>1 DEF Early
        <3> QED
            BY <3>1, <3>2, Shapes
    <2>2. before = 0 => at = 0
        BY DEF Clocked
    <2> QED
        BY <1>1, <2>1, <2>2 DEF Cycles, Clocked
<1>2. CASE ~Early
    BY <1>2, Shapes DEF Cycles, Clocked
<1> QED
    BY <1>1, <1>2

(* The callback of the speaker answers zero when it becomes idle.          *)
LEMMA PadType ==
    ASSUME TypeOK, NEW s \in {"IDLE", "PLAYING", "STOPPING"}, NEW c \in BOOLEAN
    PROVE  Pad(s, c) \in {"IDLE", "PLAYING", "STOPPING"}
BY DEF Pad

(* One run of the timers: the periodic one keeps its phase, the speaker's  *)
(* runs as long as it sounds, and none falls below -2.                     *)
LEMMA RunStep ==
    ASSUME IInv, NEW what \in {"none", "C030", "C070"}, Run(what)
    PROVE  /\ when' \in [Timer -> Int] /\ \A t \in Timer : when'[t] >= -2
           /\ speaker' \in {"IDLE", "PLAYING", "STOPPING"}
           /\ since' \in 0 .. Period - 1
           /\ OnTime' /\ SoundEnds'
<1> DEFINE left == [t \in Timer |-> Left(t, Cycles)]
           heard == IF Fires("speaker", Cycles) THEN Pad(speaker, FALSE) ELSE speaker
<1> USE DelayAssumption DEF IInv, TypeOK
<1>0. since' = IF since + Cycles < Period THEN since + Cycles
                                         ELSE since + Cycles - Period
    BY DEF Run
<1>1. Cycles \in 1 .. 3
    BY CyclesOwed
<1>2. \A t \in Timer : Answer(t) \in Nat
    BY DEF Answer, Timer
<1>3. \A t \in Timer : Left(t, Cycles) \in Int /\ Left(t, Cycles) >= -2
    <2> TAKE t \in Timer
    <2>1. when[t] \in Int /\ when[t] >= -2 /\ Answer(t) \in Nat
        BY <1>2
    <2> QED
        BY <1>1, <2>1 DEF Left, Fires
<1>4. heard \in {"IDLE", "PLAYING", "STOPPING"}
    BY PadType
<1>5. heard # "IDLE" => left["speaker"] > 0
    <2> SUFFICES ASSUME heard # "IDLE" PROVE Left("speaker", Cycles) > 0
        BY DEF Timer
    <2>1. when["speaker"] \in Int
        BY DEF Timer
    <2>2. CASE Fires("speaker", Cycles)
        <3>1. Answer("speaker") = Delay
            BY <2>2 DEF Answer
        <3> QED
            BY <1>1, <2>1, <2>2, <3>1 DEF Left, Fires
    <2>3. CASE ~Fires("speaker", Cycles)
        <3>1. when["speaker"] > 0
            BY <2>3 DEF SoundEnds
        <3>2. when["speaker"] > Cycles
            BY <1>1, <2>1, <2>3, <3>1 DEF Fires
        <3>3. Left("speaker", Cycles) = when["speaker"] - Cycles + 0
            BY <2>3, <3>1 DEF Left
        <3> QED
            BY <1>1, <2>1, <3>2, <3>3
    <2> QED
        BY <2>2, <2>3
<1>6. left["mouse"] = Period - since'
    <2>1. Left("mouse", Cycles) = Period - since'
        <3>1. Answer("mouse") = Period
            BY DEF Answer
        <3> QED
            BY <1>0, <1>1, <3>1 DEF Left, Fires, OnTime
    <2> QED
        BY <2>1 DEF Timer
<1>7. since' \in 0 .. Period - 1
    BY <1>0, <1>1
<1>8. speaker' = IF what = "C030" THEN Pad(heard, TRUE) ELSE heard
    BY DEF Run
<1>9. speaker' \in {"IDLE", "PLAYING", "STOPPING"}
    BY <1>4, <1>8, PadType
<1>10. left \in [Timer -> Int] /\ \A t \in Timer : left[t] >= -2
    BY <1>3
<1>11. CASE what = "none"
    <2>1. when' = left
        BY <1>11 DEF Run
    <2> QED
        BY <2>1, <1>3, <1>5, <1>6, <1>7, <1>8, <1>9, <1>10, <1>11
        DEF OnTime, SoundEnds
<1>12. CASE what = "C030"
    <2>1. when' = [left EXCEPT !["speaker"] = Delay]
        BY <1>12 DEF Run
    <2>2. when' \in [Timer -> Int] /\ \A t \in Timer : when'[t] >= -2
        <3> HIDE DEF left
        <3>1. Delay \in Int /\ Delay >= -2
            OBVIOUS
        <3>2. \A t \in Timer : when'[t] = IF t = "speaker" THEN Delay ELSE left[t]
            BY <2>1, <1>10
        <3>3. when' \in [Timer -> Int]
            BY <2>1, <3>1, <1>10
        <3> QED
            BY <3>1, <3>2, <3>3, <1>10
    <2>3. when'["mouse"] = left["mouse"] /\ when'["speaker"] > 0
        BY <2>1, <1>10 DEF Timer
    <2> QED
        BY <2>2, <2>3, <1>6, <1>7, <1>9 DEF OnTime, SoundEnds
<1>13. CASE what = "C070"
    <2>1. PICK v \in Values : when' = [left EXCEPT !["paddle"] = v]
        BY <1>13 DEF Run
    <2>2. when' \in [Timer -> Int] /\ \A t \in Timer : when'[t] >= -2
        <3> HIDE DEF left
        <3>1. v \in Int /\ v >= -2
            OBVIOUS
        <3>2. \A t \in Timer : when'[t] = IF t = "paddle" THEN v ELSE left[t]
            BY <2>1, <1>10
        <3>3. when' \in [Timer -> Int]
            BY <2>1, <3>1, <1>10
        <3> QED
            BY <3>1, <3>2, <3>3, <1>10
    <2>3. when'["mouse"] = left["mouse"] /\ when'["speaker"] = left["speaker"]
        BY <2>1, <1>10 DEF Timer
    <2> QED
        BY <2>2, <2>3, <1>5, <1>6, <1>7, <1>8, <1>9, <1>13 DEF OnTime, SoundEnds
<1> QED
    BY <1>11, <1>12, <1>13

LEMMA Step == IInv /\ [Next]_vars => IInv'
<1> SUFFICES ASSUME IInv, [Next]_vars PROVE IInv'
    OBVIOUS
<1> USE DelayAssumption
<1>1. ASSUME NEW next \in Instructions, Fetch(next) PROVE IInv'
    <2>0. op \in Seq(Cycle)
        BY Shapes DEF IInv, TypeOK
    <2>1. Run("none") /\ owed' = 0
        BY <1>1 DEF Fetch, Run
    <2>2. next \in Seq(Cycle)
        BY Shapes
    <2>3. silence' \in 0 .. Hush + 1
        <3>1. silence \in Nat /\ cycle \in Nat
            BY <2>0 DEF IInv, TypeOK
        <3> QED
            BY <1>1, <3>1 DEF Fetch
    <2>4. TypeOK'
        <3>1. cycle \in Nat
            BY <2>0 DEF IInv, TypeOK
        <3>2. last' = cycle + 1 /\ before' = cycle + 1 /\ owed' = 0
            BY <1>1, <2>1 DEF Fetch, Run
        <3>3. op' = next /\ at' = 0 /\ cycle' = 0
            BY <1>1 DEF Fetch
        <3> QED
            BY <2>1, <2>2, <2>3, <3>1, <3>2, <3>3, RunStep DEF TypeOK
    <2>5. Clocked'
        BY <1>1, <2>1 DEF Fetch, Run, IInv, TypeOK, Clocked, Early
    <2> QED
        BY <2>1, <2>4, <2>5, RunStep DEF IInv
<1>2. ASSUME NEW what \in {"none", "C030", "C070"}, Access(what) PROVE IInv'
    <2>1. Run(what) /\ owed' = 0
        BY <1>2 DEF Access, Run
    <2>2. op \in Seq(Cycle)
        BY Shapes DEF IInv, TypeOK
    <2>3. silence' \in 0 .. Hush + 1
        BY <1>2 DEF Access, IInv, TypeOK
    <2>4. TypeOK'
        <3>1. cycle = at /\ at \in Nat /\ at + 1 \in 0 .. Len(op) /\ before \in Nat
            BY <1>2, <2>2 DEF Access, IInv, TypeOK
        <3>2. last' = cycle + 1 /\ owed' = 0
            BY <2>1 DEF Run
        <3>3. op' = op /\ at' = at + 1 /\ cycle' = cycle + 1 /\ before' = before
            BY <1>2 DEF Access
        <3>4. op \in Instructions \union {<<>>}
            BY DEF IInv, TypeOK
        <3> QED
            BY <2>1, <2>3, <3>1, <3>2, <3>3, <3>4, RunStep DEF TypeOK
    <2>5. ~Early'
        BY <1>2, <2>2 DEF Access, IInv, TypeOK, Early
    <2>6. op # <<>>
        BY <1>2 DEF Access, IInv, TypeOK
    <2>7. Clocked'
        BY <1>2, <2>1, <2>2, <2>5, <2>6 DEF Access, Run, IInv, TypeOK, Clocked
    <2> QED
        BY <2>1, <2>4, <2>7, RunStep DEF IInv
<1>3. CASE Internal
    <2>1. op \in Seq(Cycle) /\ Len(op) \in Nat
        BY Shapes DEF IInv, TypeOK
    <2>2. \A n \in at' - owed' + 1 .. at' : op[n] = "internal"
        BY <1>3, <2>1 DEF Internal, IInv, TypeOK, Clocked
    <2>3. owed' <= at'
        BY <1>3, <2>1 DEF Internal, IInv, TypeOK, Clocked
    <2>4. owed' <= 2
        <3> SUFFICES ASSUME owed = 2 PROVE FALSE
            BY <1>3 DEF Internal, IInv, TypeOK
        <3>1. at >= 2 /\ at + 1 <= Len(op)
            BY <1>3, <2>1 DEF Internal, IInv, TypeOK, Clocked
        <3>2. op[at - 1] = "internal" /\ op[at] = "internal" /\ op[at + 1] = "internal"
            BY <1>3, <2>1, <2>2, <3>1 DEF Internal, IInv, TypeOK
        <3>3. at - 1 \in 1 .. Len(op) - 2
            BY <3>1, <2>1 DEF IInv, TypeOK
        <3>4. "access" \in {op[at - 1], op[at - 1 + 1], op[at - 1 + 2]}
            BY <3>3, Shapes DEF IInv, TypeOK
        <3> QED
            BY <3>2, <3>4, <3>1 DEF IInv, TypeOK
    <2>5. TypeOK'
        BY <1>3, <2>1, <2>4 DEF Internal, IInv, TypeOK
    <2>6. Early' <=> Early
        BY <1>3, <2>1 DEF Internal, IInv, TypeOK, Early
    <2>7. Clocked'
        BY <1>3, <2>1, <2>2, <2>3, <2>6 DEF Internal, IInv, TypeOK, Clocked
    <2> QED
        BY <1>3, <2>5, <2>7 DEF Internal, IInv, OnTime, SoundEnds
<1>4. CASE UNCHANGED vars
    BY <1>4 DEF vars, IInv, TypeOK, Clocked, Early, OnTime, SoundEnds
<1> QED
    BY <1>1, <1>2, <1>3, <1>4 DEF Next

LEMMA Inductive == Spec => []IInv
BY InitHolds, Step, PTL DEF Spec

(* A timer that stops does so at 0, -1 or -2, as its comment says.         *)
THEOREM StopsNearZero == Spec => []TypeOK
<1>1. IInv => TypeOK
    BY DEF IInv
<1> QED
    BY <1>1, Inductive, PTL

(* The periodic callbacks never drift and never stop, for every period     *)
(* that is no shorter than the longest time between two accesses.          *)
THEOREM PeriodIsKept == Spec => []OnTime
<1>1. IInv => OnTime
    BY DEF IInv
<1> QED
    BY <1>1, Inductive, PTL

(* While the speaker sounds, a callback of its is on the way.              *)
THEOREM SoundHasEnd == Spec => []SoundEnds
<1>1. IInv => SoundEnds
    BY DEF IInv
<1> QED
    BY <1>1, Inductive, PTL

(* The timers get every cycle, but for one after a one-cycle instruction.  *)
THEOREM NoCycleLost == Spec => TimeKept
<1>1. IInv => [owed' = 0 => Cycles = owed + 1 \/ before = 1]_vars
    BY CyclesOwed
<1> QED
    BY <1>1, Inductive, PTL DEF TimeKept
=============================================================================
