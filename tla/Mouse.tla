-------------------------------- MODULE Mouse --------------------------------
(***************************************************************************)
(* The mouse card: the position and the button that the UI's thread writes *)
(* (mii_mui.c:259-299), and what the CPU's thread makes of them in the     *)
(* card's periodic callback and in the firmware's calls (mii_mouse.c).     *)
(*                                                                         *)
(* Nothing is locked, so a step makes at most one access to what the two   *)
(* threads share.  One coordinate stands for the two, which are handled    *)
(* side by side; it is a pair of bytes, the high one first.                *)
(***************************************************************************)
EXTENDS Naturals

CONSTANTS
    Coord,   \* the coordinates, of the window and of the clamp
    Home     \* the low end of the clamp

Byte == 0 .. 255
Bytes == [high : Byte, low : Byte]
ASSUME CoordAssumption == Coord \subseteq Bytes /\ Home \in Coord

\* The bits of the mode and of the status.  Of the former MOUSE_MODE_ON is
\* read once, to set enabled.
Irq == {"MOVE_IRQ", "BUT_IRQ", "VBL_IRQ"}
Status == Irq \union {"MOVED", "PREV_BUT0", "BUT0"}

VARIABLES
    x, button,  \* mii->mouse, the shared part
    enabled,    \* mii->mouse.enabled
    ui,         \* the UI's thread: "idle", or "button" with the x written
    down,       \* the button it has still to write
    cpu,        \* the CPU's thread: "run", or where it is in a handler
    new,        \* the local status of a handler
    mode,       \* c->mode
    status,     \* c->status, and the status byte of the screen hole
    last,       \* c->last
    hole,       \* the position in the screen holes
    raised,     \* the card's line
    \* History:
    raced       \* the UI wrote while the last READMOUSE was under way

vars == <<x, button, enabled, ui, down, cpu, new, mode, status, last, hole,
          raised, raced>>
shared == <<x, button>>
card == <<mode, status, last, raised>>

Init == /\ x = Home /\ button = FALSE /\ enabled = FALSE
        /\ ui = "idle" /\ down = FALSE
        /\ cpu = "run" /\ new = {}
        /\ mode = {} /\ status = {}
        /\ last = [x |-> Home, button |-> FALSE]
        /\ hole = Home
        /\ raised = FALSE /\ raced = FALSE

-----------------------------------------------------------------------------
(* The UI: an event writes the position and then the button.               *)

Reading == cpu \in {"low", "status", "button", "lastx", "lastbutton"}

Move == /\ ui = "idle" /\ enabled
        /\ \E c \in Coord, b \in BOOLEAN : x' = c /\ down' = b
        /\ ui' = "button"
        /\ raced' = (raced \/ Reading)
        /\ UNCHANGED <<button, enabled, cpu, new, card, hole>>

Press == /\ ui = "button"
         /\ button' = down
         /\ ui' = "idle"
         /\ raced' = (raced \/ Reading)
         /\ UNCHANGED <<x, enabled, down, cpu, new, card, hole>>

-----------------------------------------------------------------------------
(* The callback, sixty times a second.                                     *)

\* Mutation of Moved: the button's mode is asked for moves too.
MovedByButton == "BUT_IRQ" \in mode /\ x # last.x

Moved == "MOVE_IRQ" \in mode /\ x # last.x
Pressed == "BUT_IRQ" \in mode /\ button /\ ~last.button
Blank == "VBL_IRQ" \in mode /\ "VBL_IRQ" \notin status

VblMove == /\ cpu = "run"
           /\ cpu' = "vbl"
           /\ new' = IF Moved THEN status \union {"MOVE_IRQ"} ELSE status
           /\ raised' = (raised \/ Moved)
           /\ UNCHANGED <<shared, enabled, ui, down, mode, status, last, hole, raced>>

VblButton ==
    /\ cpu = "vbl"
    /\ cpu' = "run"
    /\ status' = new \union (IF Pressed THEN {"BUT_IRQ"} ELSE {})
                     \union (IF Blank THEN {"VBL_IRQ"} ELSE {})
    /\ raised' = (raised \/ Pressed \/ Blank)
    /\ new' = {}
    /\ UNCHANGED <<shared, enabled, ui, down, mode, last, hole, raced>>

-----------------------------------------------------------------------------
(* The calls of the firmware.                                              *)

Call == /\ cpu = "run"
        /\ UNCHANGED <<ui, down, new>>

\* SETMOUSE.
SetMode(on, irqs) ==
    /\ Call
    /\ enabled' = on
    /\ mode' = irqs
    /\ UNCHANGED <<shared, cpu, status, last, hole, raised, raced>>

\* Mutation of Served: the blank's bit is left.
ServedBut == status \ {"MOVE_IRQ", "BUT_IRQ"}

Served == status \ Irq

\* SERVEMOUSE.
Serve == /\ Call
         /\ status' = Served
         /\ raised' = FALSE
         /\ UNCHANGED <<shared, enabled, cpu, mode, last, hole, raced>>

\* READMOUSE, the high byte, the low byte, the status, and what is kept to
\* compare with.
ReadHigh == /\ Call /\ enabled
            /\ hole' = [hole EXCEPT !.high = x.high]
            /\ cpu' = "low"
            /\ raced' = FALSE
            /\ UNCHANGED <<shared, enabled, card>>

ReadLow == /\ cpu = "low"
           /\ hole' = [hole EXCEPT !.low = x.low]
           /\ cpu' = "status"
           /\ UNCHANGED <<shared, enabled, ui, down, new, card, raced>>

ReadMoved == /\ cpu = "status"
             /\ new' = IF x # last.x THEN {"MOVED"} ELSE {}
             /\ cpu' = "button"
             /\ UNCHANGED <<shared, enabled, ui, down, card, hole, raced>>

ReadButton ==
    /\ cpu = "button"
    /\ status' = (status \intersect Irq) \union new
                   \union (IF last.button THEN {"PREV_BUT0"} ELSE {})
                   \union (IF button THEN {"BUT0"} ELSE {})
    /\ new' = {}
    /\ cpu' = "lastx"
    /\ UNCHANGED <<shared, enabled, ui, down, mode, last, hole, raised, raced>>

\* Mutation of Kept: the position is kept with a button only.
KeptPressed == IF button THEN x ELSE last.x

Kept == x

ReadLastX == /\ cpu = "lastx"
             /\ last' = [last EXCEPT !.x = Kept]
             /\ cpu' = "lastbutton"
             /\ UNCHANGED <<shared, enabled, ui, down, new, mode, status, hole,
                            raised, raced>>

ReadLastButton ==
    /\ cpu = "lastbutton"
    /\ last' = [last EXCEPT !.button = button]
    /\ cpu' = "run"
    /\ UNCHANGED <<shared, enabled, ui, down, new, mode, status, hole, raised, raced>>

\* HOMEMOUSE.
GoHome == /\ Call
          /\ x' = Home
          /\ UNCHANGED <<button, enabled, cpu, card, hole, raced>>

\* INITMOUSE: the mode byte of the screen hole is cleared, c->mode is not.
InitMouse == /\ Call
             /\ enabled' = FALSE
             /\ UNCHANGED <<shared, cpu, card, hole, raced>>

Calls == \/ \E on \in BOOLEAN, irqs \in SUBSET Irq : SetMode(on, irqs)
         \/ Serve
         \/ ReadHigh
         \/ GoHome
         \/ InitMouse

Handlers == \/ VblButton
            \/ ReadLow \/ ReadMoved \/ ReadButton \/ ReadLastX \/ ReadLastButton

Next == Move \/ Press \/ VblMove \/ Handlers \/ Calls

\* The timers call the card back for ever (Timers!OnTime), whatever the program
\* does; what a thread began it goes on with.
Fairness == SF_vars(VblMove) /\ WF_vars(Handlers) /\ WF_vars(Press)

Spec == Init /\ [][Next]_vars /\ Fairness

-----------------------------------------------------------------------------
(* What the card promises.                                                 *)

(* Every variable has the values the code can give it.                     *)
TypeOK ==
    /\ x \in Coord /\ button \in BOOLEAN /\ enabled \in BOOLEAN
    /\ ui \in {"idle", "button"} /\ down \in BOOLEAN
    /\ cpu \in {"run", "vbl"} \union
              {"low", "status", "button", "lastx", "lastbutton"}
    /\ new \subseteq Status /\ mode \subseteq Irq /\ status \subseteq Status
    /\ last \in [x : Coord, button : BOOLEAN]
    /\ hole \in Bytes
    /\ raised \in BOOLEAN /\ raced \in BOOLEAN

(* Whatever modes are set and whenever it is served, the line is raised    *)
(* exactly when the status gives the program a reason: no interrupt comes  *)
(* that the program cannot place, and none waits that will not come.       *)
RaisedForReason == cpu # "vbl" => (raised <=> status \intersect Irq # {})

(* What the program has been told is what the card compares with to tell   *)
(* of more, unless the UI wrote in the middle of a READMOUSE: then the     *)
(* position may mix two bytes, or be one the card will say nothing about.  *)
ToldIsKept == ~Reading /\ ~raced => /\ hole = last.x
                                    /\ "BUT0" \in status <=> last.button

\* What the program asked to be interrupted for and has not been told of.
MoveUntold == "MOVE_IRQ" \in mode /\ x # hole /\ ~raced
PressUntold == "BUT_IRQ" \in mode /\ button /\ "BUT0" \notin status /\ ~raced
BlankUntold == "VBL_IRQ" \in mode

(* The program is interrupted for each thing it asked for, unless it goes  *)
(* away (a press shorter than a frame does) or the UI wrote in the middle  *)
(* of the program's READMOUSE.                                             *)
UntoldInterrupts == /\ MoveUntold ~> raised \/ ~MoveUntold
                    /\ PressUntold ~> raised \/ ~PressUntold
                    /\ BlankUntold ~> raised \/ ~BlankUntold
=============================================================================
