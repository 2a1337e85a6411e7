--------------------------- MODULE MCInterrupts ---------------------------
(* The interrupt path with two IRQ sources and two nested handlers.       *)
EXTENDS Interrupts, TLC

CONSTANTS mouse, ssc

MCLines == {mouse, ssc}
MCMaxFrames == 2
Symmetry == Permutations(MCLines)

(* What mii.h:51 says of traps, that the sequence of the two NOPs triggers *)
(* the callback: the second is never executed right after the first.  It   *)
(* does not hold: an interrupt can be served between the two.              *)
TrapTriggers == at = "execute" /\ IR = "FB" => prev # "EB"
===========================================================================
