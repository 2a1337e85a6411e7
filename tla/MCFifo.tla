------------------------------- MODULE MCFifo -------------------------------
(* A FIFO of four slots, two different items to carry. *)
EXTENDS Fifo

CONSTANTS a, b, zero

MCItem == {a, b}

(* What fifo_declare.h:13 says, that the FIFO is entirely thread safe.     *)
(* With ConcurrentReset, as the serial card's dialog resets it, it does    *)
(* not hold: stale items are between the cursors.                          *)
ResetIsSafe == ContentsHeld
=============================================================================
