------------------------------- MODULE MCSsc -------------------------------
(* The bytes a program writes to reset the card, and to use it with receive *)
(* interrupts or with those of the transmitter.                             *)
EXTENDS Ssc

MCBytes == {{}, {"DTR"}, {"DTR", "IRQ_R", "IRQ_T"}}

(* What mii_ssc.c:155 says of the link, that it keeps a list of all cards. *)
(* With two cards it does not hold: the thread links its own list by it.   *)
AllCardsListed == cpu.at = "run" => Members(slots) = Card
=============================================================================
