------------------------------- MODULE MCMmu -------------------------------
(* The whole memory map, with two cards and two banks of RamWorks.         *)
EXTENDS Mmu

AllSwitches == StatusSwitch \cup VideoSwitch \cup {"DHIRES", "BSR"}

\* Bank 1 is installed; 200 is not.
MCAvail == {0, 1}
MCBytes == {0, 1, 200}
TwoCards == {1, 2}

\* One byte of each group below.
TwoBytes == {"80STORE", "INTCXROM"}

(* The regions 00 to 40, and those from c0 on, have no switch in common    *)
(* but ALTPZ.  TLC goes on from a state only when the switches of one of   *)
(* the two groups are at rest, and its status byte is the machine's: each  *)
(* step of either is taken in every state of its own group, and with       *)
(* either value of ALTPZ.                                                  *)
RamAtRest == /\ sw \cap {"80STORE", "PAGE2", "HIRES", "RAMRD", "RAMWRT"} = {}
             /\ ramworks = [register |-> 0, bank |-> 0]
             /\ "80STORE" \notin stored
RomAtRest == /\ sw \cap {"INTCXROM", "SLOTC3ROM", "INTC8ROM"} = {}
             /\ sw \cap {"BSRREAD", "BSRWRITE", "BSRPAGE2", "BSRPREWRITE"}
                  = ResetState
             /\ aux_rom = {} /\ ~entered
             /\ "INTCXROM" \notin stored
OneSide == RamAtRest \/ RomAtRest
=============================================================================
