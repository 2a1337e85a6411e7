-------------------------------- MODULE Mmu --------------------------------
(***************************************************************************)
(* The memory map of the emulated machine: the soft switches of the C000   *)
(* page, the page table rebuilt from them, the language card, the RamWorks *)
(* bank register and the expansion ROM window at C800.                     *)
(*                                                                         *)
(* A step is one call of mii_mem_access (or mii_reset).  The 256 pages are *)
(* grouped into the regions the table never splits, named by their first   *)
(* page, and sw_state is the set of the switches that are on.              *)
(***************************************************************************)
EXTENDS Naturals

CONSTANTS
  Cards,         \* slots whose card has an expansion ROM (the serial cards)
  Avail,         \* mii->ramworks.avail: the RamWorks banks installed
  RegisterBytes, \* bytes the program writes to the RamWorks register
  Programmed,    \* bound: the switches the program touches
  Stored         \* bound: the status bytes the program stores into

ASSUME CardsAssumption == Cards \subseteq 1 .. 7
ASSUME AvailAssumption == Avail \subseteq 0 .. 127 /\ 0 \in Avail
ASSUME RegisterAssumption == RegisterBytes \subseteq 0 .. 255

VARIABLES
  emu,        \* mii->emu
  sw,         \* mii->sw_state
  status,     \* bit 7 of the switches' status bytes in the SW bank
  mem,        \* mii->mem: the banks each region reads from and writes to
  mem_dirty,  \* mii->mem_dirty
  ramworks,   \* the RamWorks register byte and the bank the AUX banks map
  aux_rom,    \* slots whose aux_rom_selected is set
  last,       \* history: whether the last step was an access or a reset
  odd_read,   \* history: the last access to C080-C08F was an odd read
  entered,    \* history: the internal ROM was accessed at C3xx since the
              \*   last CFFF or reset
  stored      \* history: status bytes the program stored a value of its own
              \*   in since the machine last wrote them

history == <<odd_read, entered, stored>>
vars == <<emu, sw, status, mem, mem_dirty, ramworks, aux_rom, last, history>>

\* The write-only switches of C000-C00B, those the video code sets, and the
\* bits with no status byte of their own.
StatusSwitch == {"80STORE", "RAMRD", "RAMWRT", "INTCXROM", "ALTPZ", "SLOTC3ROM"}
VideoSwitch == {"PAGE2", "HIRES"}
HighBits == {"DHIRES", "INTC8ROM"}
Switch == StatusSwitch \cup VideoSwitch \cup HighBits
            \cup {"BSRWRITE", "BSRREAD", "BSRPAGE2", "BSRPREWRITE"}

ASSUME ProgrammedAssumption == Programmed \subseteq StatusSwitch
                                  \cup VideoSwitch \cup {"DHIRES", "BSR"}

Bank == {"MAIN", "AUX", "BSR", "BSR_P2", "AUX_BSR", "AUX_BSR_P2", "ROM",
         "CARD_ROM", "SW"}

Region == {"00", "02", "04", "08", "20", "40", "c0", "c1", "c3", "c8",
           "d0", "e0"}

TypeOK ==
  /\ emu \in {"IIE", "IIC"}
  /\ sw \subseteq Switch
  /\ status \in [StatusSwitch \cup VideoSwitch \cup {"DHIRES"} -> BOOLEAN]
  /\ mem \in [Region -> [read : Bank, write : Bank]]
  /\ mem_dirty \in BOOLEAN
  /\ ramworks \in [register : 0 .. 255, bank : 0 .. 127]
  /\ aux_rom \subseteq Cards
  /\ last \in {"access", "reset"}
  /\ odd_read \in BOOLEAN /\ entered \in BOOLEAN
  /\ stored \subseteq StatusSwitch

-----------------------------------------------------------------------------
(***************************************************************************)
(* mii_page_table_update: a clean slate, then the switches' overrides in   *)
(* the order the code applies them.  Each is a mii_page_set.               *)
(***************************************************************************)
Same == "same"

PageSet(table, read, write, regions) ==
  [r \in Region |->
     IF r \in regions
       THEN [read  |-> IF read = Same THEN table[r].read ELSE read,
             write |-> IF write = Same THEN table[r].write ELSE write]
       ELSE table[r]]

Ram02bf == {"02", "04", "08", "20", "40"}
RomC1cf == {"c1", "c3", "c8"}
RomD0ff == {"d0", "e0"}

CleanSlate ==
  [r \in Region |-> [read |-> "MAIN", write |-> "MAIN"]]

Pick(on, yes, no) == IF on THEN yes ELSE no

\* 0000-BFFF: ALTPZ, RAMRD and RAMWRT, then 80STORE's windows over them.
RamTable(s, table) ==
  LET page2 == Pick("PAGE2" \in s, "AUX", "MAIN")
      zp == PageSet(table, "AUX", "AUX", IF "ALTPZ" \in s THEN {"00"} ELSE {})
      ram == PageSet(zp, Pick("RAMRD" \in s, "AUX", "MAIN"),
                     Pick("RAMWRT" \in s, "AUX", "MAIN"), Ram02bf)
      text == PageSet(ram, page2, page2,
                      IF "80STORE" \in s THEN {"04"} ELSE {})
  IN PageSet(text, page2, page2,
             IF {"80STORE", "HIRES"} \subseteq s THEN {"20"} ELSE {})

\* C100-CFFF: the slots' ROMs replace the internal ROM, except where the
\* internal 80 column firmware is wanted.  The //c keeps its own ROM.
SlotTable(e, s, table) ==
  LET slots == e = "IIE" /\ "INTCXROM" \notin s
      cards == PageSet(table, "CARD_ROM", "CARD_ROM",
                       IF slots THEN RomC1cf ELSE {})
      c3 == PageSet(cards, "ROM", Same,
                    IF slots /\ "SLOTC3ROM" \notin s THEN {"c3"} ELSE {})
  IN PageSet(c3, "ROM", Same,
             IF slots /\ "INTC8ROM" \in s THEN {"c8"} ELSE {})

\* D000-FFFF: the language card.
CardTable(s, table) ==
  LET ram == Pick("ALTPZ" \in s, "AUX_BSR", "BSR")
      ram2 == Pick("BSRPAGE2" \in s,
                   Pick("ALTPZ" \in s, "AUX_BSR_P2", "BSR_P2"), ram)
      read(bank) == Pick("BSRREAD" \in s, bank, "ROM")
      write(bank) == Pick("BSRWRITE" \in s, bank, "ROM")
  IN PageSet(PageSet(table, read(ram), write(ram), RomD0ff),
             read(ram2), write(ram2), {"d0"})

PageTable(e, s) ==
  LET io == PageSet(CleanSlate, "SW", "SW", {"c0"})
      rom == PageSet(io, "ROM", "ROM", RomC1cf \cup RomD0ff)
  IN CardTable(s, SlotTable(e, s, RamTable(s, rom)))

\* Mutation of Rebuild: only a table that was dirty before is rebuilt.
RebuildLate(dirty, s) ==
  /\ sw' = s
  /\ mem' = IF mem_dirty THEN PageTable(emu, s) ELSE mem
  /\ mem_dirty' = dirty

\* The rebuild that ends an access: nothing unless the table is dirty.
Rebuild(dirty, s) ==
  /\ sw' = s
  /\ mem' = IF dirty THEN PageTable(emu, s) ELSE mem
  /\ mem_dirty' = FALSE

Put(set, bit, on) == IF on THEN set \cup {bit} ELSE set \ {bit}

\* Mutation of sw_save: the language card's bits are cut off as well.
sw_save_low == sw \ (HighBits \cup {"BSRWRITE", "BSRREAD", "BSRPAGE2",
                                    "BSRPREWRITE"})

\* sw_save has 16 bits where sw_state has 32: the two high ones are cut off.
sw_save == sw \ HighBits

-----------------------------------------------------------------------------
\* A write to one of the switch pairs of C000-C00B.  The //c has no slot
\* ROMs: INTCXROM stays on there, and its status byte is left alone.
WriteSwitch(s, on) ==
  /\ s \in StatusSwitch \cap Programmed
  /\ LET internal == emu = "IIC" /\ s = "INTCXROM"
         new == Put(sw, s, on \/ internal)
     IN /\ status' = IF internal THEN status ELSE [status EXCEPT ![s] = on]
        /\ stored' = IF internal THEN stored ELSE stored \ {s}
        /\ Rebuild(mem_dirty \/ sw_save # new, new)
  /\ last' = "access"
  /\ UNCHANGED <<emu, ramworks, aux_rom, odd_read, entered>>

\* A write to C013-C018, where the switches are read.  No handler takes it,
\* and the access ends in the SW bank: the byte is stored over the status.
StoreStatus(s, on) ==
  /\ s \in StatusSwitch \cap Stored
  /\ status' = [status EXCEPT ![s] = on]
  /\ stored' = stored \cup {s}
  /\ Rebuild(mem_dirty \/ sw_save # sw, sw)
  /\ last' = "access"
  /\ UNCHANGED <<emu, ramworks, aux_rom, odd_read, entered>>

\* PAGE2 and HIRES, by a read or a write: the video code sets the switch and
\* its status byte, the soft switch code then has the table rebuilt.
VideoAccess(s, on) ==
  /\ s \in VideoSwitch \cap Programmed
  /\ status' = [status EXCEPT ![s] = on]
  /\ Rebuild(TRUE, Put(sw, s, on))
  /\ last' = "access"
  /\ UNCHANGED <<emu, ramworks, aux_rom, history>>

\* DHIRES is the video code's alone: the access ends there.
Dhires(on) ==
  /\ "DHIRES" \in Programmed
  /\ status' = [status EXCEPT !["DHIRES"] = on]
  /\ sw' = Put(sw, "DHIRES", on)
  /\ last' = "access"
  /\ UNCHANGED <<emu, mem, mem_dirty, ramworks, aux_rom, history>>

\* Mutation of WriteEnables: a write access counts for a read.
WriteEnablesAny(odd, write) == odd /\ "BSRPREWRITE" \in sw

\* Does this access to C080-C08F make the RAM writable?
WriteEnables(odd, write) == odd /\ ~write /\ "BSRPREWRITE" \in sw

\* C080-C08F: odd and ram are bits 0 and 1 of the address, page2 is bit 3
\* clear.
LanguageCardBits(odd, ram, page2, write) ==
  LET w == IF odd THEN Put(sw, "BSRWRITE",
                           WriteEnables(odd, write) \/ "BSRWRITE" \in sw)
                  ELSE sw \ {"BSRWRITE"}
      pre == Put(w, "BSRPREWRITE", odd /\ ~write)
      r == Put(pre, "BSRREAD", odd <=> ram)
  IN Put(r, "BSRPAGE2", page2)

LanguageCard(odd, ram, page2, write) ==
  /\ "BSR" \in Programmed
  /\ LET new == LanguageCardBits(odd, ram, page2, write)
     IN Rebuild(sw_save # new, new)
  /\ odd_read' = (odd /\ ~write)
  /\ last' = "access"
  /\ UNCHANGED <<emu, status, ramworks, aux_rom, entered, stored>>

\* mii_bank_update_ramworks: a bank that is not installed selects bank 0.
UpdateRamworks(byte) == IF byte \in Avail THEN byte ELSE 0

WriteRamworks(byte) ==
  /\ ramworks' = [register |-> byte, bank |-> UpdateRamworks(byte)]
  /\ Rebuild(mem_dirty \/ sw_save # sw, sw)
  /\ last' = "access"
  /\ UNCHANGED <<emu, status, aux_rom, history>>

(***************************************************************************)
(* Accesses above C0FF, by the CPU or by the debugger (do_sw FALSE): the   *)
(* code makes no difference between the two there.                         *)
(***************************************************************************)

\* C3xx, where the page maps the internal ROM: its callback turns on the
\* internal ROM at C800.
AccessC3(way) ==
  /\ mem["c3"][way] = "ROM"
  /\ IF sw \cap {"SLOTC3ROM", "INTC8ROM"} = {}
       THEN Rebuild(TRUE, sw \cup {"INTC8ROM"})
       ELSE UNCHANGED <<sw, mem, mem_dirty>>
  /\ entered' = TRUE
  /\ last' = "access"
  /\ UNCHANGED <<emu, status, ramworks, aux_rom, odd_read, stored>>

\* CFFF turns the internal ROM off and deselects the cards' ROMs.
AccessCFFF ==
  /\ IF "INTC8ROM" \in sw
       THEN /\ Rebuild(TRUE, sw \ {"INTC8ROM"})
            /\ aux_rom' = {}
       ELSE UNCHANGED <<sw, mem, mem_dirty, aux_rom>>
  /\ entered' = FALSE
  /\ last' = "access"
  /\ UNCHANGED <<emu, status, ramworks, odd_read, stored>>

\* A card's own page, where the cards are mapped: its callback installs the
\* card's ROM at C800, once, and remembers it did.
AccessCard(slot, way) ==
  /\ mem[IF slot = 3 THEN "c3" ELSE "c1"][way] = "CARD_ROM"
  /\ aux_rom' = aux_rom \cup {slot}
  /\ last' = "access"
  /\ UNCHANGED <<emu, sw, status, mem, mem_dirty, ramworks, history>>

\* Mutation of ResetStatus: ALTPZ's byte is forgotten.
ResetStatusBut(cold) ==
  {"SLOTC3ROM", "RAMRD", "RAMWRT", "80STORE"}
    \cup IF cold THEN {"INTCXROM"} ELSE {}

\* mii_reset.  RAM, the RamWorks mapping and the cards' ROMs are kept; of the
\* status bytes only some are poked back, INTCXROM's only on a cold reset.
ResetStatus(cold) ==
  {"SLOTC3ROM", "RAMRD", "RAMWRT", "ALTPZ", "80STORE"}
    \cup IF cold THEN {"INTCXROM"} ELSE {}

ResetState == {"BSRWRITE", "BSRPAGE2"}

Reset(cold) ==
  /\ status' = [s \in DOMAIN status |->
                  s \notin ResetStatus(cold) /\ status[s]]
  /\ ramworks' = [ramworks EXCEPT !.register = 0]
  /\ Rebuild(TRUE, ResetState)
  /\ last' = "reset"
  /\ odd_read' = FALSE
  /\ entered' = FALSE
  /\ stored' = stored \ ResetStatus(cold)
  /\ UNCHANGED <<emu, aux_rom>>

\* After mii_init and the cold mii_reset the command line's machine gets.
Init ==
  /\ emu \in {"IIE", "IIC"}
  /\ sw = ResetState
  /\ status = [s \in StatusSwitch \cup VideoSwitch \cup {"DHIRES"} |-> FALSE]
  /\ mem = PageTable(emu, ResetState)
  /\ mem_dirty = FALSE
  /\ ramworks = [register |-> 0, bank |-> 0]
  /\ aux_rom = {}
  /\ last = "reset"
  /\ odd_read = FALSE
  /\ entered = FALSE
  /\ stored = {}

SwitchAccess ==
  \/ \E on \in BOOLEAN :
       \/ \E s \in StatusSwitch : WriteSwitch(s, on) \/ StoreStatus(s, on)
       \/ \E s \in VideoSwitch : VideoAccess(s, on)
       \/ Dhires(on)
  \/ \E odd, ram, page2, write \in BOOLEAN :
       LanguageCard(odd, ram, page2, write)
  \/ \E byte \in RegisterBytes : WriteRamworks(byte)

RomAccess ==
  \/ AccessCFFF
  \/ \E way \in {"read", "write"} :
       \/ AccessC3(way)
       \/ \E slot \in Cards : AccessCard(slot, way)

Next ==
  \/ SwitchAccess
  \/ RomAccess
  \/ \E cold \in BOOLEAN : Reset(cold)

Spec == Init /\ [][Next]_vars

-----------------------------------------------------------------------------
(***************************************************************************)
(* The memory map of the machine, switch by switch: where each region is   *)
(* read and written, said for the region rather than as overrides in an    *)
(* order.  The reference the table is compared with.                       *)
(***************************************************************************)
Decode(e, s, r, way) ==
  LET aux == IF way = "read" THEN "RAMRD" ELSE "RAMWRT"
      lc == IF way = "read" THEN "BSRREAD" ELSE "BSRWRITE"
      windows == {"04"} \cup IF "HIRES" \in s THEN {"20"} ELSE {}
  IN CASE r = "00" -> IF "ALTPZ" \in s THEN "AUX" ELSE "MAIN"
       [] r \in Ram02bf ->
            IF "80STORE" \in s /\ r \in windows
              THEN IF "PAGE2" \in s THEN "AUX" ELSE "MAIN"
              ELSE IF aux \in s THEN "AUX" ELSE "MAIN"
       [] r = "c0" -> "SW"
       [] r \in RomC1cf ->
            IF \/ e = "IIC"
               \/ "INTCXROM" \in s
               \/ way = "read" /\ r = "c3" /\ "SLOTC3ROM" \notin s
               \/ way = "read" /\ r = "c8" /\ "INTC8ROM" \in s
              THEN "ROM" ELSE "CARD_ROM"
       [] r \in RomD0ff ->
            IF lc \notin s THEN "ROM"
            ELSE IF r = "d0" /\ "BSRPAGE2" \in s
              THEN IF "ALTPZ" \in s THEN "AUX_BSR_P2" ELSE "BSR_P2"
              ELSE IF "ALTPZ" \in s THEN "AUX_BSR" ELSE "BSR"

(***************************************************************************)
(* After every access the table maps every region as the switches say: no  *)
(* path through the handlers changes a switch and leaves a stale page, and *)
(* no override hides another.                                              *)
(***************************************************************************)
TableIsCurrent ==
  \A r \in Region : /\ mem[r].read = Decode(emu, sw, r, "read")
                    /\ mem[r].write = Decode(emu, sw, r, "write")

(***************************************************************************)
(* The status bytes a program reads at C013-C018 agree with the switches,  *)
(* over resets too, until the program stores into one: a write there       *)
(* changes what is read and no switch, until the switch's own addresses    *)
(* or a reset write the byte again.  A warm reset turns INTCXROM, PAGE2    *)
(* and HIRES off and leaves their bytes: those may say on for a switch     *)
(* that is off, never off for one that is on (but for INTCXROM on the      *)
(* //c).                                                                   *)
(***************************************************************************)
StatusAgrees ==
  /\ \A s \in StatusSwitch \ (stored \cup {"INTCXROM"}) :
       status[s] <=> s \in sw
  /\ \A s \in (DOMAIN status \cap sw) \ stored :
       status[s] \/ (emu = "IIC" /\ s = "INTCXROM")

(***************************************************************************)
(* Language card RAM becomes writable only by two odd reads of C080-C08F   *)
(* with no other access to that range between them, or by a reset.         *)
(***************************************************************************)
WriteEnableTakesTwoReads ==
  [][ "BSRWRITE" \notin sw /\ "BSRWRITE" \in sw'
        => last' = "reset" \/ (odd_read /\ odd_read') ]_vars

(***************************************************************************)
(* The internal ROM never lingers at C800 nor comes there by itself: it is *)
(* read there only if C3xx was accessed, while the internal ROM was mapped *)
(* there, since the last CFFF or reset, or if INTCXROM or the //c has all  *)
(* the internal ROM in place.                                              *)
(***************************************************************************)
InternalRomLeaves ==
  mem["c8"].read = "ROM" => entered \/ emu = "IIC" \/ "INTCXROM" \in sw

=============================================================================
