------------------------------ MODULE MmuProofs ------------------------------
(***************************************************************************)
(* Proofs about the memory map, for any set of cards, of installed         *)
(* RamWorks banks and of switches the program touches.                     *)
(***************************************************************************)
EXTENDS Mmu, TLAPS

\* What a mii_page_set leaves in each region.
LEMMA PageSetEffect ==
  ASSUME NEW table, NEW read, NEW write, NEW regions, NEW r \in Region
  PROVE  /\ PageSet(table, read, write, regions)[r].read =
              IF r \in regions /\ read # Same THEN read ELSE table[r].read
         /\ PageSet(table, read, write, regions)[r].write =
              IF r \in regions /\ write # Same THEN write ELSE table[r].write
  BY DEF PageSet

\* The table agrees with the memory map in one direction of access.
Agrees(table, e, s, r) ==
  /\ table[r].read = Decode(e, s, r, "read")
  /\ table[r].write = Decode(e, s, r, "write")

\* The RAM overrides reach no page above BFFF, and below it they leave what
\* the switches say whatever was there.
LEMMA RamTableEffect ==
  ASSUME NEW e, NEW s, NEW table, NEW r \in Region
  PROVE  /\ r \in {"00"} \cup Ram02bf /\ table[r] = CleanSlate[r]
              => Agrees(RamTable(s, table), e, s, r)
         /\ r \notin {"00"} \cup Ram02bf
              => /\ RamTable(s, table)[r].read = table[r].read
                 /\ RamTable(s, table)[r].write = table[r].write
  <1>1. CASE r \in {"00"} \cup Ram02bf
    BY <1>1, PageSetEffect DEF RamTable, Ram02bf, Agrees, Decode, CleanSlate,
                               Pick, Same, Region, RomC1cf, RomD0ff
  <1>2. CASE r \notin {"00"} \cup Ram02bf
    BY <1>2, PageSetEffect DEF RamTable, Ram02bf, Pick, Same
  <1>. QED
    BY <1>1, <1>2

LEMMA SlotTableEffect ==
  ASSUME NEW e \in {"IIE", "IIC"}, NEW s, NEW table, NEW r \in Region
  PROVE  /\ r \in RomC1cf /\ table[r].read = "ROM" /\ table[r].write = "ROM"
              => Agrees(SlotTable(e, s, table), e, s, r)
         /\ r \notin RomC1cf
              => /\ SlotTable(e, s, table)[r].read = table[r].read
                 /\ SlotTable(e, s, table)[r].write = table[r].write
  <1>1. CASE r \in RomC1cf
    BY <1>1, PageSetEffect DEF SlotTable, Ram02bf, Agrees, Decode, RomC1cf,
                               Same, RomD0ff
  <1>2. CASE r \notin RomC1cf
    BY <1>2, PageSetEffect DEF SlotTable, RomC1cf, Same
  <1>. QED
    BY <1>1, <1>2

LEMMA CardTableEffect ==
  ASSUME NEW e, NEW s, NEW table, NEW r \in Region
  PROVE  /\ r \in RomD0ff
              => Agrees(CardTable(s, table), e, s, r)
         /\ r \notin RomD0ff
              => /\ CardTable(s, table)[r].read = table[r].read
                 /\ CardTable(s, table)[r].write = table[r].write
  <1>1. CASE r \in RomD0ff
    BY <1>1, PageSetEffect DEF CardTable, Ram02bf, Agrees, Decode, RomC1cf,
                               Pick, Same, RomD0ff
  <1>2. CASE r \notin RomD0ff
    BY <1>2, PageSetEffect DEF CardTable, RomD0ff, Same, Pick
  <1>. QED
    BY <1>1, <1>2

(***************************************************************************)
(* The overrides of mii_page_table_update, in their order, add up to the   *)
(* memory map said region by region.                                       *)
(***************************************************************************)
THEOREM PageTableDecodes ==
  ASSUME NEW e \in {"IIE", "IIC"}, NEW s, NEW r \in Region
  PROVE  Agrees(PageTable(e, s), e, s, r)
  <1> DEFINE io == PageSet(CleanSlate, "SW", "SW", {"c0"})
             rom == PageSet(io, "ROM", "ROM", RomC1cf \cup RomD0ff)
             ram == RamTable(s, rom)
             slots == SlotTable(e, s, ram)
  <1>1. PageTable(e, s) = CardTable(s, slots)
    BY DEF PageTable
  <1> HIDE DEF ram, slots
  <1>2. CASE r \in RomD0ff
    BY <1>1, <1>2, CardTableEffect
  <1>3. CASE r \in RomC1cf
    <2>1. /\ rom[r].read = "ROM"
          /\ rom[r].write = "ROM"
      BY <1>3, PageSetEffect DEF Same
    <2>2. ram[r].read = "ROM" /\ ram[r].write = "ROM"
      BY <1>3, <2>1, RamTableEffect DEF ram, RomC1cf, Ram02bf
    <2>3. Agrees(slots, e, s, r)
      BY <1>3, <2>2, SlotTableEffect DEF slots
    <2>. QED
      BY <1>1, <1>3, <2>3, CardTableEffect DEF Agrees, RomC1cf, RomD0ff
  <1>4. CASE r \in {"00"} \cup Ram02bf
    <2>1. rom[r] = CleanSlate[r]
      BY <1>4 DEF PageSet, RomC1cf, RomD0ff, Ram02bf
    <2>2. Agrees(ram, e, s, r)
      BY <1>4, <2>1, RamTableEffect DEF ram
    <2>3. Agrees(slots, e, s, r)
      BY <1>4, <2>2, SlotTableEffect DEF slots, Agrees, RomC1cf, Ram02bf
    <2>. QED
      BY <1>1, <1>4, <2>3, CardTableEffect DEF Agrees, Ram02bf, RomD0ff
  <1>5. CASE r = "c0"
    <2>0. io[r].read = "SW" /\ io[r].write = "SW"
      BY <1>5, PageSetEffect DEF Same
    <2>1. rom[r].read = "SW" /\ rom[r].write = "SW"
      BY <1>5, <2>0, PageSetEffect DEF Same, RomC1cf, RomD0ff
    <2>2. ram[r].read = "SW" /\ ram[r].write = "SW"
      BY <1>5, <2>1, RamTableEffect DEF ram, Ram02bf
    <2>3. slots[r].read = "SW" /\ slots[r].write = "SW"
      BY <1>5, <2>2, SlotTableEffect DEF slots, RomC1cf
    <2>4. /\ PageTable(e, s)[r].read = "SW"
          /\ PageTable(e, s)[r].write = "SW"
      BY <1>1, <1>5, <2>3, CardTableEffect DEF RomD0ff
    <2>5. Decode(e, s, r, "read") = "SW" /\ Decode(e, s, r, "write") = "SW"
      BY <1>5 DEF Decode, Ram02bf, RomC1cf, RomD0ff
    <2>. QED
      BY <2>4, <2>5 DEF Agrees
  <1>. QED
    BY <1>2, <1>3, <1>4, <1>5 DEF Region, RomC1cf, RomD0ff, Ram02bf

-----------------------------------------------------------------------------
(***************************************************************************)
(* The inductive invariant: no access ends with the table dirty, which is  *)
(* what lets LanguageCard overwrite mem_dirty without losing a rebuild.    *)
(***************************************************************************)
IInv ==
  /\ TypeOK
  /\ ~mem_dirty
  /\ TableIsCurrent

LEMMA PageTableType ==
  ASSUME NEW e \in {"IIE", "IIC"}, NEW s
  PROVE  PageTable(e, s) \in [Region -> [read : Bank, write : Bank]]
  <1>1. ASSUME NEW table \in [Region -> [read : Bank, write : Bank]],
               NEW rd \in Bank \cup {Same}, NEW wr \in Bank \cup {Same},
               NEW regions
        PROVE  PageSet(table, rd, wr, regions)
                  \in [Region -> [read : Bank, write : Bank]]
    BY <1>1 DEF PageSet
  <1>2. CleanSlate \in [Region -> [read : Bank, write : Bank]]
    BY DEF CleanSlate, Bank
  <1> DEFINE rom == PageSet(PageSet(CleanSlate, "SW", "SW", {"c0"}),
                            "ROM", "ROM", RomC1cf \cup RomD0ff)
  <1>3. rom \in [Region -> [read : Bank, write : Bank]]
    BY <1>1, <1>2 DEF Bank
  <1> HIDE DEF rom
  <1>4. RamTable(s, rom) \in [Region -> [read : Bank, write : Bank]]
    BY <1>1, <1>3 DEF RamTable, Pick, Bank
  <1>5. SlotTable(e, s, RamTable(s, rom))
           \in [Region -> [read : Bank, write : Bank]]
    BY <1>1, <1>4 DEF SlotTable, Bank
  <1>6. CardTable(s, SlotTable(e, s, RamTable(s, rom)))
           \in [Region -> [read : Bank, write : Bank]]
    BY <1>1, <1>5 DEF CardTable, Pick, Bank
  <1>. QED
    BY <1>6 DEF PageTable, rom

\* A rebuild leaves a current table, provided that a step which skips it
\* does not change a switch.
LEMMA RebuildEffect ==
  ASSUME IInv, emu' = emu, NEW dirty \in BOOLEAN, NEW s \in SUBSET Switch,
         Rebuild(dirty, s), ~dirty => s = sw
  PROVE  /\ sw' \subseteq Switch
         /\ mem' \in [Region -> [read : Bank, write : Bank]]
         /\ ~mem_dirty' /\ mem_dirty' \in BOOLEAN
         /\ TableIsCurrent'
  <1>1. CASE dirty
    <2>1. emu \in {"IIE", "IIC"}
      BY DEF IInv, TypeOK
    <2>2. sw' = s /\ mem' = PageTable(emu, s) /\ mem_dirty' = FALSE
      BY <1>1 DEF Rebuild
    <2>3. mem' \in [Region -> [read : Bank, write : Bank]]
      BY <2>1, <2>2, PageTableType
    <2>4. ASSUME NEW r \in Region
          PROVE  Agrees(mem', emu', sw', r)
      BY <2>1, <2>2, PageTableDecodes
    <2>5. TableIsCurrent'
      BY <2>4 DEF TableIsCurrent, Agrees
    <2>. QED
      BY <2>2, <2>3, <2>5
  <1>2. CASE ~dirty
    BY <1>2 DEF Rebuild, IInv, TypeOK, TableIsCurrent
  <1>. QED
    BY <1>1, <1>2

\* DHIRES is no part of the memory map.
LEMMA DhiresNotMapped ==
  ASSUME NEW e, NEW s, NEW on \in BOOLEAN, NEW r \in Region,
         NEW way \in {"read", "write"}
  PROVE  Decode(e, Put(s, "DHIRES", on), r, way) = Decode(e, s, r, way)
  BY DEF Decode, Put, Region, Ram02bf, RomC1cf, RomD0ff

LEMMA InitIInv == Init => IInv
  <1> SUFFICES ASSUME Init PROVE IInv
    OBVIOUS
  <1>1. TypeOK
    <2>1. mem \in [Region -> [read : Bank, write : Bank]]
      BY PageTableType DEF Init
    <2>2. sw \subseteq Switch
      BY DEF Init, ResetState, Switch
    <2>3. aux_rom \subseteq Cards /\ odd_read \in BOOLEAN
      BY DEF Init
    <2>4. status \in [StatusSwitch \cup VideoSwitch \cup {"DHIRES"} -> BOOLEAN]
      BY DEF Init
    <2>5. ramworks \in [register : 0 .. 255, bank : 0 .. 127]
      BY DEF Init
    <2>6. last \in {"access", "reset"} /\ entered \in BOOLEAN
           /\ stored \subseteq StatusSwitch
      BY DEF Init
    <2>7. emu \in {"IIE", "IIC"} /\ mem_dirty \in BOOLEAN
      BY DEF Init
    <2>. QED
      BY <2>1, <2>2, <2>3, <2>4, <2>5, <2>6, <2>7 DEF TypeOK
  <1>2. TableIsCurrent
    <2>1. ASSUME NEW r \in Region
          PROVE  Agrees(mem, emu, sw, r)
      BY PageTableDecodes DEF Init
    <2>. QED
      BY <2>1 DEF TableIsCurrent, Agrees
  <1>. QED
    BY <1>1, <1>2 DEF Init, IInv

LEMMA NextIInv == IInv /\ [Next]_vars => IInv'
  <1> SUFFICES ASSUME IInv, [Next]_vars
               PROVE  IInv'
    OBVIOUS
  <1>0. TypeOK /\ ~mem_dirty /\ mem_dirty \in BOOLEAN
    BY DEF IInv, TypeOK
  <1>1. ASSUME NEW s \in StatusSwitch, NEW on \in BOOLEAN, WriteSwitch(s, on)
        PROVE  IInv'
    <2> DEFINE internal == emu = "IIC" /\ s = "INTCXROM"
               new == Put(sw, s, on \/ internal)
               dirty == mem_dirty \/ sw_save # new
    <2>1. new \subseteq Switch
      BY <1>0 DEF TypeOK, Put, Switch
    <2>2. ~dirty => new = sw
      BY <1>0 DEF sw_save, Put, HighBits, StatusSwitch
    <2>3. emu' = emu /\ Rebuild(dirty, new)
      BY <1>1 DEF WriteSwitch
    <2> HIDE DEF new
    <2>4. /\ sw' \subseteq Switch
          /\ mem' \in [Region -> [read : Bank, write : Bank]]
          /\ ~mem_dirty' /\ mem_dirty' \in BOOLEAN
          /\ TableIsCurrent'
      BY <1>0, <2>1, <2>2, <2>3, RebuildEffect
    <2>5. status' \in [StatusSwitch \cup VideoSwitch \cup {"DHIRES"} -> BOOLEAN]
      BY <1>0, <1>1 DEF WriteSwitch, TypeOK
    <2>. QED
      BY <1>0, <1>1, <2>4, <2>5 DEF WriteSwitch, TypeOK, IInv
  <1>2. ASSUME NEW s \in VideoSwitch, NEW on \in BOOLEAN, VideoAccess(s, on)
        PROVE  IInv'
    <2>1. Put(sw, s, on) \subseteq Switch
      BY <1>0 DEF TypeOK, Put, Switch
    <2>2. /\ sw' \subseteq Switch
          /\ mem' \in [Region -> [read : Bank, write : Bank]]
          /\ ~mem_dirty' /\ mem_dirty' \in BOOLEAN
          /\ TableIsCurrent'
      BY <1>2, <2>1, RebuildEffect DEF VideoAccess
    <2>3. status' \in [StatusSwitch \cup VideoSwitch \cup {"DHIRES"} -> BOOLEAN]
      BY <1>0, <1>2 DEF VideoAccess, TypeOK
    <2>. QED
      BY <1>0, <1>2, <2>2, <2>3 DEF VideoAccess, TypeOK, IInv, history
  <1>3. ASSUME NEW on \in BOOLEAN, Dhires(on)
        PROVE  IInv'
    <2>1. sw' \subseteq Switch
      BY <1>0, <1>3 DEF Dhires, TypeOK, Put, Switch, HighBits
    <2>2. TableIsCurrent'
      BY <1>3, DhiresNotMapped DEF Dhires, IInv, TableIsCurrent
    <2>3. status' \in [StatusSwitch \cup VideoSwitch \cup {"DHIRES"} -> BOOLEAN]
      BY <1>0, <1>3 DEF Dhires, TypeOK
    <2>. QED
      BY <1>0, <1>3, <2>1, <2>2, <2>3 DEF Dhires, TypeOK, IInv, history
  <1>4. ASSUME NEW odd \in BOOLEAN, NEW ram \in BOOLEAN,
               NEW page2 \in BOOLEAN, NEW write \in BOOLEAN,
               LanguageCard(odd, ram, page2, write)
        PROVE  IInv'
    <2> DEFINE new == LanguageCardBits(odd, ram, page2, write)
    <2>1. new \subseteq Switch
      BY <1>0 DEF TypeOK, LanguageCardBits, WriteEnables, Put, Switch
    <2>2. sw \cap HighBits \subseteq new
      BY DEF LanguageCardBits, Put, HighBits
    <2>3. sw_save = new => new = sw
      BY <2>2 DEF sw_save
    <2>4. /\ sw' \subseteq Switch
          /\ mem' \in [Region -> [read : Bank, write : Bank]]
          /\ ~mem_dirty' /\ mem_dirty' \in BOOLEAN
          /\ TableIsCurrent'
      <3> HIDE DEF new
      <3>1. emu' = emu /\ Rebuild(sw_save # new, new)
        BY <1>4 DEF LanguageCard, new
      <3>. QED
        BY <2>1, <2>3, <3>1, RebuildEffect
    <2>. QED
      BY <1>0, <1>4, <2>4 DEF LanguageCard, TypeOK, IInv
  <1>5. ASSUME NEW byte \in RegisterBytes, WriteRamworks(byte)
        PROVE  IInv'
    <2>1. ramworks' \in [register : 0 .. 255, bank : 0 .. 127]
      BY <1>5, AvailAssumption, RegisterAssumption
         DEF WriteRamworks, UpdateRamworks
    <2>2. /\ sw' \subseteq Switch
          /\ mem' \in [Region -> [read : Bank, write : Bank]]
          /\ ~mem_dirty' /\ mem_dirty' \in BOOLEAN
          /\ TableIsCurrent'
      BY <1>0, <1>5, RebuildEffect DEF WriteRamworks, TypeOK
    <2>. QED
      BY <1>0, <1>5, <2>1, <2>2 DEF WriteRamworks, TypeOK, IInv, history
  <1>6. CASE AccessCFFF
    <2>1. CASE "INTC8ROM" \in sw
      <3>1. /\ sw' \subseteq Switch
            /\ mem' \in [Region -> [read : Bank, write : Bank]]
            /\ ~mem_dirty' /\ mem_dirty' \in BOOLEAN
            /\ TableIsCurrent'
        BY <1>0, <1>6, <2>1, RebuildEffect DEF AccessCFFF, TypeOK
      <3>. QED
        BY <1>0, <1>6, <2>1, <3>1 DEF AccessCFFF, TypeOK, IInv
    <2>2. CASE "INTC8ROM" \notin sw
      BY <1>0, <1>6, <2>2 DEF AccessCFFF, TypeOK, IInv, TableIsCurrent
    <2>. QED
      BY <2>1, <2>2
  <1>7. ASSUME NEW way \in {"read", "write"}, AccessC3(way)
        PROVE  IInv'
    <2>1. CASE sw \cap {"SLOTC3ROM", "INTC8ROM"} = {}
      <3>1. sw \cup {"INTC8ROM"} \subseteq Switch
        BY <1>0 DEF TypeOK, Switch, HighBits
      <3>2. /\ sw' \subseteq Switch
            /\ mem' \in [Region -> [read : Bank, write : Bank]]
            /\ ~mem_dirty' /\ mem_dirty' \in BOOLEAN
            /\ TableIsCurrent'
        BY <1>7, <2>1, <3>1, RebuildEffect DEF AccessC3
      <3>. QED
        BY <1>0, <1>7, <2>1, <3>2 DEF AccessC3, TypeOK, IInv
    <2>2. CASE sw \cap {"SLOTC3ROM", "INTC8ROM"} # {}
      BY <1>0, <1>7, <2>2 DEF AccessC3, TypeOK, IInv, TableIsCurrent
    <2>. QED
      BY <2>1, <2>2
  <1>8. ASSUME NEW slot \in Cards, NEW way \in {"read", "write"},
               AccessCard(slot, way)
        PROVE  IInv'
    BY <1>0, <1>8 DEF AccessCard, TypeOK, IInv, TableIsCurrent, history
  <1>9. ASSUME NEW cold \in BOOLEAN, Reset(cold)
        PROVE  IInv'
    <2>1. ResetState \subseteq Switch
      BY DEF ResetState, Switch
    <2>2. /\ sw' \subseteq Switch
          /\ mem' \in [Region -> [read : Bank, write : Bank]]
          /\ ~mem_dirty' /\ mem_dirty' \in BOOLEAN
          /\ TableIsCurrent'
      BY <1>9, <2>1, RebuildEffect DEF Reset
    <2>3. status' \in [StatusSwitch \cup VideoSwitch \cup {"DHIRES"} -> BOOLEAN]
      BY <1>0, <1>9 DEF Reset, TypeOK
    <2>4. ramworks' \in [register : 0 .. 255, bank : 0 .. 127]
      BY <1>0, <1>9 DEF Reset, TypeOK
    <2>. QED
      BY <1>0, <1>9, <2>2, <2>3, <2>4 DEF Reset, TypeOK, IInv
  <1>11. ASSUME NEW s \in StatusSwitch, NEW on \in BOOLEAN, StoreStatus(s, on)
         PROVE  IInv'
    <2>1. /\ sw' \subseteq Switch
          /\ mem' \in [Region -> [read : Bank, write : Bank]]
          /\ ~mem_dirty' /\ mem_dirty' \in BOOLEAN
          /\ TableIsCurrent'
      BY <1>0, <1>11, RebuildEffect DEF StoreStatus, TypeOK
    <2>2. status' \in [StatusSwitch \cup VideoSwitch \cup {"DHIRES"} -> BOOLEAN]
      BY <1>0, <1>11 DEF StoreStatus, TypeOK
    <2>. QED
      BY <1>0, <1>11, <2>1, <2>2 DEF StoreStatus, TypeOK, IInv
  <1>10. CASE UNCHANGED vars
    BY <1>0, <1>10 DEF vars, history, TypeOK, IInv, TableIsCurrent
  <1>. QED
    BY <1>1, <1>2, <1>3, <1>4, <1>5, <1>6, <1>7, <1>8, <1>9, <1>10,
       <1>11 DEF Next, SwitchAccess, RomAccess

(***************************************************************************)
(* Every variable keeps its type, and after every access the page table    *)
(* maps every region as the switches say.                                  *)
(***************************************************************************)
THEOREM MapIsCurrent == Spec => [](TypeOK /\ TableIsCurrent)
  <1>1. IInv => TypeOK /\ TableIsCurrent
    BY DEF IInv
  <1>. QED
    BY <1>1, InitIInv, NextIInv, PTL DEF Spec

-----------------------------------------------------------------------------
(***************************************************************************)
(* The switches' own story, which needs the types and the table alone: the *)
(* status bytes the program leaves alone follow the switches, the internal *)
(* ROM is selected at C800 only by an access of C3xx since the last CFFF   *)
(* or reset, and the RAM is one read from writable only when the last      *)
(* access to C080-C08F was an odd read.                                    *)
(***************************************************************************)
RomIsEntered == "INTC8ROM" \in sw => entered
PrewriteIsRead == "BSRPREWRITE" \in sw => odd_read

SInv == StatusAgrees /\ RomIsEntered /\ PrewriteIsRead

LEMMA InitSInv == Init => SInv
  <1> SUFFICES ASSUME Init PROVE SInv
    OBVIOUS
  <1>1. sw = {"BSRWRITE", "BSRPAGE2"}
    BY DEF Init, ResetState
  <1>2. StatusAgrees
    BY <1>1 DEF Init, StatusAgrees, StatusSwitch, VideoSwitch
  <1>3. RomIsEntered /\ PrewriteIsRead
    BY <1>1 DEF Init, RomIsEntered, PrewriteIsRead
  <1>. QED
    BY <1>2, <1>3 DEF SInv

\* A switch that has no status byte, and is none of the three that SInv is
\* about, can be set or not.
LEMMA OtherSwitches ==
  ASSUME TypeOK, SInv, emu' = emu, status' = status, odd_read' = odd_read,
         stored' = stored,
         \A s \in StatusSwitch \cup VideoSwitch \cup {"DHIRES"} : s \in sw' <=> s \in sw,
         "BSRPREWRITE" \in sw' => "BSRPREWRITE" \in sw,
         "INTC8ROM" \in sw' => entered'
  PROVE  SInv'
  <1>1. DOMAIN status = StatusSwitch \cup VideoSwitch \cup {"DHIRES"}
    BY DEF TypeOK
  <1>2. StatusAgrees'
    BY <1>1 DEF SInv, StatusAgrees
  <1>. QED
    BY <1>2 DEF SInv, RomIsEntered, PrewriteIsRead

LEMMA NextSInv == TypeOK /\ SInv /\ [Next]_vars => SInv'
  <1> SUFFICES ASSUME TypeOK, SInv, [Next]_vars
               PROVE  SInv'
    OBVIOUS
  <1>0. DOMAIN status = StatusSwitch \cup VideoSwitch \cup {"DHIRES"}
    BY DEF TypeOK
  <1>1. ASSUME NEW s \in StatusSwitch, NEW on \in BOOLEAN, WriteSwitch(s, on)
        PROVE  SInv'
    <2> DEFINE internal == emu = "IIC" /\ s = "INTCXROM"
    <2>1. /\ sw' = Put(sw, s, on \/ internal)
          /\ status' = IF internal THEN status ELSE [status EXCEPT ![s] = on]
          /\ stored' = IF internal THEN stored ELSE stored \ {s}
          /\ emu' = emu /\ odd_read' = odd_read /\ entered' = entered
      BY <1>1 DEF WriteSwitch, Rebuild
    <2>2. StatusAgrees'
      BY <1>0, <2>1 DEF SInv, StatusAgrees, Put
    <2>3. PrewriteIsRead' /\ RomIsEntered'
      BY <2>1 DEF SInv, PrewriteIsRead, RomIsEntered, Put, StatusSwitch
    <2>. QED
      BY <2>2, <2>3 DEF SInv
  <1>2. ASSUME NEW s \in VideoSwitch, NEW on \in BOOLEAN, VideoAccess(s, on)
        PROVE  SInv'
    <2>1. /\ sw' = Put(sw, s, on) /\ status' = [status EXCEPT ![s] = on]
          /\ emu' = emu /\ UNCHANGED history
      BY <1>2 DEF VideoAccess, Rebuild
    <2>2. StatusAgrees'
      BY <1>0, <2>1 DEF SInv, StatusAgrees, Put, StatusSwitch, VideoSwitch,
                        history
    <2>3. PrewriteIsRead' /\ RomIsEntered'
      BY <2>1 DEF SInv, PrewriteIsRead, RomIsEntered, Put, VideoSwitch, history
    <2>. QED
      BY <2>2, <2>3 DEF SInv
  <1>3. ASSUME NEW on \in BOOLEAN, Dhires(on)
        PROVE  SInv'
    <2>1. /\ sw' = Put(sw, "DHIRES", on)
          /\ status' = [status EXCEPT !["DHIRES"] = on]
          /\ emu' = emu /\ UNCHANGED history
      BY <1>3 DEF Dhires
    <2>2. StatusAgrees'
      BY <1>0, <2>1 DEF SInv, StatusAgrees, Put, StatusSwitch, history
    <2>3. PrewriteIsRead' /\ RomIsEntered'
      BY <2>1 DEF SInv, PrewriteIsRead, RomIsEntered, Put, history
    <2>. QED
      BY <2>2, <2>3 DEF SInv
  <1>4. ASSUME NEW odd \in BOOLEAN, NEW ram \in BOOLEAN,
               NEW page2 \in BOOLEAN, NEW write \in BOOLEAN,
               LanguageCard(odd, ram, page2, write)
        PROVE  SInv'
    <2>1. /\ sw' = LanguageCardBits(odd, ram, page2, write)
          /\ odd_read' = (odd /\ ~write)
          /\ emu' = emu /\ status' = status
          /\ entered' = entered /\ stored' = stored
      BY <1>4 DEF LanguageCard, Rebuild
    <2>2. /\ \A s \in DOMAIN status : s \in sw' <=> s \in sw
          /\ "BSRPREWRITE" \in sw' => odd /\ ~write
          /\ "INTC8ROM" \in sw' <=> "INTC8ROM" \in sw
      BY <1>0, <2>1 DEF LanguageCardBits, Put, StatusSwitch, VideoSwitch
    <2>3. StatusAgrees'
      BY <1>0, <2>1, <2>2 DEF SInv, StatusAgrees
    <2>. QED
      BY <2>1, <2>2, <2>3 DEF SInv, RomIsEntered, PrewriteIsRead
  <1>5. ASSUME NEW byte \in RegisterBytes, WriteRamworks(byte)
        PROVE  SInv'
    <2>1. /\ sw' = sw /\ emu' = emu /\ status' = status
          /\ UNCHANGED history
      BY <1>5 DEF WriteRamworks, Rebuild
    <2>. QED
      BY <2>1, OtherSwitches DEF SInv, RomIsEntered, history
  <1>6. CASE AccessCFFF
    <2>1. /\ sw' = sw \ {"INTC8ROM"}
          /\ emu' = emu /\ status' = status /\ odd_read' = odd_read
          /\ stored' = stored
      BY <1>6 DEF AccessCFFF, Rebuild
    <2>. QED
      BY <2>1, OtherSwitches DEF StatusSwitch, VideoSwitch
  <1>7. ASSUME NEW way \in {"read", "write"}, AccessC3(way)
        PROVE  SInv'
    <2>1. /\ sw' \in {sw, sw \cup {"INTC8ROM"}}
          /\ emu' = emu /\ status' = status /\ odd_read' = odd_read
          /\ entered' /\ stored' = stored
      BY <1>7 DEF AccessC3, Rebuild
    <2>. QED
      BY <2>1, OtherSwitches DEF StatusSwitch, VideoSwitch
  <1>8. ASSUME NEW slot \in Cards, NEW way \in {"read", "write"},
               AccessCard(slot, way)
        PROVE  SInv'
    <2>1. /\ sw' = sw /\ emu' = emu /\ status' = status
          /\ UNCHANGED history
      BY <1>8 DEF AccessCard
    <2>. QED
      BY <2>1, OtherSwitches DEF SInv, RomIsEntered, history
  <1>9. ASSUME NEW cold \in BOOLEAN, Reset(cold)
        PROVE  SInv'
    <2>1. /\ sw' = {"BSRWRITE", "BSRPAGE2"}
          /\ status' = [s \in DOMAIN status |-> s \notin ResetStatus(cold) /\ status[s]]
          /\ emu' = emu /\ stored' = stored \ ResetStatus(cold)
      BY <1>9 DEF Reset, Rebuild, ResetState
    <2>2. \A s \in DOMAIN status : s \notin sw'
      BY <1>0, <2>1 DEF StatusSwitch, VideoSwitch
    <2>3. \A s \in StatusSwitch \ {"INTCXROM"} : ~status'[s]
      BY <1>0, <2>1 DEF ResetStatus, StatusSwitch
    <2>4. StatusAgrees'
      BY <1>0, <2>1, <2>2, <2>3 DEF StatusAgrees
    <2>. QED
      BY <2>1, <2>4 DEF SInv, RomIsEntered, PrewriteIsRead
  <1>11. ASSUME NEW s \in StatusSwitch, NEW on \in BOOLEAN, StoreStatus(s, on)
         PROVE  SInv'
    <2>1. /\ sw' = sw /\ status' = [status EXCEPT ![s] = on]
          /\ stored' = stored \cup {s}
          /\ emu' = emu /\ odd_read' = odd_read /\ entered' = entered
      BY <1>11 DEF StoreStatus, Rebuild
    <2>2. StatusAgrees'
      BY <1>0, <2>1 DEF SInv, StatusAgrees
    <2>. QED
      BY <2>1, <2>2 DEF SInv, RomIsEntered, PrewriteIsRead
  <1>10. CASE UNCHANGED vars
    BY <1>10, OtherSwitches DEF vars, history, SInv, RomIsEntered
  <1>. QED
    BY <1>1, <1>2, <1>3, <1>4, <1>5, <1>6, <1>7, <1>8, <1>9, <1>10,
       <1>11 DEF Next, SwitchAccess, RomAccess

\* Only two accesses make the RAM writable.
LEMMA WriteEnableStep ==
  ASSUME TypeOK, SInv, [Next]_vars, "BSRWRITE" \notin sw, "BSRWRITE" \in sw'
  PROVE  last' = "reset" \/ (odd_read /\ odd_read')
  <1>1. ASSUME NEW s \in StatusSwitch, NEW on \in BOOLEAN, WriteSwitch(s, on)
        PROVE  FALSE
    BY <1>1 DEF WriteSwitch, Rebuild, Put, StatusSwitch
  <1>2. ASSUME NEW s \in VideoSwitch, NEW on \in BOOLEAN, VideoAccess(s, on)
        PROVE  FALSE
    BY <1>2 DEF VideoAccess, Rebuild, Put, VideoSwitch
  <1>3. ASSUME NEW on \in BOOLEAN, Dhires(on)
        PROVE  FALSE
    BY <1>3 DEF Dhires, Put
  <1>4. ASSUME NEW odd \in BOOLEAN, NEW ram \in BOOLEAN,
               NEW page2 \in BOOLEAN, NEW write \in BOOLEAN,
               LanguageCard(odd, ram, page2, write)
        PROVE  odd_read /\ odd_read'
    <2>1. sw' = LanguageCardBits(odd, ram, page2, write)
      BY <1>4 DEF LanguageCard, Rebuild
    <2>2. odd /\ WriteEnables(odd, write)
      BY <2>1 DEF LanguageCardBits, Put
    <2>. QED
      BY <1>4, <2>2 DEF LanguageCard, WriteEnables, SInv, PrewriteIsRead
  <1>5. ASSUME NEW byte \in RegisterBytes, WriteRamworks(byte)
        PROVE  FALSE
    BY <1>5 DEF WriteRamworks, Rebuild
  <1>9. ASSUME NEW s \in StatusSwitch, NEW on \in BOOLEAN, StoreStatus(s, on)
        PROVE  FALSE
    BY <1>9 DEF StoreStatus, Rebuild
  <1>6. CASE RomAccess
    <2>1. sw' \subseteq sw \cup {"INTC8ROM"}
      BY <1>6 DEF RomAccess, AccessCFFF, AccessC3, AccessCard, Rebuild
    <2>. QED
      BY <2>1
  <1>7. ASSUME NEW cold \in BOOLEAN, Reset(cold)
        PROVE  last' = "reset"
    BY <1>7 DEF Reset
  <1>8. CASE UNCHANGED vars
    BY <1>8 DEF vars
  <1>. QED
    BY <1>1, <1>2, <1>3, <1>4, <1>5, <1>6, <1>7, <1>8, <1>9
       DEF Next, SwitchAccess

LEMMA SwitchesInvariant == Spec => [](IInv /\ SInv)
  <1>1. IInv => TypeOK
    BY DEF IInv
  <1>. QED
    BY <1>1, InitIInv, NextIInv, InitSInv, NextSInv, PTL DEF Spec

(***************************************************************************)
(* What a program reads at C013-C018 and C01A-C01F never hides a switch    *)
(* that is on, and for all but INTCXROM and the video's says just that,    *)
(* over cold and warm resets, on both machines, except for a byte that the *)
(* program itself stored over and the machine has not written since.       *)
(***************************************************************************)
THEOREM StatusFollows == Spec => []StatusAgrees
  <1>1. SInv => StatusAgrees
    BY DEF SInv
  <1>. QED
    BY <1>1, SwitchesInvariant, PTL

(***************************************************************************)
(* The internal ROM is at C800 only since an access of it at C3xx, which   *)
(* neither CFFF nor a reset followed, or where all of it is in.            *)
(***************************************************************************)
THEOREM RomLeaves == Spec => []InternalRomLeaves
  <1>1. ASSUME IInv, SInv, mem["c8"].read = "ROM"
        PROVE  entered \/ emu = "IIC" \/ "INTCXROM" \in sw
    <2>1. "c8" \in Region
      BY DEF Region
    <2>2. Decode(emu, sw, "c8", "read") = "ROM"
      BY <1>1, <2>1 DEF IInv, TableIsCurrent
    <2>3. "INTC8ROM" \in sw => entered
      BY <1>1 DEF SInv, RomIsEntered
    <2>4. "c8" \in RomC1cf /\ "c8" \notin Ram02bf /\ "c8" \notin RomD0ff
      BY DEF Ram02bf, RomC1cf, RomD0ff
    <2>5. Decode(emu, sw, "c8", "read") =
            IF emu = "IIC" \/ "INTCXROM" \in sw \/ "INTC8ROM" \in sw
              THEN "ROM" ELSE "CARD_ROM"
      BY <2>4 DEF Decode
    <2>. QED
      BY <2>2, <2>3, <2>5
  <1>2. IInv /\ SInv => InternalRomLeaves
    BY <1>1 DEF InternalRomLeaves
  <1>. QED
    BY <1>2, SwitchesInvariant, PTL

(***************************************************************************)
(* Two odd reads of C080-C08F with nothing between them there, or a reset: *)
(* no other path of the handlers makes the language card's RAM writable.   *)
(***************************************************************************)
THEOREM WriteEnableIsTwoReads == Spec => WriteEnableTakesTwoReads
  <1>1. IInv /\ SInv /\ [Next]_vars =>
          [ "BSRWRITE" \notin sw /\ "BSRWRITE" \in sw'
              => last' = "reset" \/ (odd_read /\ odd_read') ]_vars
    BY WriteEnableStep DEF IInv
  <1>. QED
    BY <1>1, SwitchesInvariant, PTL DEF Spec, WriteEnableTakesTwoReads

==============================================================================
