# mii_emu in TLA+

mii_emu emulates an enhanced Apple //e: a 65C02 that runs instruction by
instruction, the memory map and its soft switches, cards in slots (Disk II,
SmartPort, Super Serial, mouse, Mockingboard and others), video and sound, with
an X11/OpenGL front end and a telnet shell (mish) for the debugger. This
directory holds TLA+ models of the parts whose correctness depends on order:
who writes what between whose steps, what is cached, what is saved and when.
Each model is translated from the source; line references are to this
repository, and `PROJECT.json` maps each definition to its lines.

Contents: the inventory of the system, the modules and what they say, the runs,
the proofs, where code and comments differ, what is left out, and the plan.

## 1. The system

### Threads

| thread | runs | writes |
| --- | --- | --- |
| CPU regulator (`mii_thread.c`) | the emulator: signals, batches of instructions, the cards' callbacks and cycle timers, at the end `mii_dispose` | everything in `mii_t` |
| UI, the main thread (`mii_emu_gl.c`, `mii_mui*.c`) | X events, menus, drawing; starts and joins the regulator | `signal_fifo`, `mii->state` (quit, reload), the keyboard latch, slot commands such as loading a floppy |
| mish (`libmish`, `mii_mish*.c`) | the shell's commands | any field, with no lock |
| SSC (`mii_ssc.c`) | the serial card's file descriptors | the card's FIFOs |
| joystick, audio | analog values, sample frames | their own few fields |

There is no mutex around `mii_t`. Threads meet in FIFOs
(`contrib/fifo_declare.h`), in `mii->state`, and in fields they simply share.

### Components

For each: its state; its operations; what is hard; what makes it correct.

* **Interrupts** (`mii.c:941-1048`, `mii_65c02.c:82-139`). A 16-line
  multiplexer, the CPU's line `s.irq` (a latch), `P.I`, the stack of interrupted
  contexts, a two-opcode trap. Drivers raise and clear lines at accesses and
  timers, in the middle of instructions; the CPU samples between them.
  Correct: no raised source is missed, none served more than once too often.
* **Memory map** (`mii.c:120-834`, `mii_sw.h`, `mii_video.c:866-930`). Some
  fifteen switches in `sw_state`, their status bytes in the SW bank, a page table
  computed from them, RamWorks banks, expansion ROMs of cards. Hard: the table is
  a cache rebuilt when `mem_dirty` says so; many handlers each remember to set it.
  Correct: the table is what the switches decode to, after every access.
* **FIFO** (`contrib/fifo_declare.h`). Two cursors and a buffer without a lock.
  Correct: it is a bounded queue for one writer and one reader.
* **Disk II** (`mii_disk2.c`, `mii_floppy.c`). Two drives, one sequencer, two
  cycle timers, tracks in memory with dirty marks, image files. Hard: the motor's
  timer, drive selection and loads interleave with writes. Correct: what is
  written reaches the file, the motor stops, a spinning drive is served.
* **Run control** (`mii_thread.c`, `mii.c:997-1157`, `mii_mish.c`). `mii->state`,
  signals, the batch `instruction_run`, the two copies of the CPU's state,
  steps, breakpoints. Written by three threads. Correct: a request is obeyed.
* **Super Serial Card** (`mii_ssc.c`). A thread for all cards, lists of cards,
  four FIFOs, a cycle timer; started, reconfigured and disposed of while running.
* **Keyboard and paste** (`mii.c:598-646`, `mii_thread.c:145-155`,
  `mii_emu_gl.c:486-522`). Two bytes that hold a key and its strobe, written by
  the UI for a key and by the regulator for a paste, read and cleared by the
  program. Correct: presses are taken once and in order, a paste arrives whole.
* **Cycle timers** (`mii.c:878-939`, `1004-1009`). A table of countdowns, run at
  each memory access with the cycles since the last; callbacks answer with the
  cycles to their next call. Hard: cycles are counted from a copy of a counter
  that restarts with each instruction, and calls come late. Correct: no cycle is
  lost, periods are kept, what must stop stops.
* **Disk images** (`format/mii_dd.c`) and **SmartPort** (`mii_smartport.c`). Two
  drives over read-only image files; changed blocks go to an overlay file beside
  the image, or to memory. Hard: an overlay is created in several steps that a
  kill can separate, outlives its image in the drive, and is found again at the
  next start beside an image that may have changed. Correct: a block reads as it
  was last written, and no image shows another's blocks.
* **Mouse card** (`mii_mouse.c`, `mii_mui.c:259-299`). A position and a button
  written by the UI, a callback sixty times a second, firmware calls that read
  byte by byte. Correct: the program is interrupted for what it asked for, with
  a reason, and told what is true.
* **Floppy formats** (`mii_dsk.c`, `mii_woz.c`, `mii_nib.c`): sectors to bits and back.
* **No Slot Clock** (`mii_noslotclock.c`): a 64-bit knock, then a bit at a time.
* **Speaker** (`mii_speaker.c`): idle, playing or stopping, by clicks and its timer.
* **Mockingboard, audio, video, VCD**: cards and outputs.
* **Slots, ROMs, command line, assembler, disassembler, UI, libmui, libmish**.

## 2. The modules

| module | models |
| --- | --- |
| `Interrupts` | multiplexer, access callback, dispatch, BRK, RTI, CLI/SEI, traps, reset |
| `Mmu` | switches, page table, status bytes, language card, RamWorks, expansion ROMs, reset |
| `Queue` | the abstract promise of a FIFO: a bounded queue |
| `Fifo` | the FIFO of `fifo_declare.h`, one memory access a step; implements `Queue` |
| `Disk2` | motor, timers, selection, sequencer writes, saving, loading, reset |
| `RunControl` | regulator, UI and shell around `mii->state` |
| `Ssc` | serial cards: program, timer, dialog, the thread that serves them, dispose |
| `BlockDevice` | the abstract promise of a drive: blocks read as last written, with what is excepted |
| `DiskImages` | SmartPort, image files, overlays, kills and restarts; implements `BlockDevice` |
| `Keyboard` | the latch and its strobe between the UI, the program and the paste |
| `Timers` | cycles, countdowns, three clients: mouse, paddles, speaker |
| `Mouse` | the mouse card between the UI's writes, its callback and firmware calls |
| `MC*` | instances of the above for TLC (`RunControl` needs none) |
| `*Proofs` | theorems and their TLAPS proofs: of `Keyboard` and `Mouse` in `InputProofs`, of `Fifo` and `Ssc` in `SerialProofs`, else of the module of that name |

`Init`, `Next`, `Spec` and `TypeOK` are `KInit`, ... in `Keyboard` and `SscInit`, ...
in `Ssc`, so that one module can extend two specifications and hold the proofs of
both.

**Interrupts.** A step is one phase of `mii_cpu_run`: serve an interrupt
(`TakeInterrupt`), fetch an opcode (`Fetch`), then one opcode by what it does to
interrupts: `Brk`, `Rti`, `Plain` (with CLI and SEI) or `Device`, an access that
a card answers. Any access can raise lines (`up`: timers run there); a device's
own access can clear them (`down`). `Access` is the end of the access callback,
`irq | !!raised`, so the line is latched and cleared only by a dispatch.
`frames` is the interrupt stack; `prev` and `spurious` are history. The trap's
opcodes are `EB` and `FB`, the others are one opcode.

**Mmu.** `sw` is `sw_state` as a set, `mem` the page table by region (pages the code
always treats alike: `00`, `02`, `04`, `08`, `20`, `40`, `c0`, `c1`, `c3`, `c8`,
`d0`, `e0`), `status` the bytes read at C013-C018 and C01A-C01F that switches set.
`PageTable` follows `mii_page_table_update` override by override; `Rebuild` is its
early return on `mem_dirty`; each handler is an action with the order of its own
calls. `StoreStatus` is a program's write to C013-C018, which no handler takes and
`mii_mem_access` stores. `last` (was the last step a reset?), `odd_read`, `entered`
(was the internal ROM at C3xx accessed since the last CFFF or reset?) and `stored`
(the bytes a program stored over) are history. A debugger's read of a ROM page
reaches the same handlers as the CPU's, so it is the same action.

**Fifo, Queue.** A write is three steps (check room, store, publish), a read
likewise, a reset two; `put` and `take` hold the two sides' program counters and
locals. The refinement maps the ring to the sequence between the cursors.
Loads happen in program order: the reader side of the code has no barrier
between its load of the write cursor and of the data, which matters on no CPU
with ordered loads (the Makefile builds for the host, `-march=native`).
`ConcurrentReset` says whether a side resets the FIFO while the other is busy.
`Fifo` is what lets `Ssc`, `RunControl` and `Keyboard` take an operation on a
FIFO as one step.

**Disk2.** Steps are soft switch accesses, timer callbacks, the slot's reset
and the UI's commands. A track holds a value; the sequencer is its two effects,
`LssLoad` (which counts `seed_dirty`) and `LssWrite` (which marks the track).
`unsaved` is `seed_dirty # seed_saved`. `strayed` remembers the drives that were
deselected with dirty tracks. `quiet` marks a program that leaves the card alone
from then on, for `MotorStops`. An image has a format: sector by sector (NIB, DSK,
PO, DO), by the track (WOZ) or none the code knows. A save passes over (`Skips`) any
track of a sector image, since a track may have no map and a sector not be found
again, and every track of an unknown format; it clears the marks and the seed all the
same, and `left` is the history of the tracks so forgotten. A load of an unknown
format leaves the floppy as it was initialised, so there all tracks are `left`. The
shell's `d2 dirty`, `d2 resync` and `d2 wp` are actions (`Shell`, with the
protections `Typed` for `d2 wp`); `RO_FORMAT` comes from `d2 wp` only, as the one line
of the code that sets it is commented out (`mii_dsk.c:249`). `d2 wp` is bounded to keep
`RO_FILE` on an image that can only be read: a save without it writes to a read-only
mapping, and the process dies.

**RunControl.** `pc` walks the regulator: signals, the test of `MII_STOPPED`,
`mii_run`, inside `mii_cpu_run` (`next`, `access`, `answer`, `retire`), the
`switch`, the step's count. Steps are cut where another thread's write can come
between. `reset` and `s_reset` are the two copies of `cpu_state.reset`: the callback
writes the CPU's copy over the shared one, and the shared one over the CPU's at its
end. `asked` and `owed` are history: a reset requested and not served, and the
instructions the last step still owes; `promise` says what the step under way can
count on (`StepFrom`): all its instructions, one less when its last write came
between the regulator's two looks at `mii->state`, or nothing when it came over
another state than `STOPPED`. A shell command that writes twice is two steps
(`typed`), with any step of the others between them. Not here: `trace_cpu`, paste,
the one signal that only prints; `mii_dispose` and `mii_init` are one step each.

**Ssc.** The emulator's thread is the program's accesses (`Program`), the timer and,
at the end, `mii_dispose` card by card (`Disposal`). `_mii_scc_set_conf`, called by
the program and by the UI's dialog, is a close, an open that may fail, and the reset
of the FIFOs, with the other threads in between. The I/O thread takes its commands,
builds its descriptor sets, waits in `select`, and for each card reads, peeks and
writes, and removes what was sent, each a step. `next` is the one link field
(`self`) that both lists use, as in the code, so lists are a first card, a last card
and the links between. A FIFO operation is one step, because `Fifo` implements
`Queue`; but a reset stores two cursors, which the other threads store as well, and
`Fifo`'s proof excludes that. So `AfterReset` leaves any number of bytes in a FIFO
that is reset in use, from none to a full one: what a stale cursor, stored after or
between the reset's two, can bring back. The step stands for the last of those
stores, and an operation a reset meets is taken as ended before it. A card in state
`init` has both cursors at 0 and nobody else at them, so its reset changes nothing.
The thread's buffer is `Chunk` bytes (8 in the code): when it reads or peeks at
more, `Overrun` is the other outcome of undefined behaviour, a thread that is lost.
A tty that is reopened gets the number it had (the lowest free one); `FD_ISSET` of
-1 is taken as false. Left out: baud rate, framing and the control register, the
switches' values, `RX_FULL` (only the program looks at it), the socket pair that
only shortens the thread's wait of a millisecond, and a second `mii_init`. `seen` is
history: bytes are numbered as they come, `reset` says that a card's FIFOs were
reset once it had been started (its bytes are not numbered from then on), and
`early` that dispose let go of it while its start was pending.

**DiskImages, BlockDevice.** `store` is what overlays hold, by place: a file (the
image's name without suffix) or a drive's memory. A call of the card is a step,
except a write: `WriteBlock`, then `OpenOverlay` and `WriteHeader` if there is no
overlay, then `SetFlag` and `CopyBlock`, because `Stop` (a kill, or a quit) can
come between them and the file keeps what it has. The overlay is modelled bit by
bit, because the code reserves for the flags an eighth of what it uses; `Sound`
are the blocks whose flag and data are clear of the overlap. `answer` is what the
last call said, and `Return` takes it back. The MD5 is the image and its edition
(a hash without collisions), `Replace` a new edition of a file. The refinement
maps a block to its place in the overlay or to the file, and a write is at its
end when the copy is. The status calls change nothing that is modelled; `ro` and
`wp` are set by nobody. `Loads` says which images the user may put in which drives, and
nothing is assumed of it: two drives may hold one image, or two of one name, and then
share a file that `OpenOverlay` empties under the other. `span` is the size a drive's
mapping was made for. `OverlayLoad` has two outcomes, the overlay beside the image
(`Saved`) or none, because a file that is there may not open. `BlockDevice` says what
that does to a block: the image shows as if it had no changes (`PassOver`), until it
is taken out (`Recall`), or until a write makes a file for it anew (`Renew`) or finds
that it cannot (`Degrade`). The promises are for `Alone`, the images that are the only
one of their drive and the only one of their name.

**Keyboard.** `akd` and `kbd` are the two bytes, and each access of a byte is a
step: `Type`/`TypeKbd` by the UI, `Clear`/`ClearWrite` by the program, `Frame`,
`Feed`, `FeedKbd` by the regulator. The program and the regulator are one thread
(`handler` says where it is between a read and a write), the UI another (`typing`).
`poked`, `taken`, `text`, `got`, `alone` and `paced` are history: keys written, keys
read and then cleared, the paste under way, what was taken of it, whether nothing else
has touched the keyboard since, and whether every key so far was pressed after the one
before it was cleared, and cleared after it was read.

**Timers.** A step is a cycle: an access (`Fetch`, `Access`), which runs the
timers, or an internal cycle, which only counts. An instruction is the shape of
its cycles, eight of which stand for all. `when` are the countdowns; the mouse's
callback always answers its period, the speaker's goes by `Pad`, a paddle has
none. `silence` is the time since the last click; `owed`, `before` and `since`
are history. The table of slots is left out: it is filled at start and nothing
is ever taken out of it. The video's callback answers one of several periods in
turn; `OnTime` is about one that answers always the same.

**Mouse.** A step makes at most one access to what the UI and the CPU's threads
share, so READMOUSE is six steps and the callback two. One coordinate, a pair of
bytes, stands for both. The UI's test of `enabled` is one step with the write of
the position that follows. `raced` is history: the UI wrote while the last
READMOUSE was under way.

## 3. The runs

| run | instance | checks |
| --- | --- | --- |
| `Interrupts` | two lines, two nested handlers, symmetric | `LineCoversSources`, `AtMostOneSpurious`, `NoLostInterrupt` |
| `Mmu` | all switches, two cards, three RamWorks bytes, two banks, two status bytes stored over | `TableIsCurrent`, `StatusAgrees`, `InternalRomLeaves`, `WriteEnableTakesTwoReads` |
| `Fifo` | size 4, two items | `ContentsHeld`, `QueueSpec` |
| `Disk2` | two drives; by sectors, read only, WOZ and unknown: four images; one track, two contents | `CleanIsSaved`, `DirtyIsUnsaved`, `StoppedIsSaved` |
| `Disk2Motor` | no images, every d2 command, two seconds on the timer, a program that leaves | `SpinningIsServed`, `MotorStops` |
| `RunControl` | UI and mish's step; batches and fifo of 2, steps of 1 and 2 | `ResetIsKept`, `StoppedIsStill`, `StepsAreRun`, `Responds` |
| `RunControlShell` | every shell command; bounds of 1 | `Returns` |
| `Ssc` | one card, FIFOs of 2, a buffer of 1, 2 bytes each way, three command bytes | `SscTypeOK`, `InOrder`, `EmptyMeansRoom`, `UsedIsAlive`, `DataInterrupts`, `DisposeReturns` |
| `DiskImages` | a hard disk of 3 blocks in two editions; a disk of 1 and a floppy of 2 that share a drive; one value written | `TypeOK`, `OwnOverlay`, `KeepsBlocks` |
| `Keyboard` | two keys to type, two pastes of two keys and of one, a FIFO of 1 | `KTypeOK`, `TakenInOrder`, `PasteKept`, `PasteEnds` |
| `Timers` | eight instruction shapes, a period of 5, delay 4, hush 3 | `TypeOK`, `OnTime`, `SoundEnds`, `TimeKept`, `GoesSilent` |
| `Mouse` | two positions that differ in both bytes, all modes | `RaisedForReason`, `ToldIsKept`, `UntoldInterrupts` |

A type invariant that section 4 proves for all values and that says no more than
that is not run again.

What they show. *Interrupts*: whatever the order of device accesses, timers, CLI,
SEI, BRK, nested handlers and resets, the latch never misses a raised line, an
enabled pending interrupt is served before the next instruction, and a latch that
outlives its source costs one dispatch. *Mmu*: no path changes a switch and leaves a
stale page or the internal ROM at C800, though the copy the code compares with is 16
bits wide (`sw_save`, `mii.c:368`) and two switches are above bit 15. *Fifo*: it is
a queue for one writer and one reader. *Disk2*: a track that differs from its file
is marked, or was passed over by a save (section 5), a marked track will be looked
at by a save, and a drive that stopped has nothing else unsaved unless the program
selected the other drive first — then the data stays in memory until that drive
stops again. *RunControl*: driven by its UI and by mish's `step` the machine obeys,
but for the one instruction that a step typed at the wrong moment is short of, and a
reload comes back when nothing is left that can overwrite its request; driven by the
rest of the shell too, each batch still ends. *Ssc*: whatever the interleaving,
bytes are neither repeated nor put out of order, none is lost and the status never
says there is room when there is none, unless the card was reconfigured in use; the
thread meets no freed card; received data interrupts; and disposing of the card
comes back (section 5 lists what these except). *DiskImages*: through ejects,
reloads, kills in the middle of a write, restarts and replaced files, a block reads
as it was last written, or is the one that was being written, or its changes were in
memory or in a file that could not be opened; this holds of the blocks `Sound` names
in images with an overlay to themselves, and section 5 says what happens to the
others. *Keyboard*: a key typed over one that was not yet taken, or in the middle of
a clear, is lost, and none is repeated, reordered or lost otherwise; a paste nobody
disturbs arrives whole; and every paste ends. *Timers*: whatever the mix of
instructions, the countdowns lose one cycle at most, after a one-cycle NOP; late
calls do not drift; the speaker's timer runs as long as it sounds. *Mouse*: line and
status agree at every moment, and every movement, press and blank the program asked
for interrupts it, unless the UI wrote in the middle of READMOUSE.

**Bounds.** Two lines are enough for one to be raised while another is served; depth
2 nests a handler in a handler. The regions of the memory map are the code's own, so
nothing is bounded but the banks; the constraint `OneSide` stops where both the
RAM's switches and the ROM's are away from rest, since no region has switches of
both but ALTPZ, which is free (`MapIsCurrent` is proved without it). A FIFO of 4
wraps and holds 3. One track a drive is enough for its contents, mark and seed to
disagree with the file and with the other drive's; `Disk2` counts a track's mark and
the floppy's seed separately. `MaxOff` stops the program from adding seconds for
ever. A batch of 2 has a first, a middle and a last instruction; a fifo of 2 fills.
A data FIFO of 2 in `Ssc` (15 in the code) is empty, half full and full, and two
bytes each way give an order to keep; the command bytes are the reset's, one that
wants receive interrupts and one that wants the transmitter's; a buffer of 1 is
overrun. The run has one card; what it checks of types, bytes and freed cards is
proved for any number, where the lists are cut (section 5). In `DiskImages` bytes
have two bits, words three and blocks one: the smallest sizes at which the flags of
three blocks run into the first block and leave another clear of them; two editions
let a file be replaced, one drive has an image to itself and the other has two, of
which one gets no overlay; the one value written equals a block of the old edition
and differs from the new one's. No drive shares an overlay in this run: that the
properties hold of the images that have theirs, whatever the others do to each
other, is proved. In `Disk2` no command is typed and in `Disk2Motor` all are;
`CleanIsSaved` with the commands is proved. A FIFO of 1 in `Keyboard` drops a paste;
a text of two has a first and a last key. In `Timers` the period and the delay are
longer than the longest time between two accesses (an assumption the code's 16666
and some thousands meet by far), and short enough to fall at each cycle of each
shape. Two positions in `Mouse` that differ in both bytes can be torn.

**Fairness.** `Disk2`: weak fairness of `Tick`: the CPU runs, so cycles pass and
timers count down. `RunControl`: weak fairness of the regulator's thread, whose only
waits are sleeps of one frame; nothing is assumed of the user, the UI or the shell,
except in `Responds` that the user does not send signals so fast that draining them
never ends (`Unhurried`), and that the process is not closed. `Ssc`: weak fairness
of the I/O thread, of the emulator's thread in `set_conf` and in dispose (each would
go on, and what they wait for is in the guards), and strong fairness of each card's
timer: every instruction counts it down, so accesses between two of its periods,
which may disable it for a while, do not put it off for ever. The program, the line
and the UI promise nothing. `Keyboard`: strong fairness of the regulator's steps,
since frames end whatever the instructions are, weak of the second half of a clear;
of the program only, and in `PasteEnds` alone, that it polls and clears what it has
seen. `Timers`: the CPU runs. `Mouse`: strong fairness of the callback, which
`Timers`' `OnTime` justifies (it is called whatever the program does), weak of what
a thread has begun; nothing of the user, the UI or the program. `Interrupts`, `Mmu`,
`Fifo` and `DiskImages` state safety only.

`RunControl` and `Ssc` run with `CHECK_DEADLOCK FALSE`: the program ends. The
others have no end and check for deadlock.

## 4. What is proved

For every value of the constants, by TLAPS:

* `InterruptsProofs`: `TypeCorrect`, `LineCovers`, `SpuriousBounded`,
  `NothingLost`. The invariant `IInv` adds to the types that the line covers the
  sources in every phase and where `spurious` can be counted from: a dispatch
  clears the line, and the accesses it makes latch it again only for a source
  that is raised.
* `MmuProofs`: `PageTableDecodes`, that the table built override by override is
  the decoding of the switches (no variable appears: it is a fact about the
  algorithm, for both machines and all sets of switches), and `MapIsCurrent`.
  The induction is that each action either leaves `emu`, `sw` and `mem` alone or
  ends in `Rebuild` with a true `mem_dirty`. From the same invariant with what each
  handler does to the switches: `StatusFollows` (but for the bytes a program stored over),
  `RomLeaves` (`entered` whenever INTC8ROM is on) and the action property
  `WriteEnableIsTwoReads`, for both machines.
* `SerialProofs`, of `Fifo`: `FifoHolds` and the refinement `FifoIsQueue`, both under
  `ConcurrentReset = FALSE`, for every power of two and every set of items. The
  inductive invariant ties each side's program counter to the cursors: what a
  writer saw of the room is still there when it stores, what a reader saw
  in the buffer is still there when it loads.
* `Disk2Proofs`: `NothingUnmarked`, for any images, formats, tracks and contents,
  with the `d2` commands or without: the types, `SpinningIsServed` and
  `CleanIsSaved`, which together are inductive because no image is in both drives
  (`FilesApart`); and `StoppedDrivesAreSaved`, which adds `DirtyIsUnsaved` and
  `StoppedIsSaved`, both of a card to which no `d2` command is typed.
  `DrivesAreServed` and `DirtyIsNotPassedBy` state two of these by themselves.
* `RunControlProofs`: `UiIsObeyed`, under `Shell \subseteq {"step", "bp"}`: the UI, mish's
  `step` and its breakpoints. The invariant says where a
  pending reset is (`ResetPlace`: in the shared copy while the regulator is
  outside `mii_cpu_run` or between the two halves of a callback, in the CPU's
  otherwise), that a stopped machine has nothing left of its batch
  (`StopPlace`), and how `owed`, `promise` and `step_inst` go together at each place
  (`StepPlace`). The three promises follow from it; none is inductive alone.
  `ResetReachesTheCpu` and `StoppedStaysStill` state two of them by themselves.
* `TimersProofs`: `StopsNearZero` (the types: a stopped timer is at 0, -1 or -2, as
  `mii.h` says), `PeriodIsKept`, `SoundHasEnd` and `NoCycleLost`, for any shapes with at
  most two internal cycles in a row and any period and delay of three or more. The
  invariant ties the two counters, `cycle` and `last_cycle`, to the place in the
  instruction; from it an access counts out at most three cycles, so a timer fires
  at most once and its period absorbs how late it was.
* `InputProofs`, of `Mouse`: `LineIsPlaced` and `ReadIsKept`, for any coordinates. The
  first needs what the callback has seen halfway (`new` holds the status, and the line
  is raised only for what `new` names); the second, place by place in READMOUSE, what
  was already told and is still to be kept.
* `InputProofs`, of `Keyboard`: `KeyboardTypes`, `PressesInOrder` and `PasteIsKept`,
  for any keys and texts and any size of the signals' FIFO. That what was taken is a
  subsequence of what was pressed is said by the existence of increasing places
  (`InPlace`), and stays true because whatever can still be taken, the latch's key
  or the one the program has seen, is placed after all of them; that none is lost
  while `paced` is an induction of its own over where the latch's key is
  (`NoneLost`). `PasteKept` needs that no key of a text that still waits was ever
  pressed (`Waiting`), so that at the start of a paste nothing in the latch is of
  it, and that a paste left alone feeds only into a cleared latch (`Undisturbed`).
* `SerialProofs`, of `Ssc`: `SerialTypes`, `EmptyIsRoom` and `BytesInOrder`, for any
  number of cards, capacity and bytes. The lists need no induction along their
  links: the thread stays in *some* set of started cards that the links do not leave
  (`Linked`), however the two lists are mixed up. A waiting command is about a card
  in the state it was queued in, and at most one is about each (`Pending`), which is
  why the thread starts and stops a card once and the queue of commands never
  overflows. `Kept` counts bytes: what is in a FIFO lies between what came out and
  what went in, and is all of it if the card was not reset in use. `EmptyMeansRoom`
  is inductive with them, as the thread only makes room.
* `SerialProofs`, of `Ssc`: `CardIsAlive`, for any number of cards. The two lists do get
  mixed up, but only forward: the thread's links never meet nor come back (`Path`), so
  the thread comes only to cards that run (`Runs`, again some set that the links do not
  leave), and one it stops is met no more. A card that dispose lets go was never
  started or is stopped, unless its start was still pending (`LetGone`), and no command
  about it is left. With one card that exception cannot arise either: dispose frees the
  card after joining the thread (`OneCard`).
* `DiskImagesProofs`: `OverlayIsOwn`, for all images, sizes, contents and ways to load
  them. The invariant is about overlays and not about what is in the drive (an
  overlay stays mapped when its image goes): a drive's overlay is in its memory or
  is the file of one of its images (`Placed`), and the one of an image in `Alone`, whose
  drive and whose file nobody else can have, names it as soon as its header is written
  (`AllNamed`). The overlays of the other images may be shared and mixed; `Loads` is any
  set of drives and images.
* `DiskImagesProofs`: `OverlaysFit` (the types: an overlay fits the image its header
  names, a write is of a block of the image in its drive) and `BlocksAreKept`, that
  `DiskImages` implements `BlockDevice`. To the invariant above, `JInv` adds the
  types and: a write under way is not answered yet (`Unanswered`); only images that
  get an overlay have one (`Backed`); an overlay without its header is blank
  (`Headed`), so making one changes no block that is shown; a header names an image
  that is loaded somewhere (`Sourced`); the overlay of an image in `Alone` was
  mapped for its size (`Spanned`); and a block has its flag when it is copied
  (`Flagged`), so the copy is the one step at which the block changes for its
  reader. The step lemmas map each action to a step of `BlockDevice` or a stutter;
  that a write disturbs no other block is the arithmetic of the layout, for any
  sizes of byte, word and block (`Layout`, `BlocksApart`, `SoundApart`).

The assumptions are the named `ASSUME`s of the modules (sizes are positive, sets of
constants are apart; `ImagesAssumption` of `Disk2` is one of the code's users: no
image in both drives) and the restrictions given above: `ConcurrentReset = FALSE`
for `Fifo`, and `Shell \subseteq {"step", "bp"}` for `RunControl`, without which the
statements are false. The other exceptions are written in the properties: bytes
stored over, tracks a save passed over, `~Shell`, cards reset in use, a thread that
overran its buffer, images that share an overlay. Every safety property that a run
checks, the type invariants and both refinements are proved. Only model-checked:
liveness under fairness (`MotorStops`, `Responds`, `Returns`, `DataInterrupts`,
`DisposeReturns`, `PasteEnds`, `GoesSilent`, `UntoldInterrupts`), which is out of
the provers' reach here.

## 5. Where the code and its words differ

Refuted by TLC: each is a definition in an MC module, which a run of that module's
cfg with it for INVARIANT or PROPERTY finds violated:

* `TrapTriggers` (`MCInterrupts`): a trap is missed when an interrupt is served
  between its two NOPs (`mii.h:51`, "a sequence of 2 special NOPs that are used to
  trigger a callback"; `mii_65c02.c:133`);
* `ResetIsSafe` (`MCFifo`, `ConcurrentReset = TRUE`): the FIFO is not safe against a
  reset by the other side (`fifo_declare.h:13`, "entirely thread and MP safe"; the
  dialog resets them at `mii_ssc.c:554`);
* `AllCardsListed` (`MCSsc`, `Cards = 2`): the serial cards' list "of all cards" is
  cut by the first card that starts: the thread queues it by the same link
  (`mii_ssc.c:155`, `212`), and disposing of the second card of a IIc then follows a
  null pointer (`618`);
* `OverlayIsOfImage` (`MCDiskImages`): loading another image into a drive keeps the
  overlay of the one before (`mii_dd.c:244`), whose header holds "md5 of the SOURCE
  disk" (`mii_dd.h:55`) and is not looked at again: blocks written to the first image
  show in the second;
* `KeepsAllBlocks` (`MCDiskImages`): the overlay reserves `(n + 63) / 64` bytes for
  the flags (`mii_dd.c:300`, `324`), which are words of 64 bits (`387`, `430`), so that
  flags and the first blocks overwrite each other in images of more than 64 blocks
  or so, where "alld the changed blocks are kept" (`mii_dd.h:44`);
* `TypedIsTaken` (`MCKeyboard`): a key typed before the one before was cleared, or in the
  middle of its clear, is lost: `mii_keypress` writes two bytes (`mii.c:638-646`) where
  its declaration says "this one is thread safe, there's a FIFO behind it" (`mii.h:306`).

Met while modelling, present in the models:

* `mii quit` may never quit, nor the UI's reload come back from joining the thread:
  `mii->state` holds one value, and the request in it is replaced by the end of a step
  (`mii_thread.c:132-133`), a breakpoint (`mii.c:1034`), a signal that was queued earlier,
  an unknown trap, or the thread's own start (`mii_thread.c:72`); `Responds` excepts
  these;
* `mii reset` from the shell is overwritten by the CPU's own copy
  (`mii_mish.c:123`);
* the CPU's line is a latch: it is not "cleared when none are raised"
  (`mii.h:118-121`, `mii.c:1045`);
* a write to C013-C018 changes what the program reads there and no switch
  (`mii.c:816-825`); `StatusAgrees` excepts it;
* a reset sets the RamWorks register byte to 0 and leaves the bank that was
  mapped (`mii.c:783`);
* CFFF deselects cards only if the internal ROM was in at C800 (`mii.c:323`, the
  comment on 311 says any write);
* reads that ask for no side effects (`do_sw` false) still reach C3xx, CFFF and
  the cards' ROM handlers (`mii.c:808`);
* each access to C088 adds a second to the motor's timer (`mii_disk2.c:219-221`,
  "after a second" on 54);
* `mii_floppy_init` clears the manual protection it says it keeps
  (`mii_floppy.c:62`);
* the sequencer writes to a protected floppy's tracks (`mii_disk2.c:607`);
* a save passes over a track without a map, a sector it does not find or an unknown
  format, and clears the mark and the seed (`mii_floppy.c:518-535`, `584-589`):
  `CleanIsSaved` and `StoppedIsSaved` except it;
* `d2 dirty` marks no track and cancels a pending save (`mii_disk2_mish.c:164`), and
  `d2 resync` marks tracks without counting a seed (`mii_floppy.c:499`, though
  `seed_dirty` is "incremented each time a track is marked dirty",
  `mii_floppy.h:86`): they are not saved until something else is written;
* `d2 wp` assigns all the bits (`mii_disk2_mish.c:74`): `d2 wp 0` takes the file's own
  protection off, and the next save of an image that can only be read writes to a
  read-only mapping;
* a step typed in the shell between the regulator's two looks at `mii->state`
  is counted without being run (`mii_thread.c:117-133`);
* a breakpoint that is not sticky is disarmed by any access in its range, of the
  kind it waits for or not (`mii.c:1037`);
* a card's timer that fires before the thread has taken its start stops for good,
  and the card never interrupts (`mii_ssc.c:415`); `DataInterrupts` excepts it;
* a tty closed between the thread's look at it and its `select` ends the thread
  (`mii_ssc.c:241-260`), and dispose then waits for it for ever (`623`);
  `DisposeReturns` excepts it;
* a card disposed of while its start is pending, with another card alive, is
  freed before the thread takes the start (`619`); `UsedIsAlive` excepts it;
* a card reconfigured while in use can find old bytes back in its FIFOs, or its
  transmitter full with the status saying it is empty: the two stores of a reset race
  those of the thread and the program (`554-555`); `InOrder` and `EmptyMeansRoom` except
  such a card;
* the thread's buffers are as long as the *command* FIFO, eight bytes, and take up to
  fifteen (`276-278`, `296-299`);
* a byte read from RD raises the line again without the status' IRQ bit (`761`);
* an access to C010 that reads SWAKD while a key is typed writes the old key back
  (`mii.c:624-627`): the new one is lost, and SWKBD and SWAKD hold different keys,
  where the comment says that C000 to C01F "all return the ascii value" (`mii.c:600`);
* a paste is dropped without a word when the signal FIFO is full (`mii_emu_gl.c:514`);
* after a one-cycle NOP one cycle is not counted out if the fetch of the next
  instruction but one is two cycles away (`mii.c:1007`): `TimeKept` excepts it;
* a click while the speaker is stopping leaves it idle with its gap unpadded
  (`mii_speaker.c:110-119`);
* INITMOUSE clears the mode byte of the screen hole and not the one the card "cached"
  (`mii_mouse.c:106`, `308`): interrupts go on;
* the UI's write in the middle of READMOUSE tears the position, or loses a move: the
  card keeps a position it did not tell (`mii_mouse.c:263-279`); `ToldIsKept` and
  `UntoldInterrupts` except it;
* the SmartPort entry refuses the second drive (`spUnit >= MII_SM_DRIVE_COUNT`,
  `mii_smartport.c:197`, `239`), and a write to unit 0 reads `drive[255]` (`246-251`);
* an overlay that is there and cannot be opened is passed over (`mii_dd.c:260-266`): the
  image shows without its changes, and the first write empties the file if it can by
  then be opened (`335`);
* the same image in both drives, or two whose names differ in the suffix, share one
  overlay file, which a drive that writes without having it mapped empties under the
  other (`335`); the promises of `DiskImages` are for the images of which this is
  not so;
* a write to an image that gets no overlay copies to a read-only mapping and ends
  the process (`mii_dd.c:440`);
* a read past the end of another image's overlay succeeds and reads nothing
  (`mii_dd.c:385`).

## 6. What is not modelled

What opcodes compute (arithmetic the repository tests with vectors), rendering and
sound synthesis, bit-level floppy encodings, text (command line, assembler,
disassembler, traces), the UI toolkit and the shell's library, generated ROM data.
`PROJECT.json` gives each component's status and reason. Left out inside the models:
memory contents, NMI (nothing raises it), a wrap of the 32-bit seeds, the same image
in both Disk II drives, an image file that opens and does not parse, floppies loaded
by the UI thread in the middle of a CPU step, more than one breakpoint, and the
frame between the main loop's test of `mii->state` and its events (a second quit
written in it, after the regulator disposed of the machine, would hide `MII_INIT`
from the loop); in `Timers` a `-speed` so near 0 on the command line
(`mii_argv.c:190`) that the video's answer truncates to 0 and it is never called
again; in `Mouse` the clamp, whose two bytes the UI's thread reads as they are. The
No Slot Clock is a shift register in which nothing interleaves; the Mockingboard's
6522s are timers and registers of one thread.

## 7. Plan

1. `Interrupts`, `Mmu`, `Fifo`/`Queue`, `RunControl`, `Disk2`, `Timers`, `Mouse`,
   `DiskImages`/`BlockDevice`, `Ssc`, `Keyboard`: modelled, checked, proved.
2. To prove next: what the liveness properties rest on, as safety (a timer that is to
   fire is armed, a command that is to be taken is queued); what holds of the regulator
   with the rest of the shell's commands.
3. To model next: the Disk II's stepper and head; the video's callback, its three
   periods and the end of a frame that `RunControl` takes as given; the
   Mockingboard's two timers; floppies loaded in the middle of a CPU step.
