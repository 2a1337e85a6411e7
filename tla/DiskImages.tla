----------------------------- MODULE DiskImages -----------------------------
(***************************************************************************)
(* The SmartPort card and the disk images under it (mii_smartport.c,       *)
(* mii_dd.c).  An image file is never written: the blocks that change go   *)
(* to an overlay, a file beside it (or memory, when none can be made) that *)
(* holds a header, a bitmap with a flag per block, and the blocks.  Beyond *)
(* the header an overlay is modelled bit by bit, because the code reserves *)
(* for the bitmap an eighth of what it uses.                               *)
(*                                                                         *)
(* A step is a call of the card, except that a write is cut where a kill   *)
(* of the process tells its parts apart.                                   *)
(***************************************************************************)
EXTENDS Integers

CONSTANTS
    Image, Edition,    \* image files, and the contents each may have
    Blocks,            \* how many blocks an image has
    Data,              \* Data[i][e][b]: block b of image i in edition e
    Overlaid,          \* images that get an overlay: .po and .hdv, but 140K
    Stem,              \* the name of an image without its suffix
    Loads,             \* which images the user puts in which drives
    Written,           \* block values programs write
    BitsPerByte, BitsPerWord, BlockBits,   \* 8, 64 and 4096
    None

VARIABLES
    on,         \* the emulator runs
    original,   \* the edition each image file holds
    store,      \* overlays by place: a stem (a file) or a drive (in memory)
    file,       \* the image in each drive
    overlay,    \* the place of each drive's overlay
    span,       \* how many blocks that was mapped for
    busy,       \* the write in progress
    answer      \* what the last call said

vars == <<on, original, store, file, overlay, span, busy, answer>>

DriveCount == 2
Drive == 1..DriveCount
Unit == 0..DriveCount + 1
Stems == {Stem[i] : i \in Image}
Place == Stems \union Drive
BlockNo == UNION {0..Blocks[i] : i \in Image}   \* with the first past the end
Editions == UNION {Edition[i] : i \in Image}
Value == [0..BlockBits - 1 -> {0, 1}]
Stage == {"open", "header", "flag", "copy"}
Request == [drive : Drive, block : Nat, value : Value, stage : Stage]

ASSUME SizesAssumption ==
    /\ {BitsPerByte, BitsPerWord, BlockBits} \subseteq Nat \ {0}
    /\ Blocks \in [Image -> Nat \ {0}]
ASSUME DataAssumption ==
    /\ Written \subseteq Value
    /\ Overlaid \subseteq Image
    /\ Data \in [Image -> [Editions -> [BlockNo -> Value]]]
    /\ \A i \in Image : Edition[i] # {}
    /\ Stem \in [Image -> Stems]
    /\ Stems \cap Drive = {}
    /\ None \notin Image \union Editions \union Place
    /\ None \notin Request
    /\ None \notin Image \X Editions
ASSUME LoadsAssumption == Loads \subseteq Drive \X Image

-----------------------------------------------------------------------------
(* The layout of an overlay, in bits from the end of its header.           *)

Words(n) == (n + BitsPerWord - 1) \div BitsPerWord
DataStart(n) == Words(n) * BitsPerByte      \* bitmap_size bytes
Size(n) == DataStart(n) + n * BlockBits

\* be64toh(bitmap[b / 64]) & (1 << (63 - (b & 63))): bit b, first byte first.
FlagPos(b) == b
DataPos(n, b, k) == DataStart(n) + b * BlockBits + k

\* What a mapping made for n blocks finds of block b: zeros past the end of a
\* file that was cut since (or the process dies, which is a Stop).
BlockOf(s, n, b) == [k \in 0..BlockBits - 1 |->
    LET p == DataPos(n, b, k) IN IF p \in DOMAIN s.bits THEN s.bits[p] ELSE 0]

\* A mutation: the word of flags is written with this one alone.
WithFlagOnly(s, b) ==
    [s EXCEPT !.bits = [p \in DOMAIN s.bits |->
        IF p = FlagPos(b) THEN 1
        ELSE IF p \div BitsPerWord = FlagPos(b) \div BitsPerWord THEN 0 ELSE s.bits[p]]]

WithFlag(s, b) == [s EXCEPT !.bits[FlagPos(b)] = 1]

WithBlock(s, n, b, v) ==
    [s EXCEPT !.bits = [p \in DOMAIN s.bits |->
        IF p \in {DataPos(n, b, k) : k \in 0..BlockBits - 1}
        THEN v[p - DataPos(n, b, 0)] ELSE s.bits[p]]]

\* A mutation: the flags are given whole words, as they are used.
BlankWider(n) == [src |-> None,
                  bits |-> [p \in 0..Words(n) * BitsPerWord + n * BlockBits - 1 |-> 0]]

\* A file that has just been truncated and sized, or calloc.
Blank(n) == [src |-> None, bits |-> [p \in 0..Size(n) - 1 |-> 0]]

\* The source a header names: the image's size and the MD5 of its contents.
Source(i) == <<i, original[i]>>
NoStore == [src |-> None, bits |-> <<>>]

-----------------------------------------------------------------------------
NoAnswer == <<>>
Refused == <<None>>    \* the carry set, with an error code
Refuse == answer' = Refused

Idle == on /\ busy = None /\ answer = NoAnswer

\* The program takes the answer of its call before it makes another.
Return == /\ on /\ answer # NoAnswer
          /\ answer' = NoAnswer
          /\ UNCHANGED <<on, original, store, file, overlay, span, busy>>

\* The file beside an image, when it is the image's overlay.
Saved(i) == IF i \in Overlaid /\ store[Stem[i]].src = Source(i) THEN Stem[i] ELSE None

\* A mutation: the file beside the image is taken for its overlay unread.
OverlayLoadAny(d, i) ==
    IF overlay[d] # None THEN {overlay[d]}
    ELSE IF i \in Overlaid /\ store[Stem[i]].src # None THEN {Stem[i], None}
    ELSE {None}

\* mii_dd_overlay_load: what is mapped already stays mapped.  A file that is there
\* but cannot be opened to be written is passed over as if it were not.
OverlayLoad(d, i) == IF overlay[d] # None THEN {overlay[d]} ELSE {Saved(i), None}

Load(d, i) == /\ Idle
              /\ <<d, i>> \in Loads
              /\ file' = [file EXCEPT ![d] = i]
              /\ \E p \in OverlayLoad(d, i) :
                    /\ overlay' = [overlay EXCEPT ![d] = p]
                    /\ span' = IF overlay[d] = None /\ p # None
                               THEN [span EXCEPT ![d] = Blocks[i]] ELSE span
              /\ UNCHANGED <<on, original, store, busy, answer>>

Eject(d) == /\ Idle
            /\ file' = [file EXCEPT ![d] = None]
            /\ UNCHANGED <<on, original, store, overlay, span, busy, answer>>

\* The blocks asked of a drive: those it has, and one that is refused as any
\* other past its end.
Asked(d) == 0..IF file[d] = None THEN 0 ELSE Blocks[file[d]]
InRange(d, b) == file[d] # None /\ b < Blocks[file[d]]

\* The number of blocks the overlay's header gives, whoever wrote it last.
HeaderSize(d) == Blocks[store[overlay[d]].src[1]]

\* mii_dd_read of one block.  A block past the end of the overlay's source
\* is not read, and no error is reported.
ReadValue(d, b) ==
    LET i == file[d]
        s == store[overlay[d]]
    IN  IF overlay[d] = None THEN Data[i][original[i]][b]
        ELSE IF b >= HeaderSize(d) THEN None
        ELSE IF s.bits[FlagPos(b)] = 1 THEN BlockOf(s, span[d], b)
        ELSE Data[i][original[i]][b]

ReadBlock(d, b) ==
    /\ \/ InRange(d, b) /\ answer' = <<<<file[d], b>>, ReadValue(d, b)>>
       \/ ~InRange(d, b) /\ Refuse
    /\ UNCHANGED <<on, original, store, file, overlay, span, busy>>

\* The entry for ProDOS: the unit is the high bit of a byte.
HdRead(d) == Idle /\ \E b \in Asked(d) : ReadBlock(d, b)

\* The SmartPort entry: unit 0 is the card, and the last drive is refused.
SpRead(u) ==
    /\ Idle
    /\ \/ /\ u \in 1..DriveCount - 1
          /\ \E b \in Asked(u) : ReadBlock(u, b)
       \/ /\ u = 0 \/ u >= DriveCount
          /\ Refuse
          /\ UNCHANGED <<on, original, store, file, overlay, span, busy>>

\* The process ends: files keep what they have, memory does not.
Halt == /\ on' = FALSE
        /\ store' = [p \in Place |-> IF p \in Drive THEN NoStore ELSE store[p]]
        /\ file' = [d \in Drive |-> None]
        /\ overlay' = [d \in Drive |-> None]
        /\ span' = [d \in Drive |-> 0]
        /\ busy' = None
        /\ answer' = NoAnswer
        /\ UNCHANGED original

\* mii_dd_write up to its call of mii_dd_overlay_prepare.  Without an overlay
\* the copy goes to the image's own mapping, which is read only: the process
\* dies.
WriteBlock(d, b, v) ==
    \/ /\ InRange(d, b)
       /\ overlay[d] # None \/ file[d] \in Overlaid
       /\ busy' = [drive |-> d, block |-> b, value |-> v,
                   stage |-> IF overlay[d] = None THEN "open" ELSE "flag"]
       /\ answer' = NoAnswer
       /\ UNCHANGED <<on, original, store, file, overlay, span>>
    \/ /\ InRange(d, b)
       /\ overlay[d] = None /\ file[d] \notin Overlaid
       /\ Halt
    \/ /\ ~InRange(d, b)
       /\ Refuse
       /\ UNCHANGED <<on, original, store, file, overlay, span, busy>>

HdWrite(d) == Idle /\ \E b \in Asked(d), v \in Written : WriteBlock(d, b, v)

\* Unit 0 passes the check and reads drive[255], past the card: whatever is
\* there, the call is refused or the process dies.
SpWrite(u) ==
    /\ Idle
    /\ \/ /\ u \in 1..DriveCount - 1
          /\ \E b \in Asked(u), v \in Written : WriteBlock(u, b, v)
       \/ /\ u = 0 \/ u >= DriveCount
          /\ Refuse
          /\ UNCHANGED <<on, original, store, file, overlay, span, busy>>
       \/ u = 0 /\ Halt

-----------------------------------------------------------------------------
(* The rest of a write.                                                    *)

At(stage) == on /\ busy # None /\ busy.stage = stage

\* mii_dd_overlay_prepare: the file is created or emptied, under another drive
\* that has it mapped too, or it cannot be and the overlay is in memory.
OpenOverlay ==
    /\ At("open")
    /\ LET d == busy.drive IN \E p \in {d, Stem[file[d]]} :
          /\ store' = [store EXCEPT ![p] = Blank(Blocks[file[d]])]
          /\ overlay' = [overlay EXCEPT ![d] = p]
          /\ span' = [span EXCEPT ![d] = Blocks[file[d]]]
    /\ busy' = [busy EXCEPT !.stage = "header"]
    /\ UNCHANGED <<on, original, file, answer>>

WriteHeader ==
    /\ At("header")
    /\ store' = [store EXCEPT ![overlay[busy.drive]].src = Source(file[busy.drive])]
    /\ busy' = [busy EXCEPT !.stage = "flag"]
    /\ UNCHANGED <<on, original, file, overlay, span, answer>>

SetFlag ==
    /\ At("flag")
    /\ LET d == busy.drive IN
          store' = IF busy.block < HeaderSize(d)
                   THEN [store EXCEPT ![overlay[d]] = WithFlag(@, busy.block)]
                   ELSE store
    /\ busy' = [busy EXCEPT !.stage = "copy"]
    /\ UNCHANGED <<on, original, file, overlay, span, answer>>

\* The copy is not bounded by the header: past the end of the mapping or of the
\* file it is lost in the last page or kills the process.
CopyBlock ==
    /\ At("copy")
    /\ LET d == busy.drive
           s == store[overlay[d]]
           n == span[d]
       IN  \/ /\ busy' = None
              /\ store' = [store EXCEPT ![overlay[d]] = WithBlock(@, n, busy.block, busy.value)]
              /\ UNCHANGED <<on, original, file, overlay, span, answer>>
           \/ /\ \/ busy.block >= n
                 \/ DataPos(n, busy.block, BlockBits - 1) \notin DOMAIN s.bits
              /\ Halt

-----------------------------------------------------------------------------
Start == /\ ~on
         /\ on' = TRUE
         /\ UNCHANGED <<original, store, file, overlay, span, busy, answer>>

\* Quit, or a kill at any point.
Stop == on /\ Halt

\* The user replaces an image file, the emulator not running.
Replace(i) == /\ ~on
              /\ \E e \in Edition[i] \ {original[i]} : original' = [original EXCEPT ![i] = e]
              /\ UNCHANGED <<on, store, file, overlay, span, busy, answer>>

Init == /\ on = FALSE
        /\ original \in {f \in [Image -> Editions] : \A i \in Image : f[i] \in Edition[i]}
        /\ store = [p \in Place |-> NoStore]
        /\ file = [d \in Drive |-> None]
        /\ overlay = [d \in Drive |-> None]
        /\ span = [d \in Drive |-> 0]
        /\ busy = None
        /\ answer = NoAnswer

Next ==
    \/ \E d \in Drive, i \in Image : Load(d, i)
    \/ \E d \in Drive : Eject(d)
    \/ Return
    \/ \E d \in Drive : HdRead(d)
    \/ \E u \in Unit : SpRead(u)
    \/ \E d \in Drive : HdWrite(d)
    \/ \E u \in Unit : SpWrite(u)
    \/ OpenOverlay
    \/ WriteHeader
    \/ SetFlag
    \/ CopyBlock
    \/ Start
    \/ Stop
    \/ \E i \in Image : Replace(i)

Spec == Init /\ [][Next]_vars

-----------------------------------------------------------------------------
(* What it promises.                                                       *)

\* What a place may hold: nothing, or the overlay of an image, whose header may
\* not be written yet.
OverlayOf(i) == [src : {None} \union ({i} \X Edition[i]),
                 bits : [0..Size(Blocks[i]) - 1 -> {0, 1}]]
RequestFor(i) == [drive : Drive, block : 0..Blocks[i] - 1, value : Written, stage : Stage]

(* Every variable has the values the code can give it.                     *)
TypeOK ==
    /\ on \in BOOLEAN
    /\ original \in [Image -> Editions]
    /\ \A i \in Image : original[i] \in Edition[i]
    /\ DOMAIN store = Place
    /\ \A p \in Place : store[p] = NoStore \/ \E i \in Image : store[p] \in OverlayOf(i)
    /\ file \in [Drive -> Image \union {None}]
    /\ overlay \in [Drive -> Place \union {None}]
    /\ span \in [Drive -> {0} \union {Blocks[i] : i \in Image}]
    /\ \A d \in Drive : span[d] = 0 <=> overlay[d] = None
    /\ busy = None \/ \E i \in Image : busy \in RequestFor(i) /\ file[busy.drive] = i
    /\ answer \in {NoAnswer, Refused} \union
                  ((Image \X BlockNo) \X (Value \union {None}))

\* The images that have an overlay to themselves: a drive keeps its first one
\* whatever is loaded in it later, and nothing keeps two drives from one file.
Alone == {i \in Image : \A x, y \in Loads :
             x[2] = i => /\ y[1] = x[1] => y[2] = i
                         /\ Stem[y[2]] = Stem[i] => y[1] = x[1]}

\* The blocks whose flag lies in the part of the overlay reserved for flags and
\* whose data lies past all the flags that are used.
Sound(n) == {b \in 0..n - 1 : b < DataStart(n) /\ DataPos(n, b, 0) >= n}

Kept == UNION {{<<i, b>> : b \in IF i \in Overlaid THEN Sound(Blocks[i]) ELSE 0..Blocks[i] - 1}
               : i \in Alone}

\* Where the blocks of an image are read from, but for its own file: its drive's
\* overlay, or, when no drive has it, the file that it would be loaded with.
Backing(i) ==
    LET mapped == {overlay[d] : d \in {d \in Drive : <<d, i>> \in Loads /\ overlay[d] # None}}
    IN  IF mapped # {} THEN CHOOSE p \in mapped : TRUE
        ELSE IF \E d \in Drive : file[d] = i THEN None
        ELSE Saved(i)

(* The blocks a drive shows of an image that is alone in it, and the only  *)
(* one of its name in any drive, are never mixed with those of another     *)
(* image or of another edition of it: the overlay it uses names that very  *)
(* content, but while its header is being written.                         *)
OwnOverlay ==
    \A d \in Drive :
        file[d] \in Alone /\ overlay[d] # None /\ ~(At("header") /\ busy.drive = d)
        => store[overlay[d]].src = Source(file[d])

Original(k) == Data[k[1]][original[k[1]]][k[2]]

\* What the block reads as from an overlay, or from none.
HeldAt(p, k) ==
    IF p # None /\ store[p].bits[FlagPos(k[2])] = 1
    THEN BlockOf(store[p], Blocks[k[1]], k[2])
    ELSE Original(k)

Holds(k) == HeldAt(Backing(k[1]), k)

Device == INSTANCE BlockDevice WITH
    content <- [k \in Kept |-> Holds(k)],
    saved <- [k \in Kept |-> HeldAt(Saved(k[1]), k)],
    base <- [k \in Kept |-> Original(k)],
    changes <- [i \in {k[1] : k \in Kept} |->
                   IF Backing(i) \in Drive THEN "memory"
                   ELSE IF Backing(i) = None /\ Saved(i) # None THEN "unused"
                   ELSE "file"],
    writing <- IF busy # None /\ <<file[busy.drive], busy.block>> \in Kept
               THEN <<<<file[busy.drive], busy.block>>, busy.value>> ELSE <<>>,
    answer <- IF answer \in {NoAnswer, Refused} THEN <<>> ELSE answer

(* Every sound block of an image that is alone in its drive, and the only  *)
(* one of its name in any drive, reads as it was last written, through     *)
(* ejects, reloads, kills and restarts, but where BlockDevice excepts it:  *)
(* the card and its overlays implement that.                               *)
KeepsBlocks == Device!Spec
=============================================================================
