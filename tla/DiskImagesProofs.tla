-------------------------- MODULE DiskImagesProofs --------------------------
(***************************************************************************)
(* The SmartPort card and its overlays, for every set of images and drives'*)
(* loads, overlays shared or not, all sizes and all contents: an image that*)
(* has its overlay to itself is only ever overlaid by a file that names it *)
(* (OverlayIsOwn), what drives, overlays and answers hold fits             *)
(* (OverlaysFit), and the blocks of an image that has its overlay to       *)
(* itself read as they were last written, but where an overlay could not   *)
(* be opened: BlockDevice is implemented (BlocksAreKept).                  *)
(***************************************************************************)
EXTENDS DiskImages, TLAPS

\* Functions and records have the shape the steps update.
Shape == /\ file \in [Drive -> Image \union {None}]
         /\ overlay \in [Drive -> Place \union {None}]
         /\ DOMAIN store = Place
         /\ \A p \in Place : store[p] = [src |-> store[p].src, bits |-> store[p].bits]

\* When the emulator is off it holds nothing.
Off == ~on => /\ \A d \in Drive : file[d] = None /\ overlay[d] = None
              /\ busy = None

\* A drive has only images it is given, and overlays of its own.
Own(d) == {d} \union {Stem[i] : i \in {i \in Image : <<d, i>> \in Loads}}
Placed == \A d \in Drive : /\ file[d] # None => <<d, file[d]>> \in Loads
                           /\ overlay[d] # None => overlay[d] \in Own(d)

\* A write has an image, and an overlay once it is opened.
Working == busy # None => /\ busy \in Request
                          /\ file[busy.drive] # None
                          /\ busy.stage = "open" <=> overlay[busy.drive] = None

InHeader(d) == At("header") /\ busy.drive = d

\* The drive's overlay names this image, the image in the drive or not.
Named(d, i) == overlay[d] # None /\ ~InHeader(d) => store[overlay[d]].src = Source(i)
AllNamed == \A d \in Drive, i \in Alone : <<d, i>> \in Loads => Named(d, i)

IInv == Shape /\ Off /\ Placed /\ Working /\ AllNamed

-----------------------------------------------------------------------------
LEMMA OneImage ==
    ASSUME NEW d \in Drive, NEW i \in Alone, NEW j, <<d, i>> \in Loads, <<d, j>> \in Loads
    PROVE  j = i
<1>1. \A x, y \in Loads : x[2] = i => (y[1] = x[1] => y[2] = i)
  BY DEF Alone
<1> QED BY <1>1

LEMMA OneDrive ==
    ASSUME NEW d \in Drive, NEW e \in Drive, NEW i \in Alone, NEW j,
           <<d, i>> \in Loads, <<e, j>> \in Loads, Stem[j] = Stem[i]
    PROVE  e = d
<1>1. \A x, y \in Loads : x[2] = i => (Stem[y[2]] = Stem[i] => y[1] = x[1])
  BY DEF Alone
<1>2. <<d, i>>[2] = i => (Stem[<<e, j>>[2]] = Stem[i] => <<e, j>>[1] = <<d, i>>[1])
  BY <1>1
<1> QED BY <1>2

\* The drive of an image that has its overlay to itself shares no place.
LEMMA DrivesApart ==
    ASSUME NEW d \in Drive, NEW e \in Drive, d # e, NEW i \in Alone, <<d, i>> \in Loads
    PROVE  Own(d) \cap Own(e) = {}
<1>1. ASSUME NEW j \in Image, NEW k \in Image, <<d, j>> \in Loads, <<e, k>> \in Loads
      PROVE  Stem[j] # Stem[k]
  <2>1. j = i BY <1>1, OneImage
  <2> QED BY <1>1, <2>1, OneDrive
<1>2. \A j \in Image : Stem[j] \notin Drive BY DataAssumption DEF Stems
<1> QED BY <1>1, <1>2 DEF Own

LEMMA OverlaysApart ==
    ASSUME Shape, Placed, NEW d \in Drive, NEW e \in Drive, d # e,
           NEW i \in Alone, <<d, i>> \in Loads, overlay[d] # None
    PROVE  overlay[e] # overlay[d]
<1>1. Own(d) \cap Own(e) = {} BY DrivesApart
<1>2. overlay[d] \in Own(d) BY DEF Placed
<1>3. CASE overlay[e] = None BY <1>3
<1>4. CASE overlay[e] # None
  <2>1. overlay[e] \in Own(e) BY <1>4 DEF Placed
  <2> QED BY <1>1, <1>2, <2>1
<1> QED BY <1>3, <1>4

LEMMA NoneIsNothing == /\ None \notin Image
                       /\ None \notin Place
                       /\ None \notin Request
                       /\ None \notin Image \X Editions
BY DataAssumption

LEMMA InitHolds == Init => IInv
<1> SUFFICES ASSUME Init PROVE IInv OBVIOUS
<1> USE DEF Init
<1>1. Shape BY DEF Shape, NoStore
<1>2. Off /\ Placed /\ Working BY DEF Off, Placed, Working
<1>3. AllNamed BY DEF AllNamed, Named
<1> QED BY <1>1, <1>2, <1>3 DEF IInv

\* Most calls change none of what the invariant is about.
LEMMA QuietHolds ==
    ASSUME IInv, UNCHANGED <<on, original, store, file, overlay, span, busy>>
    PROVE  IInv'
BY DEF IInv, Shape, Off, Placed, Working, AllNamed, Named, InHeader, At, Source, Own

LEMMA HaltHolds ==
    ASSUME IInv, Halt
    PROVE  IInv'
<1> USE DEF Halt
<1>1. Shape' BY DEF IInv, Shape, NoStore
<1>2. Off' /\ Placed' /\ Working' BY DEF Off, Placed, Working
<1>3. AllNamed' BY DEF AllNamed, Named
<1> QED BY <1>1, <1>2, <1>3 DEF IInv

\* What a load may map.
LEMMA SavedIs ==
    ASSUME NEW i \in Image
    PROVE  /\ Saved(i) # None => /\ Saved(i) = Stem[i] /\ Saved(i) \in Place
                                 /\ i \in Overlaid /\ store[Saved(i)].src = Source(i)
           /\ Saved(i) = None /\ i \in Overlaid => store[Stem[i]].src # Source(i)
<1>1. Stem[i] \in Place /\ Stem[i] # None BY NoneIsNothing DEF Place, Stems
<1> QED BY <1>1 DEF Saved

LEMMA LoadHolds ==
    ASSUME IInv, NEW d \in Drive, NEW i \in Image, Load(d, i)
    PROVE  IInv'
<1> USE DEF IInv, Load, Idle
<1>0. PICK o \in OverlayLoad(d, i) : overlay' = [overlay EXCEPT ![d] = o]
  OBVIOUS
<1>1. o \in Place \union {None} BY SavedIs DEF OverlayLoad, Shape
<1>2. o # None => o \in Own(d) BY SavedIs DEF OverlayLoad, Placed, Own
<1>3. o = overlay[d] \/ o = None \/ store[o].src = Source(i)
  BY SavedIs DEF OverlayLoad
<1>4. overlay' = [overlay EXCEPT ![d] = o] BY <1>0
<1>5. Shape' BY <1>1, <1>4 DEF Shape
<1>6. Off' BY DEF Off
<1>7. Placed' BY <1>2, <1>4, NoneIsNothing DEF Placed, Shape, Own
<1>8. Working' BY DEF Working
<1>9. AllNamed'
  <2> SUFFICES ASSUME NEW e \in Drive, NEW j \in Alone', <<e, j>> \in Loads,
                      overlay'[e] # None
               PROVE  store'[overlay'[e]].src = Source(j)'
    BY DEF AllNamed, Named
  <2>0. j \in Alone /\ Source(j)' = Source(j) BY DEF Alone, Source
  <2>1. CASE overlay'[e] = overlay[e]
    BY <2>0, <2>1 DEF AllNamed, Named, InHeader, At
  <2>2. CASE overlay'[e] # overlay[e]
    <3>1. e = d /\ o # overlay[d] /\ o # None BY <2>2, <1>4 DEF Shape
    <3>2. i = j BY <3>1, <2>0, OneImage
    <3> QED BY <3>1, <3>2, <2>0, <1>3, <1>4 DEF Shape
  <2> QED BY <2>1, <2>2
<1> QED BY <1>5, <1>6, <1>7, <1>8, <1>9

LEMMA EjectHolds ==
    ASSUME IInv, NEW d \in Drive, Eject(d)
    PROVE  IInv'
<1> USE DEF IInv, Eject, Idle
<1>1. Shape' BY DEF Shape
<1>2. Off' BY DEF Off
<1>3. Placed' BY DEF Placed, Shape, Own
<1>4. Working' BY DEF Working
<1>5. AllNamed' BY DEF AllNamed, Named, InHeader, At, Source, Alone
<1> QED BY <1>1, <1>2, <1>3, <1>4, <1>5

LEMMA WriteHolds ==
    ASSUME IInv, Idle, NEW d \in Drive, NEW b \in Asked(d), NEW v \in Written,
           WriteBlock(d, b, v)
    PROVE  IInv'
<1>1. CASE Halt BY <1>1, HaltHolds
<1>2. CASE UNCHANGED <<on, original, store, file, overlay, span, busy>> BY <1>2, QuietHolds
<1>3. CASE /\ InRange(d, b)
           /\ busy' = [drive |-> d, block |-> b, value |-> v,
                       stage |-> IF overlay[d] = None THEN "open" ELSE "flag"]
           /\ UNCHANGED <<on, original, store, file, overlay, span>>
  <2> USE <1>3 DEF IInv
  <2>1. Shape' /\ Off' /\ Placed' BY DEF Shape, Off, Placed, Own, Idle
  <2>2. busy' \in Request
    BY DataAssumption DEF Request, Asked, Stage
  <2>3. Working' BY <2>2 DEF Working, InRange
  <2>4. ~InHeader(d)' BY DEF InHeader, At
  <2>5. AllNamed' BY <2>4 DEF AllNamed, Named, InHeader, At, Source, Alone, Idle
  <2> QED BY <2>1, <2>3, <2>5
<1> QED BY <1>1, <1>2, <1>3 DEF WriteBlock

LEMMA OpenHolds == ASSUME IInv, OpenOverlay PROVE IInv'
<1> DEFINE d == busy.drive
<1>0. d \in Drive /\ file[d] \in Image /\ <<d, file[d]>> \in Loads /\ overlay[d] = None
  BY DEF IInv, OpenOverlay, At, Working, Request, Shape, Placed
<1>1. PICK p \in {d, Stem[file[d]]} :
        /\ store' = [store EXCEPT ![p] = Blank(Blocks[file[d]])]
        /\ overlay' = [overlay EXCEPT ![d] = p]
  BY DEF OpenOverlay
<1>2. /\ UNCHANGED <<on, original, file>> /\ on
      /\ busy \in Request /\ busy' = [busy EXCEPT !.stage = "header"]
  BY DEF OpenOverlay, At, IInv, Working
<1>3. busy' \in Request /\ busy'.drive = d /\ busy'.stage = "header" /\ busy' # None
  BY <1>2, NoneIsNothing DEF Request, Stage
<1>4. p \in Own(d) /\ p \in Place /\ p # None
  BY <1>0, NoneIsNothing DEF Own, Place, Stems
<1> HIDE DEF d
<1>5. Shape' BY <1>0, <1>1, <1>2, <1>4 DEF IInv, Shape, Blank
<1>6. Off' BY <1>2 DEF Off
<1>7. Placed' BY <1>0, <1>1, <1>2, <1>4 DEF IInv, Placed, Shape, Own
<1>8. Working' BY <1>0, <1>1, <1>2, <1>3, <1>4, NoneIsNothing DEF Working, IInv, Shape
<1>9. AllNamed'
  <2> SUFFICES ASSUME NEW e \in Drive, NEW j \in Alone', <<e, j>> \in Loads,
                      overlay'[e] # None, ~InHeader(e)'
               PROVE  store'[overlay'[e]].src = Source(j)'
    BY DEF AllNamed, Named
  <2>0. j \in Alone /\ Source(j)' = Source(j) BY <1>2 DEF Alone, Source
  <2>1. e # d BY <1>2, <1>3 DEF InHeader, At
  <2>2. overlay'[e] = overlay[e] BY <2>1, <1>1 DEF IInv, Shape
  <2>3. overlay[e] \in Own(e) /\ overlay[e] \in Place
    BY <2>2 DEF IInv, Placed, Shape
  <2>4. overlay[e] # p
    <3>1. Own(e) \cap Own(d) = {} BY <2>0, <2>1, <1>0, DrivesApart
    <3> QED BY <3>1, <2>3, <1>4
  <2>5. store'[overlay[e]] = store[overlay[e]] BY <2>3, <2>4, <1>1 DEF IInv, Shape
  <2>6. ~InHeader(e) BY <2>1 DEF InHeader, d
  <2> QED BY <2>0, <2>2, <2>5, <2>6 DEF IInv, AllNamed, Named
<1> QED BY <1>5, <1>6, <1>7, <1>8, <1>9 DEF IInv

\* What is left of a write changes the bits of the drive's overlay, or its
\* header.
LEMMA BitsHold ==
    ASSUME IInv, on, busy # None, busy.stage \in {"flag", "copy"},
           \/ busy' = None
           \/ busy' \in Request /\ busy'.drive = busy.drive /\ busy'.stage = "copy",
           DOMAIN store' = Place,
           \A p \in Place : /\ store'[p].src = store[p].src
                            /\ store'[p] = [src |-> store'[p].src, bits |-> store'[p].bits],
           UNCHANGED <<on, original, file, overlay>>
    PROVE  IInv'
<1> USE DEF IInv
<1>1. Shape' /\ Off' /\ Placed' BY DEF Shape, Off, Placed, Own
<1>2. Working' BY DEF Working
<1>3. AllNamed'
  <2> SUFFICES ASSUME NEW d \in Drive, NEW i \in Alone', <<d, i>> \in Loads,
                      overlay'[d] # None
               PROVE  store'[overlay'[d]].src = Source(i)'
    BY DEF AllNamed, Named
  <2>1. i \in Alone /\ Source(i)' = Source(i) BY DEF Alone, Source
  <2>2. ~InHeader(d) BY DEF InHeader, At
  <2>3. overlay[d] \in Place BY DEF Shape
  <2> QED BY <2>1, <2>2, <2>3 DEF AllNamed, Named
<1> QED BY <1>1, <1>2, <1>3

LEMMA HeaderHolds == ASSUME IInv, WriteHeader PROVE IInv'
<1> DEFINE d == busy.drive
           p == overlay[d]
<1> USE DEF IInv, WriteHeader, At
<1>0. /\ d \in Drive /\ file[d] \in Image /\ <<d, file[d]>> \in Loads
      /\ p \in Place /\ busy \in Request
  BY DEF Working, Request, Shape, Placed
<1>1. store' = [store EXCEPT ![p].src = Source(file[d])] OBVIOUS
<1>2. \A q \in Place : /\ store'[q].src = IF q = p THEN Source(file[d]) ELSE store[q].src
                       /\ store'[q] = [src |-> store'[q].src, bits |-> store'[q].bits]
  BY <1>0, <1>1 DEF Shape
<1>3. busy' \in Request /\ busy'.drive = d /\ busy'.stage = "flag" /\ busy' # None
  BY <1>0, NoneIsNothing DEF Request, Stage
<1>4. Shape' BY <1>0, <1>1, <1>2 DEF Shape
<1>5. Off' /\ Placed' BY DEF Off, Placed, Own
<1>6. Working' BY <1>0, <1>3, NoneIsNothing DEF Working
<1>7. AllNamed'
  <2> SUFFICES ASSUME NEW e \in Drive, NEW j \in Alone', <<e, j>> \in Loads,
                      overlay'[e] # None
               PROVE  store'[overlay'[e]].src = Source(j)'
    BY DEF AllNamed, Named
  <2>0. j \in Alone /\ Source(j)' = Source(j) /\ overlay' = overlay BY DEF Alone, Source
  <2>1. overlay[e] \in Place BY <2>0 DEF Shape
  <2>2. CASE e = d
    <3>1. file[d] = j BY <2>0, <2>2, <1>0, OneImage
    <3> QED BY <3>1, <2>0, <2>1, <2>2, <1>2
  <2>3. CASE e # d
    <3>1. overlay[e] # p BY <2>3, <2>0, <1>0, OverlaysApart
    <3>2. ~InHeader(e) BY <2>3 DEF InHeader
    <3> QED BY <3>1, <3>2, <2>0, <2>1, <1>2 DEF AllNamed, Named
  <2> QED BY <2>2, <2>3
<1> QED BY <1>4, <1>5, <1>6, <1>7

LEMMA FlagHolds == ASSUME IInv, SetFlag PROVE IInv'
<1> DEFINE p == overlay[busy.drive]
<1>0. on /\ busy # None /\ busy.stage = "flag" /\ UNCHANGED <<on, original, file, overlay>>
  BY DEF SetFlag, At
<1>1. busy \in Request /\ p \in Place
  BY <1>0 DEF IInv, Working, Request, Shape
<1>2. busy' \in Request /\ busy'.drive = busy.drive /\ busy'.stage = "copy"
  BY <1>1 DEF SetFlag, Request, Stage
<1>3. store' = store \/ store' = [store EXCEPT ![p] = WithFlag(@, busy.block)]
  BY DEF SetFlag
<1>4. DOMAIN store' = Place BY <1>3 DEF IInv, Shape
<1>5. \A q \in Place : /\ store'[q].src = store[q].src
                       /\ store'[q] = [src |-> store'[q].src, bits |-> store'[q].bits]
  BY <1>1, <1>3 DEF IInv, Shape, WithFlag
<1> HIDE DEF p
<1> QED BY <1>0, <1>2, <1>4, <1>5, BitsHold

LEMMA CopyHolds == ASSUME IInv, CopyBlock PROVE IInv'
<1> DEFINE p == overlay[busy.drive]
<1>1. CASE Halt BY <1>1, HaltHolds
<1>2. CASE /\ busy' = None
           /\ store' = [store EXCEPT ![p] = WithBlock(@, span[busy.drive],
                                                      busy.block, busy.value)]
           /\ UNCHANGED <<on, original, file, overlay, span, answer>>
  <2>0. on /\ busy # None /\ busy.stage = "copy"
    BY DEF CopyBlock, At
  <2>1. p \in Place
    BY <2>0 DEF IInv, Working, Request, Shape
  <2>2. DOMAIN store' = Place BY <1>2 DEF IInv, Shape
  <2>3. \A q \in Place : /\ store'[q].src = store[q].src
                         /\ store'[q] = [src |-> store'[q].src, bits |-> store'[q].bits]
    BY <1>2, <2>1 DEF IInv, Shape, WithBlock
  <2> HIDE DEF p
  <2> QED BY <1>2, <2>0, <2>2, <2>3, BitsHold
<1> QED BY <1>1, <1>2 DEF CopyBlock

-----------------------------------------------------------------------------
LEMMA StartHolds == ASSUME IInv, Start PROVE IInv'
<1> USE DEF IInv, Start
<1>1. Shape' /\ Off' /\ Placed' /\ Working' BY DEF Shape, Off, Placed, Working, Own
<1>2. AllNamed' BY DEF Off, AllNamed, Named
<1> QED BY <1>1, <1>2

LEMMA ReplaceHolds == ASSUME IInv, NEW i \in Image, Replace(i) PROVE IInv'
<1> USE DEF IInv, Replace
<1>1. Shape' /\ Off' /\ Placed' /\ Working' BY DEF Shape, Off, Placed, Working, Own
<1>2. AllNamed' BY DEF Off, AllNamed, Named
<1> QED BY <1>1, <1>2

LEMMA NextHolds == ASSUME IInv, [Next]_vars PROVE IInv'
<1>1. CASE UNCHANGED vars BY <1>1, QuietHolds DEF vars
<1>2. ASSUME NEW d \in Drive, NEW i \in Image, Load(d, i) PROVE IInv'
  BY <1>2, LoadHolds
<1>3. ASSUME NEW d \in Drive, Eject(d) PROVE IInv' BY <1>3, EjectHolds
<1>4. CASE Return BY <1>4, QuietHolds DEF Return
<1>5. ASSUME NEW d \in Drive, HdRead(d) PROVE IInv'
  BY <1>5, QuietHolds DEF HdRead, ReadBlock
<1>6. ASSUME NEW u \in Unit, SpRead(u) PROVE IInv'
  BY <1>6, QuietHolds DEF SpRead, ReadBlock
<1>7. ASSUME NEW d \in Drive, HdWrite(d) PROVE IInv'
  BY <1>7, WriteHolds DEF HdWrite
<1>8. ASSUME NEW u \in Unit, SpWrite(u) PROVE IInv'
  <2>1. 1..DriveCount - 1 \subseteq Drive BY DEF Drive, DriveCount
  <2> QED BY <1>8, <2>1, WriteHolds, HaltHolds, QuietHolds DEF SpWrite
<1>9. CASE OpenOverlay BY <1>9, OpenHolds
<1>10. CASE WriteHeader BY <1>10, HeaderHolds
<1>11. CASE SetFlag BY <1>11, FlagHolds
<1>12. CASE CopyBlock BY <1>12, CopyHolds
<1>13. CASE Start BY <1>13, StartHolds
<1>14. CASE Stop BY <1>14, HaltHolds DEF Stop
<1>15. ASSUME NEW i \in Image, Replace(i) PROVE IInv' BY <1>15, ReplaceHolds
<1> QED BY <1>1, <1>2, <1>3, <1>4, <1>5, <1>6, <1>7, <1>8, <1>9, <1>10, <1>11,
           <1>12, <1>13, <1>14, <1>15 DEF Next

LEMMA NamedIsOwn == ASSUME IInv PROVE OwnOverlay
<1> SUFFICES ASSUME NEW d \in Drive, file[d] \in Alone, overlay[d] # None,
                    ~(At("header") /\ busy.drive = d)
             PROVE  store[overlay[d]].src = Source(file[d])
  BY DEF OwnOverlay
<1>1. file[d] # None BY NoneIsNothing DEF Alone
<1>2. <<d, file[d]>> \in Loads BY <1>1 DEF IInv, Placed
<1> QED BY <1>2 DEF IInv, AllNamed, Named, InHeader

(* The blocks a drive shows of an image that is alone in it, and the only  *)
(* one of its name in any drive, come from that image or from an overlay   *)
(* that names its very content, through all loads, whatever can be opened, *)
(* ejects, writes cut short, stops and replacements of files.              *)
THEOREM OverlayIsOwn == Spec => []OwnOverlay
<1>1. Spec => []IInv BY InitHolds, NextHolds, PTL DEF Spec
<1>2. IInv => OwnOverlay BY NamedIsOwn
<1> QED BY <1>1, <1>2, PTL

-----------------------------------------------------------------------------
(* The layout of an overlay: where a flag is and where a block is, in any  *)
(* sizes of bytes, words and blocks.                                       *)

LEMMA Sizes ==
    /\ BitsPerByte \in Nat \ {0} /\ BitsPerWord \in Nat \ {0} /\ BlockBits \in Nat \ {0}
    /\ \A i \in Image : Blocks[i] \in Nat \ {0}
BY SizesAssumption

LEMMA ProductGrows ==
    ASSUME NEW x \in Int, NEW y \in Int, x <= y, NEW z \in Nat
    PROVE  x * z <= y * z
<1> DEFINE u == y - x
<1>1. u \in Nat /\ y = x + u OBVIOUS
<1>2. u * z \in Nat BY <1>1
<1>3. (x + u) * z = x * z + u * z BY <1>1
<1> QED BY <1>1, <1>2, <1>3

LEMMA StartIsNat == ASSUME NEW n \in Nat PROVE DataStart(n) \in Nat
<1> DEFINE m == n + BitsPerWord - 1
<1>1. m \in Nat BY Sizes
<1>2. m \div BitsPerWord \in Nat BY <1>1, Sizes
<1>3. \A w \in Nat : w * BitsPerByte \in Nat BY Sizes
<1> QED BY <1>2, <1>3 DEF DataStart, Words

LEMMA Layout ==
    ASSUME NEW n \in Nat \ {0}
    PROVE  /\ Size(n) \in Nat /\ n <= Size(n)
           /\ \A b \in Nat, k \in 0..BlockBits - 1 :
                  /\ DataPos(n, b, k) \in Nat /\ DataStart(n) <= DataPos(n, b, k)
                  /\ DataPos(n, b, k) = DataPos(n, b, 0) + k
                  /\ DataPos(n, b, 0) \in Nat
                  /\ b < n => DataPos(n, b, k) <= Size(n) - 1
<1>1. DataStart(n) \in Nat BY StartIsNat
<1>2. \A x \in Nat : x * BlockBits \in Nat BY Sizes
<1>3. n * 1 <= n * BlockBits
  BY ProductGrows, Sizes
<1>4. Size(n) \in Nat /\ n <= Size(n)
  BY <1>1, <1>2, <1>3 DEF Size
<1> SUFFICES ASSUME NEW b \in Nat, NEW k \in 0..BlockBits - 1
             PROVE  /\ DataPos(n, b, k) \in Nat /\ DataStart(n) <= DataPos(n, b, k)
                    /\ DataPos(n, b, k) = DataPos(n, b, 0) + k
                    /\ DataPos(n, b, 0) \in Nat
                    /\ b < n => DataPos(n, b, k) <= Size(n) - 1
  BY <1>4
<1>5. b * BlockBits \in Nat BY <1>2
<1>6. ASSUME b < n PROVE b * BlockBits + BlockBits <= n * BlockBits
  <2>1. (b + 1) * BlockBits <= n * BlockBits BY <1>6, ProductGrows, Sizes
  <2>2. (b + 1) * BlockBits = b * BlockBits + BlockBits BY Sizes
  <2> QED BY <2>1, <2>2
<1>7. BlockBits \in Nat /\ n * BlockBits \in Nat BY <1>2, Sizes
<1> QED BY <1>1, <1>5, <1>6, <1>7 DEF DataPos, Size

LEMMA BlocksApart ==
    ASSUME NEW n \in Nat \ {0}, NEW b \in Nat, NEW c \in Nat, b # c,
           NEW k \in 0..BlockBits - 1, NEW l \in 0..BlockBits - 1
    PROVE  DataPos(n, b, k) # DataPos(n, c, l)
<1>1. DataStart(n) \in Nat BY StartIsNat
<1>2. \A x \in Nat : x * BlockBits \in Nat BY Sizes
<1>3. ASSUME NEW x \in Nat, NEW y \in Nat, x < y
      PROVE  x * BlockBits + BlockBits <= y * BlockBits
  <2>1. (x + 1) * BlockBits <= y * BlockBits BY <1>3, ProductGrows, Sizes
  <2>2. (x + 1) * BlockBits = x * BlockBits + BlockBits BY Sizes
  <2> QED BY <2>1, <2>2
<1>4. BlockBits \in Nat BY Sizes
<1>5. CASE b < c
  BY <1>1, <1>2, <1>3, <1>4, <1>5 DEF DataPos
<1>6. CASE c < b
  BY <1>1, <1>2, <1>3, <1>4, <1>6 DEF DataPos
<1> QED BY <1>5, <1>6

\* Writing a flag or a block changes that flag or that block, in an overlay that
\* stays one.
LEMMA FlagWrites ==
    ASSUME NEW i \in Image, NEW s \in OverlayOf(i), NEW b \in Nat
    PROVE  /\ WithFlag(s, b) \in OverlayOf(i)
           /\ WithFlag(s, b).src = s.src
           /\ DOMAIN s.bits = 0..Size(Blocks[i]) - 1
           /\ \A p \in DOMAIN s.bits :
                  WithFlag(s, b).bits[p] = IF p = b THEN 1 ELSE s.bits[p]
BY DEF WithFlag, OverlayOf, FlagPos

LEMMA BlockWrites ==
    ASSUME NEW i \in Image, NEW s \in OverlayOf(i), NEW n \in Nat \ {0}, NEW b \in Nat,
           NEW v \in Value
    PROVE  /\ WithBlock(s, n, b, v) \in OverlayOf(i)
           /\ WithBlock(s, n, b, v).src = s.src
           /\ \A p \in DOMAIN s.bits :
                  (\A k \in 0..BlockBits - 1 : p # DataPos(n, b, k))
                  => WithBlock(s, n, b, v).bits[p] = s.bits[p]
           /\ \A k \in 0..BlockBits - 1 :
                  DataPos(n, b, k) \in DOMAIN s.bits
                  => WithBlock(s, n, b, v).bits[DataPos(n, b, k)] = v[k]
<1> DEFINE at == {DataPos(n, b, k) : k \in 0..BlockBits - 1}
           new == [p \in DOMAIN s.bits |->
                      IF p \in at THEN v[p - DataPos(n, b, 0)] ELSE s.bits[p]]
<1>1. \A k \in 0..BlockBits - 1 : DataPos(n, b, k) - DataPos(n, b, 0) = k
  BY Layout
<1>2. \A p \in at : v[p - DataPos(n, b, 0)] \in {0, 1}
  BY <1>1 DEF Value
<1>3. WithBlock(s, n, b, v) = [s EXCEPT !.bits = new] BY DEF WithBlock
<1>4. s.bits \in [0..Size(Blocks[i]) - 1 -> {0, 1}] BY DEF OverlayOf
<1>5. new \in [0..Size(Blocks[i]) - 1 -> {0, 1}] BY <1>2, <1>4
<1>6. \A k \in 0..BlockBits - 1 : DataPos(n, b, k) \in at OBVIOUS
<1>7. \A k \in 0..BlockBits - 1 :
         DataPos(n, b, k) \in DOMAIN s.bits => new[DataPos(n, b, k)] = v[k]
  BY <1>1, <1>6
<1>8. \A p \in DOMAIN s.bits :
         (\A k \in 0..BlockBits - 1 : p # DataPos(n, b, k)) => new[p] = s.bits[p]
  OBVIOUS
<1> HIDE DEF at, new
<1>9. /\ WithBlock(s, n, b, v) \in OverlayOf(i) /\ WithBlock(s, n, b, v).src = s.src
      /\ WithBlock(s, n, b, v).bits = new
  BY <1>3, <1>5 DEF OverlayOf
<1> QED BY <1>7, <1>8, <1>9

\* A block of an overlay is a value, wherever it is looked for.
LEMMA BlockFits ==
    ASSUME NEW i \in Image, NEW s \in OverlayOf(i), NEW n, NEW b
    PROVE  BlockOf(s, n, b) \in Value
<1>1. s.bits \in [0..Size(Blocks[i]) - 1 -> {0, 1}] BY DEF OverlayOf
<1>2. \A p \in DOMAIN s.bits : s.bits[p] \in {0, 1} BY <1>1
<1> QED BY <1>2 DEF BlockOf, Value

-----------------------------------------------------------------------------
(* What the refinement needs beyond the above.                             *)

\* The write that a drive has under way has not been answered.
Unanswered == busy # None => answer = NoAnswer

\* An overlay is opened for an image that has one, and its file's name is its
\* image's.
Backed == /\ \A d \in Drive : overlay[d] # None => \E i \in Overlaid : <<d, i>> \in Loads
          /\ At("open") => file[busy.drive] \in Overlaid

\* An overlay in use has its header, but while some drive is writing it; then it
\* is blank, and the one the image in that drive wants.
HeaderDue(d) == At("header") /\ overlay[d] = overlay[busy.drive]
Headed == \A d \in Drive : overlay[d] # None =>
              IF HeaderDue(d)
              THEN /\ store[overlay[d]] = Blank(Blocks[file[busy.drive]])
                   /\ overlay[d] \in {busy.drive, Stem[file[busy.drive]]}
              ELSE store[overlay[d]].src # None

\* A header names an image that is loaded.
Sourced == \A p \in Place : store[p].src # None =>
              \E x \in Loads : store[p].src[1] = x[2]

\* The overlay of an image that has it to itself was mapped for its blocks.
Spanned == \A d \in Drive, i \in Alone :
               <<d, i>> \in Loads /\ overlay[d] # None => span[d] = Blocks[i]

\* The block that is being copied has its flag.
Flagged == At("copy") /\ file[busy.drive] \in Alone =>
              store[overlay[busy.drive]].bits[FlagPos(busy.block)] = 1

JInv == IInv /\ TypeOK /\ Unanswered /\ Backed /\ Headed /\ Sourced /\ Spanned /\ Flagged

LEMMA BlankFits == \A i \in Image : Blank(Blocks[i]) \in OverlayOf(i) /\ Blank(Blocks[i]).src = None
BY DEF Blank, OverlayOf

LEMMA SourceIsSome == ASSUME TypeOK, NEW i \in Image PROVE Source(i) # None
<1>1. original[i] \in Editions BY DEF TypeOK
<1>2. Source(i) \in Image \X Editions BY <1>1 DEF Source
<1> QED BY <1>2, NoneIsNothing

\* A place whose header is written holds the overlay of the image it names.
LEMMA HeaderFits ==
    ASSUME TypeOK, NEW p \in Place, store[p].src # None
    PROVE  \E i \in Image : /\ store[p] \in OverlayOf(i) /\ store[p].src[1] = i
                            /\ store[p].src[2] \in Edition[i]
BY DEF TypeOK, NoStore, OverlayOf

\* So does an overlay in use, once its header is written.
LEMMA InUse ==
    ASSUME JInv, NEW d \in Drive, overlay[d] # None, ~HeaderDue(d)
    PROVE  /\ overlay[d] \in Place
           /\ \E i \in Image : /\ store[overlay[d]] \in OverlayOf(i)
                               /\ store[overlay[d]].src[1] = i
<1>1. overlay[d] \in Place /\ store[overlay[d]].src # None
  BY DEF JInv, TypeOK, Headed
<1> QED BY <1>1, HeaderFits DEF JInv

LEMMA JInit == Init => JInv
<1> SUFFICES ASSUME Init PROVE JInv OBVIOUS
<1> USE DEF Init
<1>1. IInv BY InitHolds
<1>2. TypeOK BY DEF TypeOK, NoAnswer
<1>3. \A p \in Place : store[p].src = None BY DEF NoStore
<1>4. Unanswered /\ Backed /\ Headed /\ Sourced /\ Flagged
  BY <1>3 DEF Unanswered, Backed, Headed, Sourced, Flagged, At
<1>5. Spanned BY DEF Spanned
<1> QED BY <1>1, <1>2, <1>4, <1>5 DEF JInv

\* A call that only answers.
LEMMA AnswerKeeps ==
    ASSUME JInv, UNCHANGED <<on, original, store, file, overlay, span, busy>>,
           \/ busy = None
           \/ answer' = answer,
           answer' \in {NoAnswer, Refused} \union ((Image \X BlockNo) \X (Value \union {None}))
    PROVE  JInv'
<1>1. IInv' BY QuietHolds DEF JInv
<1>2. TypeOK' BY DEF JInv, TypeOK, RequestFor, OverlayOf
<1>3. Unanswered' BY DEF JInv, Unanswered
<1>4. Backed' /\ Flagged' BY DEF JInv, Backed, Flagged, At, Alone, FlagPos
<1>5. Headed' BY DEF JInv, Headed, HeaderDue, At, Blank, Size, DataStart, Words
<1>6. Sourced' /\ Spanned' BY DEF JInv, Sourced, Spanned, Alone
<1> QED BY <1>1, <1>2, <1>3, <1>4, <1>5, <1>6 DEF JInv

LEMMA HaltKeeps == ASSUME JInv, Halt PROVE JInv'
<1> USE DEF Halt
<1>1. IInv' BY HaltHolds DEF JInv
<1>2. TypeOK' BY DEF JInv, TypeOK, NoAnswer
<1>3. Unanswered' /\ Backed' /\ Headed' /\ Flagged'
  BY DEF Unanswered, Backed, Headed, Flagged, At
<1>4. \A p \in Place : store'[p].src = None \/ store'[p].src = store[p].src
  BY DEF NoStore
<1>5. Sourced' BY <1>4 DEF JInv, Sourced
<1>6. Spanned' BY DEF Spanned
<1> QED BY <1>1, <1>2, <1>3, <1>5, <1>6 DEF JInv

LEMMA LoadKeeps ==
    ASSUME JInv, NEW d \in Drive, NEW i \in Image, Load(d, i)
    PROVE  JInv'
<1> USE DEF Load, Idle
<1>1. IInv' BY LoadHolds DEF JInv
<1>o. PICK o \in OverlayLoad(d, i) :
         /\ overlay' = [overlay EXCEPT ![d] = o]
         /\ span' = IF overlay[d] = None /\ o # None THEN [span EXCEPT ![d] = Blocks[i]] ELSE span
  OBVIOUS
<1>2. o \in Place \union {None} BY <1>o, SavedIs DEF OverlayLoad, JInv, TypeOK
<1>3. \/ o = overlay[d]
      \/ overlay[d] = None /\ i \in Overlaid /\ store[o].src = Source(i)
  BY <1>o, SavedIs DEF OverlayLoad
<1>4. overlay[d] # None => o = overlay[d] BY <1>o DEF OverlayLoad
<1>5. /\ file' = [file EXCEPT ![d] = i]
      /\ <<d, i>> \in Loads /\ UNCHANGED <<on, original, store, busy, answer>>
      /\ busy = None
  OBVIOUS
<1>6. TypeOK'
  <2>1. overlay' \in [Drive -> Place \union {None}] BY <1>o, <1>2 DEF JInv, TypeOK
  <2>2. file' \in [Drive -> Image \union {None}] BY <1>5 DEF JInv, TypeOK
  <2>3. span' \in [Drive -> {0} \union {Blocks[j] : j \in Image}]
    BY <1>o DEF JInv, TypeOK
  <2>4. \A e \in Drive : span'[e] = 0 <=> overlay'[e] = None
    BY <1>o, <1>4, Sizes DEF JInv, TypeOK
  <2> QED BY <1>5, <2>1, <2>2, <2>3, <2>4 DEF JInv, TypeOK, OverlayOf
<1>7. Unanswered' /\ Backed' /\ Flagged'
  BY <1>o, <1>3, <1>5 DEF JInv, TypeOK, Unanswered, Backed, Flagged, At
<1>8. Headed'
  <2> SUFFICES ASSUME NEW e \in Drive, overlay'[e] # None PROVE store[overlay'[e]].src # None
    BY <1>5 DEF Headed, HeaderDue, At
  <2>1. Source(i) # None BY SourceIsSome DEF JInv
  <2> QED BY <2>1, <1>o, <1>3, <1>5 DEF JInv, TypeOK, Headed, HeaderDue, At
<1>9. Sourced' BY <1>5 DEF JInv, Sourced
<1>10. Spanned'
  <2> SUFFICES ASSUME NEW e \in Drive, NEW j \in Alone, <<e, j>> \in Loads, overlay'[e] # None
               PROVE  span'[e] = Blocks[j]
    BY DEF Spanned, Alone
  <2>1. CASE overlay[e] # None BY <2>1, <1>o, <1>4 DEF JInv, TypeOK, Spanned
  <2>2. CASE overlay[e] = None
    <3>1. e = d /\ o # None BY <2>2, <1>o DEF JInv, TypeOK
    <3>2. i = j BY <3>1, <1>5, OneImage
    <3> QED BY <2>2, <3>1, <3>2, <1>o DEF JInv, TypeOK
  <2> QED BY <2>1, <2>2
<1> QED BY <1>1, <1>6, <1>7, <1>8, <1>9, <1>10 DEF JInv

LEMMA EjectKeeps ==
    ASSUME JInv, NEW d \in Drive, Eject(d)
    PROVE  JInv'
<1> USE DEF Eject, Idle
<1>1. IInv' BY EjectHolds DEF JInv
<1>2. TypeOK'
  <2>1. file' \in [Drive -> Image \union {None}] BY DEF JInv, TypeOK
  <2> QED BY <2>1 DEF JInv, TypeOK, OverlayOf
<1>3. Unanswered' /\ Backed' /\ Flagged'
  BY DEF JInv, Unanswered, Backed, Flagged, At
<1>4. Headed' BY DEF JInv, Headed, HeaderDue, At
<1>5. Sourced' /\ Spanned' BY DEF JInv, Sourced, Spanned, Alone
<1> QED BY <1>1, <1>2, <1>3, <1>4, <1>5 DEF JInv

LEMMA WriteKeeps ==
    ASSUME JInv, Idle, NEW d \in Drive, NEW b \in Asked(d), NEW v \in Written,
           WriteBlock(d, b, v)
    PROVE  JInv'
<1>1. CASE Halt BY <1>1, HaltKeeps
<1>2. CASE Refuse /\ UNCHANGED <<on, original, store, file, overlay, span, busy>>
  BY <1>2, AnswerKeeps DEF Refuse, Idle
<1>3. CASE /\ InRange(d, b)
           /\ overlay[d] # None \/ file[d] \in Overlaid
           /\ busy' = [drive |-> d, block |-> b, value |-> v,
                       stage |-> IF overlay[d] = None THEN "open" ELSE "flag"]
           /\ answer' = NoAnswer
           /\ UNCHANGED <<on, original, store, file, overlay, span>>
  <2>1. IInv' BY WriteHolds DEF JInv
  <2>2. busy' \in RequestFor(file[d]) /\ file'[busy'.drive] = file[d] /\ file[d] \in Image
    <3>1. file[d] \in Image BY <1>3 DEF InRange, JInv, TypeOK
    <3>2. b \in 0..Blocks[file[d]] - 1 BY <1>3, <3>1, Sizes DEF InRange, Asked
    <3> QED BY <1>3, <3>1, <3>2 DEF RequestFor, Stage
  <2>3. TypeOK' BY <1>3, <2>2 DEF JInv, TypeOK, OverlayOf
  <2>4. Unanswered' BY <1>3 DEF Unanswered
  <2>5. ~At("header") /\ ~At("header")' /\ ~At("copy")' BY <1>3 DEF At, Idle
  <2>6. Backed' BY <1>3 DEF JInv, Backed, At, Idle
  <2>7. Headed' /\ Flagged' BY <1>3, <2>5 DEF JInv, Headed, HeaderDue, Flagged
  <2>8. Sourced' BY <1>3 DEF JInv, Sourced
  <2>9. Spanned' BY <1>3 DEF JInv, Spanned, Alone
  <2> QED BY <2>1, <2>3, <2>4, <2>6, <2>7, <2>8, <2>9 DEF JInv
<1> QED BY <1>1, <1>2, <1>3 DEF WriteBlock

\* The writes under way have an image, a block and a value.
LEMMA Busy ==
    ASSUME JInv, busy # None
    PROVE  /\ busy.drive \in Drive /\ file[busy.drive] \in Image
           /\ <<busy.drive, file[busy.drive]>> \in Loads
           /\ busy.block \in 0..Blocks[file[busy.drive]] - 1
           /\ busy.value \in Written /\ busy.value \in Value
           /\ busy.stage \in Stage
           /\ busy = [drive |-> busy.drive, block |-> busy.block,
                      value |-> busy.value, stage |-> busy.stage]
           /\ busy.stage = "open" <=> overlay[busy.drive] = None
           /\ answer = NoAnswer
<1>1. PICK i \in Image : busy \in RequestFor(i) /\ file[busy.drive] = i
  BY DEF JInv, TypeOK
<1>2. busy.drive \in Drive /\ file[busy.drive] # None BY <1>1, NoneIsNothing DEF RequestFor
<1>3. <<busy.drive, file[busy.drive]>> \in Loads BY <1>2 DEF JInv, IInv, Placed
<1>4. busy.value \in Value BY <1>1, DataAssumption DEF RequestFor
<1>5. (busy.stage = "open" <=> overlay[busy.drive] = None) /\ answer = NoAnswer
  BY DEF JInv, IInv, Working, Unanswered
<1> QED BY <1>1, <1>3, <1>4, <1>5 DEF RequestFor

LEMMA OpenKeeps == ASSUME JInv, OpenOverlay PROVE JInv'
<1> DEFINE d == busy.drive
           i == file[d]
<1>0. on /\ busy # None /\ busy.stage = "open" BY DEF OpenOverlay, At
<1>1. /\ d \in Drive /\ i \in Image /\ <<d, i>> \in Loads
      /\ overlay[d] = None /\ answer = NoAnswer
  BY <1>0, Busy
<1>2. i \in Overlaid BY <1>0 DEF JInv, Backed, At
<1>3. PICK p \in {d, Stem[i]} :
        /\ store' = [store EXCEPT ![p] = Blank(Blocks[i])]
        /\ overlay' = [overlay EXCEPT ![d] = p]
        /\ span' = [span EXCEPT ![d] = Blocks[i]]
  BY DEF OpenOverlay
<1>4. /\ UNCHANGED <<on, original, file, answer>>
      /\ busy' = [busy EXCEPT !.stage = "header"]
  BY DEF OpenOverlay
<1>5. p \in Own(d) /\ p \in Place /\ p # None
  BY <1>1, NoneIsNothing DEF Own, Place, Stems
<1>6. /\ busy' \in RequestFor(i) /\ busy' # None
      /\ busy'.drive = d /\ busy'.stage = "header"
  <2>1. busy \in RequestFor(i) BY <1>0 DEF JInv, TypeOK
  <2>2. busy'.drive = d /\ busy'.stage = "header" /\ busy' \in RequestFor(i)
    BY <2>1, <1>4 DEF RequestFor, Stage
  <2>3. RequestFor(i) \subseteq Request
    BY <1>1, DataAssumption, Sizes DEF RequestFor, Request
  <2> QED BY <2>2, <2>3, NoneIsNothing
<1> HIDE DEF d, i
<1>7. IInv' BY OpenHolds DEF JInv
<1>8. /\ store'[p] = Blank(Blocks[i]) /\ store'[p] \in OverlayOf(i) /\ store'[p].src = None
      /\ \A q \in Place : q # p => store'[q] = store[q]
      /\ DOMAIN store' = Place
      /\ overlay'[d] = p /\ \A e \in Drive : e # d => overlay'[e] = overlay[e]
  BY <1>1, <1>3, <1>5, BlankFits DEF JInv, TypeOK
<1>9. TypeOK'
  <2>1. /\ overlay' \in [Drive -> Place \union {None}]
        /\ span' \in [Drive -> {0} \union {Blocks[j] : j \in Image}]
        /\ \A e \in Drive : span'[e] = 0 <=> overlay'[e] = None
    BY <1>1, <1>3, <1>5, Sizes DEF JInv, TypeOK
  <2>2. \A q \in Place : store'[q] = NoStore \/ \E j \in Image : store'[q] \in OverlayOf(j)
    BY <1>1, <1>8 DEF JInv, TypeOK
  <2>3. \E j \in Image : busy' \in RequestFor(j) /\ file'[busy'.drive] = j
    BY <1>1, <1>4, <1>6 DEF i
  <2> QED BY <1>4, <1>8, <2>1, <2>2, <2>3 DEF JInv, TypeOK, OverlayOf, RequestFor
<1>10. Unanswered' BY <1>1, <1>4 DEF Unanswered
<1>11. Backed' /\ Flagged'
  BY <1>1, <1>2, <1>6, <1>8 DEF JInv, Backed, Flagged, At
<1>12. Headed'
  <2> SUFFICES ASSUME NEW e \in Drive, overlay'[e] # None
               PROVE  IF HeaderDue(e)' THEN /\ store'[overlay'[e]] = Blank(Blocks[file'[busy'.drive]])
                                            /\ overlay'[e] \in {busy'.drive, Stem[file'[busy'.drive]]}
                                       ELSE store'[overlay'[e]].src # None
    BY DEF Headed, Blank, Size, DataStart, Words
  <2>1. CASE overlay'[e] = p
    <3>1. HeaderDue(e)' BY <2>1, <1>0, <1>4, <1>6, <1>8 DEF HeaderDue, At
    <3> QED BY <2>1, <3>1, <1>4, <1>6, <1>8 DEF i
  <2>2. CASE overlay'[e] # p
    <3>1. overlay'[e] = overlay[e] /\ overlay[e] \in Place /\ overlay[e] # p
      BY <2>2, <1>8 DEF JInv, TypeOK
    <3>2. ~HeaderDue(e) /\ ~HeaderDue(e)' BY <2>2, <1>0, <1>6, <1>8 DEF HeaderDue, At
    <3> QED BY <3>1, <3>2, <1>8 DEF JInv, Headed
  <2> QED BY <2>1, <2>2
<1>13. Sourced' BY <1>8 DEF JInv, Sourced
<1>14. Spanned'
  <2> SUFFICES ASSUME NEW e \in Drive, NEW j \in Alone, <<e, j>> \in Loads, overlay'[e] # None
               PROVE  span'[e] = Blocks[j]
    BY DEF Spanned, Alone
  <2>1. CASE e = d
    <3>1. j = i BY <2>1, <1>1, OneImage
    <3> QED BY <2>1, <3>1, <1>1, <1>3 DEF JInv, TypeOK
  <2>2. CASE e # d BY <2>2, <1>3, <1>8 DEF JInv, TypeOK, Spanned
  <2> QED BY <2>1, <2>2
<1> QED BY <1>7, <1>9, <1>10, <1>11, <1>12, <1>13, <1>14 DEF JInv

LEMMA HeaderKeeps == ASSUME JInv, WriteHeader PROVE JInv'
<1> DEFINE d == busy.drive
           i == file[d]
           p == overlay[d]
<1>0. on /\ busy # None /\ busy.stage = "header" BY DEF WriteHeader, At
<1>1. /\ d \in Drive /\ i \in Image /\ <<d, i>> \in Loads
      /\ p # None /\ answer = NoAnswer
  BY <1>0, Busy
<1>2. HeaderDue(d) BY <1>0 DEF HeaderDue, At
<1>3. store[p] = Blank(Blocks[i]) BY <1>1, <1>2 DEF JInv, Headed
<1>4. p \in Place /\ p \in Own(d) BY <1>1 DEF JInv, TypeOK, IInv, Placed
<1>5. /\ UNCHANGED <<on, original, file, overlay, span, answer>>
      /\ busy' = [busy EXCEPT !.stage = "flag"]
      /\ store' = [store EXCEPT ![p].src = Source(i)]
  BY DEF WriteHeader
<1>6. /\ busy' \in RequestFor(i) /\ busy' # None
      /\ busy'.drive = d /\ busy'.stage = "flag"
  <2>1. busy \in RequestFor(i) BY <1>0 DEF JInv, TypeOK
  <2>2. busy'.drive = d /\ busy'.stage = "flag" /\ busy' \in RequestFor(i)
    BY <2>1, <1>5 DEF RequestFor, Stage
  <2>3. RequestFor(i) \subseteq Request
    BY <1>1, DataAssumption, Sizes DEF RequestFor, Request
  <2> QED BY <2>2, <2>3, NoneIsNothing
<1>7. IInv' BY HeaderHolds DEF JInv
<1> HIDE DEF d, i, p
<1>8. /\ store'[p] \in OverlayOf(i) /\ store'[p].src = Source(i) /\ store'[p].src # None
      /\ store'[p].src[1] = i
      /\ store'[p].bits = store[p].bits
      /\ \A q \in Place : q # p => store'[q] = store[q]
      /\ DOMAIN store' = Place
  <2>1. store[p] \in OverlayOf(i) BY <1>1, <1>3, BlankFits
  <2>2. Source(i) \in {i} \X Edition[i] /\ Source(i) # None
    BY <1>1, SourceIsSome DEF JInv, TypeOK, Source
  <2>3. store'[p] = [store[p] EXCEPT !.src = Source(i)] BY <1>4, <1>5 DEF JInv, TypeOK
  <2>4. store'[p].src = Source(i) /\ store'[p].bits = store[p].bits
        /\ store'[p] \in OverlayOf(i)
    BY <2>1, <2>2, <2>3 DEF OverlayOf
  <2>5. DOMAIN store' = Place /\ \A q \in Place : q # p => store'[q] = store[q]
    BY <1>4, <1>5 DEF JInv, TypeOK
  <2> QED BY <2>2, <2>4, <2>5 DEF Source
<1>9. TypeOK'
  <2>2. \A q \in Place : store'[q] = NoStore \/ \E j \in Image : store'[q] \in OverlayOf(j)
    BY <1>1, <1>8 DEF JInv, TypeOK
  <2>3. \E j \in Image : busy' \in RequestFor(j) /\ file'[busy'.drive] = j
    BY <1>1, <1>5, <1>6 DEF i
  <2> QED BY <1>5, <1>8, <2>2, <2>3 DEF JInv, TypeOK, OverlayOf, RequestFor
<1>10. Unanswered' BY <1>1, <1>5 DEF Unanswered
<1>11. Backed' /\ Flagged' BY <1>5, <1>6 DEF JInv, Backed, Flagged, At
<1>12. Headed'
  <2>0. \A e \in Drive : ~HeaderDue(e)' BY <1>6 DEF HeaderDue, At
  <2> SUFFICES ASSUME NEW e \in Drive, overlay[e] # None PROVE store'[overlay[e]].src # None
    BY <1>5, <2>0 DEF Headed
  <2>1. CASE overlay[e] = p BY <2>1, <1>8
  <2>2. CASE overlay[e] # p
    <3>1. ~HeaderDue(e) BY <2>2 DEF HeaderDue, d, p
    <3>2. overlay[e] \in Place BY DEF JInv, TypeOK
    <3> QED BY <2>2, <3>1, <3>2, <1>8 DEF JInv, Headed
  <2> QED BY <2>1, <2>2
<1>13. Sourced'
  <2> SUFFICES ASSUME NEW q \in Place, store'[q].src # None
               PROVE  \E x \in Loads : store'[q].src[1] = x[2]
    BY DEF Sourced
  <2>1. CASE q # p BY <2>1, <1>8 DEF JInv, Sourced
  <2>2. CASE q = p
    <3>1. <<d, i>>[2] = i OBVIOUS
    <3> QED BY <2>2, <3>1, <1>1, <1>8
  <2> QED BY <2>1, <2>2
<1>14. Spanned' BY <1>5 DEF JInv, Spanned, Alone
<1> QED BY <1>7, <1>9, <1>10, <1>11, <1>12, <1>13, <1>14 DEF JInv

\* The rest of a write changes the bits of its drive's overlay.
LEMMA BitsKeep ==
    ASSUME JInv, At("flag") \/ At("copy"), IInv', Flagged',
           DOMAIN store' = Place,
           \A q \in Place : /\ q # overlay[busy.drive] => store'[q] = store[q]
                            /\ store'[q].src = store[q].src,
           \A j \in Image : store[overlay[busy.drive]] \in OverlayOf(j)
                            => store'[overlay[busy.drive]] \in OverlayOf(j),
           busy' = None \/ busy' = [busy EXCEPT !.stage = "copy"],
           UNCHANGED <<on, original, file, overlay, span, answer>>
    PROVE  JInv'
<1> DEFINE d == busy.drive
           i == file[d]
           p == overlay[d]
<1>0. on /\ busy # None /\ busy.stage \in {"flag", "copy"} BY DEF At
<1>1. /\ d \in Drive /\ i \in Image /\ p # None /\ answer = NoAnswer
      /\ ~HeaderDue(d)
  BY <1>0, Busy DEF HeaderDue, At
<1>2. p \in Place /\ \E j \in Image : store[p] \in OverlayOf(j)
  BY <1>1, InUse
<1>3. busy' = None \/ (busy' \in RequestFor(i) /\ busy'.drive = d /\ busy'.stage = "copy")
  <2>1. busy \in RequestFor(i) BY <1>0 DEF JInv, TypeOK
  <2> QED BY <2>1 DEF RequestFor, Stage
<1> HIDE DEF d, i, p
<1>4. TypeOK'
  <2>1. \A q \in Place : store'[q] = NoStore \/ \E j \in Image : store'[q] \in OverlayOf(j)
    BY <1>2 DEF JInv, TypeOK, d, p
  <2>2. busy' = None \/ \E j \in Image : busy' \in RequestFor(j) /\ file'[busy'.drive] = j
    BY <1>1, <1>3 DEF i
  <2> QED BY <2>1, <2>2 DEF JInv, TypeOK, OverlayOf, RequestFor
<1>5. Unanswered' BY <1>1 DEF Unanswered
<1>6. Backed' BY <1>3 DEF JInv, Backed, At
<1>7. Headed'
  <2>1. \A e \in Drive : ~HeaderDue(e) /\ ~HeaderDue(e)' BY <1>0, <1>3 DEF HeaderDue, At
  <2> SUFFICES ASSUME NEW e \in Drive, overlay[e] # None PROVE store'[overlay[e]].src # None
    BY <2>1 DEF Headed
  <2>2. overlay[e] \in Place BY DEF JInv, TypeOK
  <2> QED BY <2>1, <2>2 DEF JInv, Headed
<1>8. Sourced' BY DEF JInv, Sourced
<1>9. Spanned' BY DEF JInv, Spanned, Alone
<1> QED BY <1>4, <1>5, <1>6, <1>7, <1>8, <1>9 DEF JInv

\* A write that is past its header goes to an overlay that has one, of the very
\* image when that is alone in its drive.
LEMMA WritesTo ==
    ASSUME JInv, At("flag") \/ At("copy")
    PROVE  LET d == busy.drive
           IN  /\ d \in Drive /\ overlay[d] \in Place /\ overlay[d] # None
               /\ span[d] \in Nat \ {0}
               /\ \E i \in Image : /\ store[overlay[d]] \in OverlayOf(i)
                                   /\ HeaderSize(d) = Blocks[i]
                                   /\ file[d] \in Alone => file[d] = i /\ span[d] = Blocks[i]
<1> DEFINE d == busy.drive
<1>1. busy # None /\ busy.stage \in {"flag", "copy"} BY DEF At
<1>2. /\ d \in Drive /\ overlay[d] # None /\ ~HeaderDue(d) /\ ~InHeader(d)
      /\ <<d, file[d]>> \in Loads
  BY <1>1, Busy DEF HeaderDue, InHeader, At
<1>3. PICK i \in Image : /\ store[overlay[d]] \in OverlayOf(i)
                         /\ store[overlay[d]].src[1] = i
  BY <1>2, InUse
<1>4. HeaderSize(d) = Blocks[i] BY <1>3 DEF HeaderSize
<1>5. file[d] \in Alone => file[d] = i /\ span[d] = Blocks[i]
  BY <1>2, <1>3 DEF JInv, IInv, AllNamed, Named, Spanned, Source
<1>6. overlay[d] \in Place BY <1>2, InUse
<1>7. span[d] \in Nat \ {0} BY <1>2, Sizes DEF JInv, TypeOK
<1> QED BY <1>2, <1>3, <1>4, <1>5, <1>6, <1>7

LEMMA FlagKeeps == ASSUME JInv, SetFlag PROVE JInv'
<1> DEFINE d == busy.drive
           p == overlay[d]
<1>1. At("flag") /\ busy # None BY DEF SetFlag, At
<1>2. PICK i \in Image : /\ store[p] \in OverlayOf(i) /\ HeaderSize(d) = Blocks[i]
                         /\ file[d] \in Alone => file[d] = i
  BY <1>1, WritesTo
<1>3. d \in Drive /\ p \in Place /\ p # None BY <1>1, WritesTo
<1>4. busy.block \in Nat /\ busy.block <= Blocks[file[d]] - 1 /\ file[d] \in Image
  BY <1>1, Busy, Sizes
<1>5. /\ UNCHANGED <<on, original, file, overlay, span, answer>>
      /\ busy' = [busy EXCEPT !.stage = "copy"]
      /\ store' = IF busy.block < HeaderSize(d)
                  THEN [store EXCEPT ![p] = WithFlag(@, busy.block)]
                  ELSE store
  BY DEF SetFlag
<1>6. IInv' BY FlagHolds DEF JInv
<1>7. busy'.drive = d /\ busy'.block = busy.block
  <2>1. PICK j \in Image : busy \in RequestFor(j) BY <1>1 DEF JInv, TypeOK
  <2> QED BY <2>1, <1>5 DEF RequestFor
<1> HIDE DEF d, p
<1>8. /\ DOMAIN store' = Place
      /\ \A q \in Place : /\ q # p => store'[q] = store[q]
                          /\ store'[q].src = store[q].src
      /\ \A j \in Image : store[p] \in OverlayOf(j) => store'[p] \in OverlayOf(j)
  <2>1. CASE store' = store BY <2>1 DEF JInv, TypeOK
  <2>2. CASE store' = [store EXCEPT ![p] = WithFlag(@, busy.block)]
    <3>1. DOMAIN store' = Place /\ store'[p] = WithFlag(store[p], busy.block)
          /\ \A q \in Place : q # p => store'[q] = store[q]
      BY <2>2, <1>3 DEF JInv, TypeOK
    <3>2. store'[p].src = store[p].src BY <3>1, <1>2, <1>4, FlagWrites
    <3>3. \A j \in Image : store[p] \in OverlayOf(j) => store'[p] \in OverlayOf(j)
      BY <3>1, <1>4, FlagWrites
    <3> QED BY <3>1, <3>2, <3>3
  <2> QED BY <1>5, <2>1, <2>2
<1>9. Flagged'
  <2> SUFFICES ASSUME file[d] \in Alone
               PROVE  store'[p].bits[busy.block] = 1
    BY <1>5, <1>7 DEF Flagged, FlagPos, p
  <2>1. file[d] = i BY <1>2
  <2>2. store' = [store EXCEPT ![p] = WithFlag(@, busy.block)]
    BY <2>1, <1>2, <1>4, <1>5, Sizes
  <2>3. busy.block \in DOMAIN store[p].bits
    <3>1. DOMAIN store[p].bits = 0..Size(Blocks[i]) - 1 BY <1>2, <1>4, FlagWrites
    <3>2. Blocks[i] <= Size(Blocks[i]) /\ Size(Blocks[i]) \in Nat BY Sizes, Layout
    <3> QED BY <2>1, <3>1, <3>2, <1>4, Sizes
  <2> QED BY <2>2, <2>3, <1>2, <1>3, <1>4, FlagWrites DEF JInv, TypeOK
<1> QED BY <1>1, <1>5, <1>6, <1>8, <1>9, BitsKeep DEF d, p

LEMMA CopyKeeps == ASSUME JInv, CopyBlock PROVE JInv'
<1> DEFINE d == busy.drive
           p == overlay[d]
<1>1. At("copy") /\ busy # None BY DEF CopyBlock, At
<1>2. CASE Halt BY <1>2, HaltKeeps
<1>3. CASE /\ busy' = None
           /\ store' = [store EXCEPT ![p] = WithBlock(@, span[d], busy.block, busy.value)]
           /\ UNCHANGED <<on, original, file, overlay, span, answer>>
  <2>1. PICK i \in Image : store[p] \in OverlayOf(i)
    BY <1>1, WritesTo
  <2>2. d \in Drive /\ p \in Place /\ p # None BY <1>1, WritesTo
  <2>3. busy.block \in Nat /\ busy.value \in Value /\ span[d] \in Nat \ {0}
    BY <1>1, Busy, Sizes, WritesTo
  <2>4. IInv' BY CopyHolds DEF JInv
  <2>5. Flagged' BY <1>3 DEF Flagged, At
  <2> HIDE DEF d, p
  <2>6. /\ DOMAIN store' = Place
        /\ \A q \in Place : /\ q # p => store'[q] = store[q]
                            /\ store'[q].src = store[q].src
        /\ \A j \in Image : store[p] \in OverlayOf(j) => store'[p] \in OverlayOf(j)
    BY <1>3, <2>1, <2>2, <2>3, BlockWrites DEF JInv, TypeOK
  <2> QED BY <1>1, <1>3, <2>4, <2>5, <2>6, BitsKeep DEF d, p
<1> QED BY <1>2, <1>3 DEF CopyBlock

LEMMA StartKeeps == ASSUME JInv, Start PROVE JInv'
<1> USE DEF Start
<1>1. IInv' BY StartHolds DEF JInv
<1>2. /\ \A d \in Drive : file[d] = None /\ overlay[d] = None
      /\ busy = None
  BY DEF JInv, IInv, Off
<1>3. TypeOK' BY DEF JInv, TypeOK, OverlayOf, RequestFor
<1>4. Unanswered' /\ Backed' /\ Headed' /\ Flagged'
  BY <1>2 DEF Unanswered, Backed, Headed, Flagged, At
<1>5. Sourced' BY DEF JInv, Sourced
<1>6. Spanned' BY <1>2 DEF Spanned
<1> QED BY <1>1, <1>3, <1>4, <1>5, <1>6 DEF JInv

LEMMA ReplaceKeeps == ASSUME JInv, NEW i \in Image, Replace(i) PROVE JInv'
<1> USE DEF Replace
<1>1. IInv' BY ReplaceHolds DEF JInv
<1>2. /\ \A d \in Drive : file[d] = None /\ overlay[d] = None
      /\ busy = None
  BY DEF JInv, IInv, Off
<1>3. original' \in [Image -> Editions] /\ \A j \in Image : original'[j] \in Edition[j]
  BY DEF JInv, TypeOK, Editions
<1>4. TypeOK' BY <1>3 DEF JInv, TypeOK, OverlayOf, RequestFor
<1>5. Unanswered' /\ Backed' /\ Headed' /\ Flagged'
  BY <1>2 DEF Unanswered, Backed, Headed, Flagged, At
<1>6. Sourced' BY DEF JInv, Sourced
<1>7. Spanned' BY <1>2 DEF Spanned
<1> QED BY <1>1, <1>4, <1>5, <1>6, <1>7 DEF JInv

\* What a read answers.
LEMMA ReadFits ==
    ASSUME JInv, Idle, NEW d \in Drive, NEW b \in Asked(d), InRange(d, b)
    PROVE  /\ file[d] \in Image /\ b \in 0..Blocks[file[d]] - 1 /\ b \in BlockNo
           /\ ReadValue(d, b) \in Value \union {None}
<1>1. file[d] \in Image /\ b \in 0..Blocks[file[d]] - 1
  <2>1. file[d] \in Image BY DEF InRange, JInv, TypeOK
  <2> QED BY <2>1, Sizes DEF InRange, Asked
<1>2. b \in BlockNo BY <1>1, Sizes DEF BlockNo
<1>3. Data[file[d]][original[file[d]]][b] \in Value
  BY <1>1, <1>2, DataAssumption DEF JInv, TypeOK
<1>4. CASE overlay[d] = None BY <1>1, <1>2, <1>3, <1>4 DEF ReadValue
<1>5. CASE overlay[d] # None
  <2>1. ~HeaderDue(d) BY DEF HeaderDue, At, Idle
  <2>2. PICK i \in Image : /\ store[overlay[d]] \in OverlayOf(i)
                           /\ store[overlay[d]].src[1] = i
    BY <1>5, <2>1, InUse
  <2>3. BlockOf(store[overlay[d]], span[d], b) \in Value BY <2>2, BlockFits
  <2>4. ReadValue(d, b) = IF b >= Blocks[i] THEN None
                          ELSE IF store[overlay[d]].bits[FlagPos(b)] = 1
                          THEN BlockOf(store[overlay[d]], span[d], b)
                          ELSE Data[file[d]][original[file[d]]][b]
    <3>1. HeaderSize(d) = Blocks[i] BY <2>2 DEF HeaderSize
    <3> QED BY <1>5, <3>1 DEF ReadValue
  <2>5. b \in Int /\ Blocks[i] \in Int BY <1>1, Sizes
  <2>6. CASE b >= Blocks[i] BY <1>1, <1>2, <2>4, <2>5, <2>6
  <2>7. CASE b < Blocks[i] BY <1>1, <1>2, <1>3, <2>3, <2>4, <2>5, <2>7
  <2> QED BY <2>5, <2>6, <2>7
<1> QED BY <1>4, <1>5

LEMMA JStep == ASSUME JInv, [Next]_vars PROVE JInv'
<1>1. CASE UNCHANGED vars
  BY <1>1, AnswerKeeps DEF vars, JInv, TypeOK
<1>2. ASSUME NEW d \in Drive, NEW i \in Image, Load(d, i) PROVE JInv'
  BY <1>2, LoadKeeps
<1>3. ASSUME NEW d \in Drive, Eject(d) PROVE JInv' BY <1>3, EjectKeeps
<1>4. CASE Return
  <2>1. busy = None BY <1>4 DEF Return, JInv, Unanswered
  <2> QED BY <1>4, <2>1, AnswerKeeps DEF Return
<1>5. ASSUME NEW d \in Drive, Idle, NEW b \in Asked(d), ReadBlock(d, b) PROVE JInv'
  <2>1. UNCHANGED <<on, original, store, file, overlay, span, busy>> /\ busy = None
    BY <1>5 DEF ReadBlock, Idle
  <2>2. CASE Refuse BY <2>1, <2>2, AnswerKeeps DEF Refuse
  <2>3. CASE InRange(d, b) /\ answer' = <<<<file[d], b>>, ReadValue(d, b)>>
    <3>1. answer' \in (Image \X BlockNo) \X (Value \union {None})
      BY <1>5, <2>3, ReadFits
    <3> QED BY <2>1, <3>1, AnswerKeeps
  <2> QED BY <1>5, <2>2, <2>3 DEF ReadBlock
<1>6. 1..DriveCount - 1 \subseteq Drive BY DEF Drive, DriveCount
<1>7. ASSUME Idle, Refuse, UNCHANGED <<on, original, store, file, overlay, span, busy>> PROVE JInv'
  BY <1>7, AnswerKeeps DEF Idle, Refuse
<1>8. ASSUME NEW d \in Drive, HdRead(d) PROVE JInv' BY <1>5, <1>8 DEF HdRead
<1>9. ASSUME NEW u \in Unit, SpRead(u) PROVE JInv'
  BY <1>5, <1>6, <1>7, <1>9 DEF SpRead
<1>10. ASSUME NEW d \in Drive, HdWrite(d) PROVE JInv'
  BY <1>10, WriteKeeps DEF HdWrite
<1>11. ASSUME NEW u \in Unit, SpWrite(u) PROVE JInv'
  BY <1>6, <1>7, <1>11, WriteKeeps, HaltKeeps DEF SpWrite
<1>12. CASE OpenOverlay BY <1>12, OpenKeeps
<1>13. CASE WriteHeader BY <1>13, HeaderKeeps
<1>14. CASE SetFlag BY <1>14, FlagKeeps
<1>15. CASE CopyBlock BY <1>15, CopyKeeps
<1>16. CASE Start BY <1>16, StartKeeps
<1>17. CASE Stop BY <1>17, HaltKeeps DEF Stop
<1>18. ASSUME NEW i \in Image, Replace(i) PROVE JInv' BY <1>18, ReplaceKeeps
<1> QED BY <1>1, <1>2, <1>3, <1>4, <1>8, <1>9, <1>10, <1>11, <1>12, <1>13, <1>14,
           <1>15, <1>16, <1>17, <1>18 DEF Next

(* Through every order of calls, failures to open an overlay, kills, loads *)
(* and replacements, for all sizes: a write under way is of a block of the *)
(* image in its drive, an overlay keeps the size of the image its header   *)
(* names, and a read answers a whole block, or nothing.                    *)
THEOREM OverlaysFit == Spec => []TypeOK
<1>1. Spec => []JInv BY JInit, JStep, PTL DEF Spec
<1>2. JInv => TypeOK BY DEF JInv
<1> QED BY <1>1, <1>2, PTL


-----------------------------------------------------------------------------
(* That the card and its overlays implement BlockDevice.  The refinement   *)
(* mapping, each variable under a name:                                    *)

Lasts(k) == HeldAt(Saved(k[1]), k)
Mode(i) == IF Backing(i) \in Drive THEN "memory"
           ELSE IF Backing(i) = None /\ Saved(i) # None THEN "unused"
           ELSE "file"

Content == [k \in Kept |-> Holds(k)]
Lasting == [k \in Kept |-> Lasts(k)]
Base == [k \in Kept |-> Original(k)]
Changes == [i \in {k[1] : k \in Kept} |-> Mode(i)]
Underway == IF busy # None /\ <<file[busy.drive], busy.block>> \in Kept
            THEN <<<<file[busy.drive], busy.block>>, busy.value>> ELSE <<>>
Said == IF answer \in {NoAnswer, Refused} THEN <<>> ELSE answer

\* What is shown, and where from.
Shown == <<Content, Lasting, Base, Changes>>

\* Steps of the device, on these.
LEMMA DeviceStutters ==
    ASSUME UNCHANGED <<on, Shown, Underway, Said>>
    PROVE  UNCHANGED Device!vars
BY DEF Device!vars, Shown, Content, Lasting, Lasts, Base, Changes, Mode, Underway, Said

LEMMA DeviceReads ==
    ASSUME NEW k \in Kept, on, Underway = <<>>, Said' = <<k, Content[k]>>,
           UNCHANGED <<on, Shown, Underway>>
    PROVE  Device!Next
<1>1. Device!Read(k)
  BY DEF Device!Read, Device!Idle, Shown, Content, Lasting, Lasts, Base, Changes, Mode,
         Underway, Said
<1> QED BY <1>1 DEF Device!Next

LEMMA DeviceReadsOther ==
    ASSUME on, Underway = <<>>, Said' = <<>> \/ Said'[1] \notin Kept,
           UNCHANGED <<on, Shown, Underway>>
    PROVE  Device!Next
<1>1. Device!ReadOther
  BY DEF Device!ReadOther, Device!Idle, Shown, Content, Lasting, Lasts, Base, Changes, Mode,
         Underway, Said
<1> QED BY <1>1 DEF Device!Next

LEMMA DeviceBegins ==
    ASSUME NEW k \in Kept, NEW v \in Value, on, Underway = <<>>, Underway' = <<k, v>>,
           Said' = <<>>, UNCHANGED <<on, Shown>>
    PROVE  Device!Next
<1>1. Device!Begin(k, v)
  BY DEF Device!Begin, Device!Idle, Shown, Content, Lasting, Lasts, Base, Changes, Mode,
         Underway, Said
<1> QED BY <1>1 DEF Device!Next

LEMMA DevicePassesOver ==
    ASSUME NEW i \in {k[1] : k \in Kept}, on, Underway = <<>>, Changes[i] = "file",
           Changes' = [Changes EXCEPT ![i] = "unused"],
           Content' = [k \in Kept |-> IF k[1] = i THEN Base[k] ELSE Content[k]],
           UNCHANGED <<on, Lasting, Base, Underway, Said>>
    PROVE  Device!Next
<1>1. Device!PassOver(i)
  BY DEF Device!PassOver, Device!Idle, Device!With, Content, Lasting, Lasts, Base, Changes,
         Mode, Underway, Said
<1> QED BY <1>1 DEF Device!Next, Device!Images

LEMMA DeviceRecalls ==
    ASSUME NEW i \in {k[1] : k \in Kept}, on, Underway = <<>>, Changes[i] = "unused",
           Changes' = [Changes EXCEPT ![i] = "file"],
           Content' = [k \in Kept |-> IF k[1] = i THEN Lasting[k] ELSE Content[k]],
           UNCHANGED <<on, Lasting, Base, Underway, Said>>
    PROVE  Device!Next
<1>1. Device!Recall(i)
  BY DEF Device!Recall, Device!Idle, Device!With, Content, Lasting, Lasts, Base, Changes,
         Mode, Underway, Said
<1> QED BY <1>1 DEF Device!Next, Device!Images

LEMMA DeviceRenews ==
    ASSUME NEW i \in {k[1] : k \in Kept}, on, Changes[i] = "unused",
           Changes' = [Changes EXCEPT ![i] = "file"],
           Lasting' = [k \in Kept |-> IF k[1] = i THEN Base[k] ELSE Lasting[k]],
           UNCHANGED <<on, Content, Base, Underway, Said>>
    PROVE  Device!Next
<1>1. Device!Renew(i)
  BY DEF Device!Renew, Device!With, Content, Lasting, Lasts, Base, Changes, Mode, Underway,
         Said
<1> QED BY <1>1 DEF Device!Next, Device!Images

LEMMA DeviceDegrades ==
    ASSUME NEW i \in {k[1] : k \in Kept}, on, Changes[i] # "memory",
           \A k \in Kept : k[1] = i => Content[k] = Base[k],
           Changes' = [Changes EXCEPT ![i] = "memory"],
           UNCHANGED <<on, Content, Lasting, Base, Underway, Said>>
    PROVE  Device!Next
<1>1. Device!Degrade(i)
  BY DEF Device!Degrade, Content, Lasting, Lasts, Base, Changes, Mode, Underway, Said
<1> QED BY <1>1 DEF Device!Next, Device!Images

\* What the block under way becomes.
Became(k, v) == /\ Content' = [Content EXCEPT ![k] = v]
                /\ Lasting' = IF Changes[k[1]] = "file" THEN [Lasting EXCEPT ![k] = v]
                              ELSE Lasting

LEMMA DeviceTears ==
    ASSUME Underway # <<>>, NEW v \in Value, Became(Underway[1], v),
           UNCHANGED <<on, Base, Changes, Underway, Said>>
    PROVE  Device!Next
<1>1. Device!Tear
  BY DEF Device!Tear, Device!Becomes, Became, Content, Lasting, Lasts, Base, Changes, Mode,
         Underway, Said
<1> QED BY <1>1 DEF Device!Next

LEMMA DeviceEnds ==
    ASSUME Underway # <<>>, Became(Underway[1], Underway[2]), Underway' = <<>>,
           UNCHANGED <<on, Base, Changes, Said>>
    PROVE  Device!Next
<1>1. Device!End
  BY DEF Device!End, Device!Becomes, Became, Content, Lasting, Lasts, Base, Changes, Mode,
         Underway, Said
<1> QED BY <1>1 DEF Device!Next

LEMMA DeviceStarts ==
    ASSUME ~on, on' = TRUE, UNCHANGED <<Shown, Underway, Said>>
    PROVE  Device!Next
<1>1. Device!Start
  BY DEF Device!Start, Shown, Content, Lasting, Lasts, Base, Changes, Mode, Underway, Said
<1> QED BY <1>1 DEF Device!Next

LEMMA DeviceStops ==
    ASSUME on, on' = FALSE, Content' = Lasting,
           Changes' = [i \in {k[1] : k \in Kept} |-> "file"],
           Underway' = <<>>, Said' = <<>>, UNCHANGED <<Lasting, Base>>
    PROVE  Device!Next
<1>1. Device!Stop
  BY DEF Device!Stop, Device!InFiles, Device!Images, Content, Lasting, Lasts, Base, Changes,
         Mode, Underway, Said
<1> QED BY <1>1 DEF Device!Next

LEMMA DeviceReplaces ==
    ASSUME NEW i \in {k[1] : k \in Kept}, ~on,
           Base' \in [Kept -> Value], Content' \in [Kept -> Value], Lasting' = Content',
           \A k \in Kept : k[1] # i => Base'[k] = Base[k] /\ Content'[k] = Content[k],
           UNCHANGED <<on, Changes, Underway, Said>>
    PROVE  Device!Next
<1>1. Device!Replace(i)
  BY DEF Device!Replace, Content, Lasting, Lasts, Base, Changes, Mode, Underway, Said
<1> QED BY <1>1 DEF Device!Next, Device!Images

-----------------------------------------------------------------------------
(* Where the blocks of an image are.                                       *)

\* Seen from the drive an image is loaded in, and from one it is not in.
Where(d, i) == IF overlay[d] # None THEN overlay[d]
               ELSE IF file[d] = i THEN None
               ELSE Saved(i)

LEMMA BackingLoaded ==
    JInv => \A d \in Drive, i \in Alone : <<d, i>> \in Loads => Backing(i) = Where(d, i)
<1> SUFFICES ASSUME JInv, NEW d \in Drive, NEW i \in Alone, <<d, i>> \in Loads
             PROVE  Backing(i) = Where(d, i)
  OBVIOUS
<1> DEFINE mapped == {overlay[e] : e \in {e \in Drive : <<e, i>> \in Loads /\ overlay[e] # None}}
<1>1. \A e \in Drive : <<e, i>> \in Loads => e = d BY OneDrive
<1>2. mapped = IF overlay[d] # None THEN {overlay[d]} ELSE {} BY <1>1
<1>3. \A x : (CHOOSE p \in {x} : TRUE) = x OBVIOUS
<1>4. (\E e \in Drive : file[e] = i) <=> file[d] = i
  <2>1. i # None BY NoneIsNothing DEF Alone
  <2>2. \A e \in Drive : file[e] = i => <<e, i>> \in Loads
    BY <2>1 DEF JInv, IInv, Placed
  <2> QED BY <1>1, <2>2
<1>5. CASE overlay[d] # None BY <1>2, <1>3, <1>5 DEF Backing, Where
<1>6. CASE overlay[d] = None
  <2>1. mapped = {} BY <1>2, <1>6
  <2> QED BY <2>1, <1>4, <1>6 DEF Backing, Where
<1> QED BY <1>5, <1>6

\* The same after a step.
LEMMA BackingLoadedNext ==
    JInv' => \A d \in Drive, i \in Alone : <<d, i>> \in Loads => Backing(i)' = Where(d, i)'
<1>1. (JInv => \A d \in Drive, i \in Alone : <<d, i>> \in Loads => Backing(i) = Where(d, i))'
  BY BackingLoaded, PTL
<1> QED BY <1>1 DEF Alone

\* An image that is in no drive's list has no changes.
LEMMA Unloaded ==
    JInv => \A i \in Image : (\A d \in Drive : <<d, i>> \notin Loads)
                             => Saved(i) = None /\ Backing(i) = None
<1> SUFFICES ASSUME JInv, NEW i \in Image, \A d \in Drive : <<d, i>> \notin Loads
             PROVE  Saved(i) = None /\ Backing(i) = None
  OBVIOUS
<1> DEFINE mapped == {overlay[e] : e \in {e \in Drive : <<e, i>> \in Loads /\ overlay[e] # None}}
<1>1. Source(i) # None /\ Source(i)[1] = i BY SourceIsSome DEF JInv, Source
<1>2. ASSUME Saved(i) # None PROVE FALSE
  <2>1. Stem[i] \in Place /\ store[Stem[i]].src = Source(i) BY <1>2, SavedIs
  <2>2. PICK x \in Loads : i = x[2] BY <1>1, <2>1 DEF JInv, Sourced
  <2>3. x \in Drive \X Image BY LoadsAssumption
  <2> QED BY <2>2, <2>3
<1>3. mapped = {} OBVIOUS
<1> QED BY <1>2, <1>3 DEF Backing

LEMMA UnloadedNext ==
    JInv' => \A i \in Image : (\A d \in Drive : <<d, i>> \notin Loads)
                              => Saved(i)' = None /\ Backing(i)' = None
<1>1. (JInv => \A i \in Image : (\A d \in Drive : <<d, i>> \notin Loads)
                                => Saved(i) = None /\ Backing(i) = None)'
  BY Unloaded, PTL
<1> QED BY <1>1

\* The file an image would be loaded with is an overlay made for it.
LEMMA SavedFits ==
    JInv => \A i \in Image : Saved(i) # None =>
                Saved(i) \in Place /\ store[Saved(i)] \in OverlayOf(i) /\ i \in Overlaid
<1> SUFFICES ASSUME JInv, NEW i \in Image, Saved(i) # None
             PROVE  Saved(i) \in Place /\ store[Saved(i)] \in OverlayOf(i) /\ i \in Overlaid
  OBVIOUS
<1>1. Saved(i) \in Place /\ i \in Overlaid /\ store[Saved(i)].src = Source(i) BY SavedIs
<1>2. Source(i) # None /\ Source(i)[1] = i BY SourceIsSome DEF JInv, Source
<1> QED BY <1>1, <1>2, HeaderFits DEF JInv

\* So is what backs it, when it has its overlay to itself.
LEMMA BackingFits ==
    JInv => \A i \in Alone : Backing(i) # None =>
                /\ Backing(i) \in Place /\ store[Backing(i)] \in OverlayOf(i)
                /\ i \in Overlaid
<1> SUFFICES ASSUME JInv, NEW i \in Alone, Backing(i) # None
             PROVE  /\ Backing(i) \in Place /\ store[Backing(i)] \in OverlayOf(i)
                    /\ i \in Overlaid
  OBVIOUS
<1>0. i \in Image BY DEF Alone
<1>1. PICK d \in Drive : <<d, i>> \in Loads BY <1>0, Unloaded
<1>2. Backing(i) = Where(d, i) BY <1>1, BackingLoaded
<1>3. CASE overlay[d] = None BY <1>0, <1>2, <1>3, SavedFits DEF Where
<1>4. CASE overlay[d] # None
  <2>1. overlay[d] \in Place BY <1>4 DEF JInv, TypeOK
  <2>2. i \in Overlaid
    <3>1. PICK j \in Overlaid : <<d, j>> \in Loads BY <1>4 DEF JInv, Backed
    <3> QED BY <1>1, <3>1, OneImage
  <2>3. CASE InHeader(d)
    <3>1. file[d] = i /\ HeaderDue(d)
      BY <1>1, <2>3, Busy, OneImage DEF InHeader, HeaderDue, At
    <3>2. store[overlay[d]] = Blank(Blocks[i])
      BY <1>4, <2>3, <3>1 DEF JInv, Headed, InHeader
    <3> QED BY <1>0, <1>2, <1>4, <2>1, <2>2, <3>2, BlankFits DEF Where
  <2>4. CASE ~InHeader(d)
    <3>1. store[overlay[d]].src = Source(i)
      BY <1>1, <1>4, <2>4 DEF JInv, IInv, AllNamed, Named
    <3>2. Source(i) # None /\ Source(i)[1] = i BY <1>0, SourceIsSome DEF JInv, Source
    <3>3. store[overlay[d]] \in OverlayOf(i) BY <2>1, <3>1, <3>2, HeaderFits DEF JInv
    <3> QED BY <1>2, <1>4, <2>1, <2>2, <3>3 DEF Where
  <2> QED BY <2>3, <2>4
<1> QED BY <1>3, <1>4

\* The blocks that are kept.
LEMMA KeptBlocks ==
    ASSUME NEW k \in Kept
    PROVE  /\ k = <<k[1], k[2]>> /\ k[1] \in Alone /\ k[1] \in Image
           /\ k[2] \in 0..Blocks[k[1]] - 1
           /\ k[1] \in Overlaid => k[2] \in Sound(Blocks[k[1]])
BY DEF Kept, Alone, Sound

LEMMA HoldsFits ==
    JInv => \A k \in Kept : Holds(k) \in Value /\ Lasts(k) \in Value /\ Original(k) \in Value
<1> SUFFICES ASSUME JInv, NEW k \in Kept
             PROVE  Holds(k) \in Value /\ Lasts(k) \in Value /\ Original(k) \in Value
  OBVIOUS
<1> DEFINE i == k[1]
           b == k[2]
<1>1. i \in Alone /\ i \in Image /\ b \in 0..Blocks[i] - 1 BY KeptBlocks
<1>2. b \in BlockNo /\ b \in Nat /\ b < Blocks[i] BY <1>1, Sizes DEF BlockNo
<1>3. Original(k) \in Value
  BY <1>1, <1>2, DataAssumption DEF JInv, TypeOK, Original
<1>4. \A p \in Place : store[p] \in OverlayOf(i) => HeldAt(p, k) \in Value
  BY <1>1, <1>3, BlockFits DEF HeldAt
<1>5. HeldAt(None, k) \in Value BY <1>3 DEF HeldAt
<1> HIDE DEF i, b
<1>6. Holds(k) \in Value BY <1>1, <1>4, <1>5, BackingFits DEF Holds, i
<1>7. Lasts(k) \in Value BY <1>1, <1>4, <1>5, SavedFits DEF Lasts, i
<1> QED BY <1>3, <1>6, <1>7

LEMMA HoldsFitsNext ==
    JInv' => \A k \in Kept : /\ Holds(k)' \in Value /\ Lasts(k)' \in Value
                             /\ Original(k)' \in Value
<1>1. (JInv => \A k \in Kept : Holds(k) \in Value /\ Lasts(k) \in Value /\ Original(k) \in Value)'
  BY HoldsFits, PTL
<1> QED BY <1>1

\* A block is the same in a place that is as it was.
LEMMA HeldSame ==
    ASSUME NEW k \in Kept, UNCHANGED original, NEW p, p # None => store'[p] = store[p]
    PROVE  HeldAt(p, k)' = HeldAt(p, k)
BY DEF HeldAt, Original, BlockOf, FlagPos, DataPos, DataStart, Words

\* What an image's file will show is the same when that is as it was.
LEMMA LastsSame ==
    ASSUME NEW k \in Kept, UNCHANGED original, Saved(k[1])' = Saved(k[1]),
           Saved(k[1]) # None => store'[Saved(k[1])] = store[Saved(k[1])]
    PROVE  Lasts(k)' = Lasts(k)
<1> DEFINE q == Saved(k[1])
<1>1. HeldAt(q, k)' = HeldAt(q, k)
  BY DEF HeldAt, Original, BlockOf, FlagPos, DataPos, DataStart, Words
<1> QED BY <1>1 DEF Lasts

\* An image whose places are the same and as they were.
LEMMA ImageSame ==
    ASSUME NEW k \in Kept, UNCHANGED original,
           Backing(k[1])' = Backing(k[1]), Saved(k[1])' = Saved(k[1]),
           Backing(k[1]) # None => store'[Backing(k[1])] = store[Backing(k[1])],
           Saved(k[1]) # None => store'[Saved(k[1])] = store[Saved(k[1])]
    PROVE  UNCHANGED <<Holds(k), Lasts(k), Mode(k[1])>>
<1> DEFINE p == Backing(k[1])
           q == Saved(k[1])
<1>1. HeldAt(p, k)' = HeldAt(p, k)
  BY DEF HeldAt, Original, BlockOf, FlagPos, DataPos, DataStart, Words
<1>2. HeldAt(q, k)' = HeldAt(q, k)
  BY DEF HeldAt, Original, BlockOf, FlagPos, DataPos, DataStart, Words
<1> QED BY <1>1, <1>2 DEF Holds, Lasts, Mode

\* A drive's overlay is in a place of its own.
LEMMA PlacedIn ==
    JInv => \A e \in Drive : overlay[e] # None => overlay[e] \in Own(e) /\ overlay[e] \in Place
<1> SUFFICES ASSUME JInv, NEW e \in Drive, overlay[e] # None
             PROVE  overlay[e] \in Own(e) /\ overlay[e] \in Place
  OBVIOUS
<1>1. overlay[e] \in Own(e) BY DEF JInv, IInv, Placed
<1>2. overlay[e] \in Place BY DEF JInv, TypeOK
<1> QED BY <1>1, <1>2

\* A drive's step is nothing to the images of the other.
LEMMA OthersHold ==
    ASSUME JInv, JInv', NEW d \in Drive, UNCHANGED original,
           \A e \in Drive : e # d => overlay'[e] = overlay[e] /\ file'[e] = file[e],
           \A p \in Place : p \notin Own(d) => store'[p] = store[p],
           NEW k \in Kept, <<d, k[1]>> \notin Loads
    PROVE  UNCHANGED <<Holds(k), Lasts(k), Mode(k[1])>>
<1> DEFINE i == k[1]
<1>1. i \in Image /\ i \in Alone BY KeptBlocks
<1>2. CASE \A e \in Drive : <<e, i>> \notin Loads
  <2>1. /\ Backing(i) = None /\ Backing(i)' = None
        /\ Saved(i) = None /\ Saved(i)' = None
    BY <1>1, <1>2, Unloaded, UnloadedNext
  <2> QED BY <2>1, ImageSame
<1>3. ASSUME NEW e \in Drive, <<e, i>> \in Loads
      PROVE  UNCHANGED <<Holds(k), Lasts(k), Mode(i)>>
  <2>1. e # d BY <1>3
  <2>2. Own(e) \cap Own(d) = {} BY <1>1, <1>3, <2>1, DrivesApart
  <2>3. Stem[i] \in Own(e) /\ Stem[i] \in Place BY <1>1, <1>3 DEF Own, Place, Stems
  <2>4. overlay[e] # None => overlay[e] \in Own(e) /\ overlay[e] \in Place
    BY PlacedIn
  <2>5. store'[Stem[i]] = store[Stem[i]] /\ overlay'[e] = overlay[e] /\ file'[e] = file[e]
    BY <2>1, <2>2, <2>3
  <2>6. Saved(i)' = Saved(i) /\ Saved(i) \in {Stem[i], None} BY <2>5 DEF Saved, Source
  <2>7. Where(e, i)' = Where(e, i) BY <2>5, <2>6 DEF Where
  <2>8. Backing(i)' = Backing(i) /\ Backing(i) = Where(e, i)
    BY <1>1, <1>3, <2>7, BackingLoaded, BackingLoadedNext
  <2>9. Saved(i) # None => store'[Saved(i)] = store[Saved(i)] BY <2>5, <2>6
  <2>10. Backing(i) # None => store'[Backing(i)] = store[Backing(i)]
    BY <2>2, <2>4, <2>8, <2>9 DEF Where
  <2> QED BY <2>6, <2>8, <2>9, <2>10, ImageSame
<1> QED BY <1>2, <1>3

\* What is shown, block by block.
LEMMA ShownSame ==
    ASSUME UNCHANGED original,
           \A k \in Kept : UNCHANGED <<Holds(k), Lasts(k), Mode(k[1])>>
    PROVE  UNCHANGED Shown
<1>1. Content' = Content BY DEF Content
<1>2. Lasting' = Lasting BY DEF Lasting
<1>3. Base' = Base BY DEF Base, Original
<1>4. Changes' = Changes BY DEF Changes
<1> QED BY <1>1, <1>2, <1>3, <1>4 DEF Shown

LEMMA BaseSame ==
    ASSUME UNCHANGED original
    PROVE  Base' = Base
BY DEF Base, Original

\* Calls that leave drives and overlays alone.
LEMMA QuietMaps ==
    ASSUME UNCHANGED <<original, store, file, overlay>>
    PROVE  UNCHANGED Shown
BY DEF Shown, Content, Lasting, Lasts, Base, Changes, Mode, Holds, HeldAt, Original, Backing,
       Saved, Source, BlockOf, FlagPos, DataPos, DataStart, Words

LEMMA NoUnderway == busy = None => Underway = <<>>
BY DEF Underway

\* One image of a drive: what it holds when none of its places changes.
LEMMA OfImage ==
    ASSUME NEW k \in Kept, NEW i, k[1] = i
    PROVE  /\ Content[k] = HeldAt(Backing(i), k) /\ Lasting[k] = HeldAt(Saved(i), k)
           /\ Base[k] = Original(k) /\ Changes[i] = Mode(i)
BY DEF Content, Lasting, Lasts, Base, Changes, Holds

LEMMA ReturnMaps == ASSUME JInv, Return PROVE Device!Next
<1>1. UNCHANGED Shown BY QuietMaps DEF Return
<1>2. busy = None BY DEF Return, JInv, Unanswered
<1>3. UNCHANGED <<on, Underway>> /\ on /\ Underway = <<>>
  BY <1>2, NoUnderway DEF Return, Underway
<1>4. Said' = <<>> BY DEF Return, Said
<1> QED BY <1>1, <1>3, <1>4, DeviceReadsOther

LEMMA RefuseMaps ==
    ASSUME Idle, Refuse, UNCHANGED <<on, original, store, file, overlay, span, busy>>
    PROVE  Device!Next
<1>1. UNCHANGED Shown BY QuietMaps
<1>2. UNCHANGED <<on, Underway>> /\ on /\ Underway = <<>>
  BY NoUnderway DEF Idle, Underway
<1>3. Said' = <<>> BY DEF Refuse, Said
<1> QED BY <1>1, <1>2, <1>3, DeviceReadsOther

\* A read of a kept block answers what the block holds.
LEMMA ReadIsHeld ==
    ASSUME JInv, Idle, NEW d \in Drive, NEW b \in Asked(d), InRange(d, b),
           <<file[d], b>> \in Kept
    PROVE  ReadValue(d, b) = Holds(<<file[d], b>>)
<1> DEFINE i == file[d]
           k == <<i, b>>
<1>1. i \in Alone /\ i \in Image /\ b \in 0..Blocks[i] - 1 BY KeptBlocks
<1>2. i # None BY <1>1, NoneIsNothing
<1>3. <<d, i>> \in Loads BY <1>2 DEF JInv, IInv, Placed
<1>4. Backing(i) = Where(d, i) BY <1>1, <1>3, BackingLoaded
<1>5. ~InHeader(d) BY DEF InHeader, At, Idle
<1>6. CASE overlay[d] = None
  <2>1. Backing(i) = None BY <1>4, <1>6 DEF Where
  <2> QED BY <1>6, <2>1 DEF ReadValue, Holds, HeldAt, Original
<1>7. CASE overlay[d] # None
  <2>1. Backing(i) = overlay[d] /\ store[overlay[d]].src = Source(i)
    BY <1>1, <1>3, <1>4, <1>5, <1>7 DEF Where, JInv, IInv, AllNamed, Named
  <2>2. HeaderSize(d) = Blocks[i] BY <2>1 DEF Source, HeaderSize
  <2>3. ~(b >= Blocks[i]) BY <1>1, Sizes
  <2>4. span[d] = Blocks[i] BY <1>1, <1>3, <1>7 DEF JInv, Spanned
  <2> QED BY <1>7, <2>1, <2>2, <2>3, <2>4 DEF ReadValue, Holds, HeldAt, Original
<1> QED BY <1>6, <1>7

LEMMA ReadMaps ==
    ASSUME JInv, Idle, NEW d \in Drive, NEW b \in Asked(d), ReadBlock(d, b)
    PROVE  Device!Next
<1>1. CASE Refuse BY <1>1, RefuseMaps DEF ReadBlock
<1>2. CASE InRange(d, b) /\ answer' = <<<<file[d], b>>, ReadValue(d, b)>>
  <2>1. UNCHANGED Shown BY QuietMaps DEF ReadBlock
  <2>2. UNCHANGED <<on, Underway>> /\ on /\ Underway = <<>>
    BY NoUnderway DEF ReadBlock, Idle, Underway
  <2>3. Said' = <<<<file[d], b>>, ReadValue(d, b)>> BY <1>2 DEF Said, NoAnswer, Refused
  <2>4. CASE <<file[d], b>> \in Kept
    <3>1. ReadValue(d, b) = Content[<<file[d], b>>]
      BY <1>2, <2>4, ReadIsHeld DEF Content
    <3> QED BY <2>1, <2>2, <2>3, <2>4, <3>1, DeviceReads
  <2>5. CASE <<file[d], b>> \notin Kept
    BY <2>1, <2>2, <2>3, <2>5, DeviceReadsOther
  <2> QED BY <2>4, <2>5
<1> QED BY <1>1, <1>2 DEF ReadBlock

\* A step that changes one image's places, and no store.
LEMMA OneMoves ==
    ASSUME JInv, JInv', NEW d \in Drive, NEW i \in Image, <<d, i>> \in Loads,
           UNCHANGED <<original, store>>,
           \A e \in Drive : e # d => overlay'[e] = overlay[e] /\ file'[e] = file[e],
           i \in Alone => \/ Where(d, i)' = Where(d, i)
                          \/ /\ Where(d, i) \in {Saved(i), None}
                             /\ Where(d, i)' \in {Saved(i), None},
           on, Underway = <<>>, UNCHANGED <<on, Underway, Said>>
    PROVE  Device!Next \/ UNCHANGED Device!vars
<1>1. \A k \in Kept : k[1] # i => UNCHANGED <<Holds(k), Lasts(k), Mode(k[1])>>
  <2> SUFFICES ASSUME NEW k \in Kept, k[1] # i
               PROVE  UNCHANGED <<Holds(k), Lasts(k), Mode(k[1])>>
    OBVIOUS
  <2>1. CASE <<d, k[1]>> \notin Loads BY <2>1, OthersHold
  <2>2. CASE <<d, k[1]>> \in Loads
    <3>1. k[1] = i BY <2>2, KeptBlocks, OneImage
    <3> QED BY <3>1
  <2> QED BY <2>1, <2>2
<1>2. Saved(i)' = Saved(i) BY DEF Saved, Source
<1>3. CASE i \notin {k[1] : k \in Kept}
  <2>1. UNCHANGED Shown BY <1>1, <1>3, ShownSame
  <2> QED BY <2>1, DeviceStutters
<1>4. CASE i \in {k[1] : k \in Kept}
  <2>0. i \in Alone BY <1>4, KeptBlocks
  <2>1. Backing(i) = Where(d, i) /\ Backing(i)' = Where(d, i)'
    BY <2>0, BackingLoaded, BackingLoadedNext
  <2>2. Saved(i) \notin Drive /\ None \notin Drive
    BY SavedIs, DataAssumption, NoneIsNothing DEF Stems, Place
  <2>3. \A k \in Kept : /\ HeldAt(Saved(i), k)' = HeldAt(Saved(i), k)
                        /\ HeldAt(None, k)' = HeldAt(None, k) /\ HeldAt(None, k) = Original(k)
    BY <1>2 DEF HeldAt, Original, BlockOf, FlagPos, DataPos, DataStart, Words
  <2>4. Base' = Base BY BaseSame
  <2>5. \A k \in Kept : Lasts(k)' = Lasts(k) BY <1>1, <1>2, <2>3 DEF Lasts
  <2>6. Lasting' = Lasting BY <2>5 DEF Lasting
  <2>7. CASE Backing(i)' = Backing(i)
    <3>1. \A k \in Kept : k[1] = i => UNCHANGED <<Holds(k), Lasts(k), Mode(k[1])>>
      BY <1>2, <2>7, ImageSame
    <3>2. UNCHANGED Shown BY <1>1, <3>1, ShownSame
    <3> QED BY <3>2, DeviceStutters
  <2>8. CASE Saved(i) # None /\ Backing(i) = Saved(i) /\ Backing(i)' = None
    <3>1. Mode(i) = "file" /\ Mode(i)' = "unused" BY <1>2, <2>2, <2>8 DEF Mode
    <3>2. Changes[i] = "file" /\ Changes' = [Changes EXCEPT ![i] = "unused"]
      BY <1>1, <1>4, <3>1 DEF Changes
    <3>3. \A k \in Kept : k[1] = i => Holds(k)' = Original(k) BY <2>3, <2>8 DEF Holds
    <3>4. Content' = [k \in Kept |-> IF k[1] = i THEN Base[k] ELSE Content[k]]
      BY <1>1, <3>3 DEF Content, Base
    <3> QED BY <1>4, <2>4, <2>6, <3>2, <3>4, DevicePassesOver
  <2>9. CASE Saved(i) # None /\ Backing(i) = None /\ Backing(i)' = Saved(i)
    <3>1. Mode(i) = "unused" /\ Mode(i)' = "file" BY <1>2, <2>2, <2>9 DEF Mode
    <3>2. Changes[i] = "unused" /\ Changes' = [Changes EXCEPT ![i] = "file"]
      BY <1>1, <1>4, <3>1 DEF Changes
    <3>3. ASSUME NEW k \in Kept, k[1] = i PROVE Holds(k)' = Lasts(k)
      <4>1. Backing(i)' = Saved(i)' BY <1>2, <2>9
      <4>2. Holds(k)' = HeldAt(Saved(i), k)' BY <3>3, <4>1 DEF Holds
      <4> QED BY <2>3, <3>3, <4>2 DEF Lasts
    <3>4. Content' = [k \in Kept |-> IF k[1] = i THEN Lasting[k] ELSE Content[k]]
      BY <1>1, <3>3 DEF Content, Lasting
    <3> QED BY <1>4, <2>4, <2>6, <3>2, <3>4, DeviceRecalls
  <2> QED BY <2>0, <2>1, <2>7, <2>8, <2>9
<1> QED BY <1>3, <1>4

LEMMA EjectMaps ==
    ASSUME JInv, JInv', NEW d \in Drive, Eject(d)
    PROVE  Device!Next \/ UNCHANGED Device!vars
<1>1. /\ UNCHANGED <<on, original, store, overlay, busy, answer>> /\ busy = None /\ on
      /\ file'[d] = None /\ \A e \in Drive : e # d => file'[e] = file[e]
  BY DEF Eject, Idle, JInv, TypeOK
<1>2. Underway = <<>> /\ UNCHANGED <<Underway, Said>> BY <1>1, NoUnderway DEF Underway, Said
<1>3. CASE file[d] = None
  <2>1. file' = file BY <1>3 DEF Eject, JInv, TypeOK
  <2>2. UNCHANGED Shown BY <1>1, <2>1, QuietMaps
  <2> QED BY <1>1, <1>2, <2>2, DeviceStutters
<1>4. CASE file[d] # None
  <2>1. PICK j \in Image : j = file[d] BY <1>4 DEF JInv, IInv, Shape
  <2>2. <<d, j>> \in Loads BY <1>4, <2>1 DEF JInv, IInv, Placed
  <2>3. \/ Where(d, j)' = Where(d, j)
        \/ /\ Where(d, j) \in {Saved(j), None}
           /\ Where(d, j)' \in {Saved(j), None}
    BY <1>1, <1>4, <2>1 DEF Where, Saved, Source
  <2> QED BY <1>1, <1>2, <2>2, <2>3, OneMoves
<1> QED BY <1>3, <1>4

LEMMA LoadMaps ==
    ASSUME JInv, JInv', NEW d \in Drive, NEW i \in Image, Load(d, i)
    PROVE  Device!Next \/ UNCHANGED Device!vars
<1>1. UNCHANGED <<on, original, store, busy, answer>> /\ busy = None /\ on /\ <<d, i>> \in Loads
  BY DEF Load, Idle
<1>2. PICK o \in OverlayLoad(d, i) : overlay' = [overlay EXCEPT ![d] = o] BY DEF Load
<1>3. /\ overlay'[d] = o /\ file'[d] = i
      /\ \A e \in Drive : e # d => overlay'[e] = overlay[e] /\ file'[e] = file[e]
  BY <1>2 DEF Load, JInv, TypeOK
<1>4. Underway = <<>> /\ UNCHANGED <<Underway, Said>> BY <1>1, NoUnderway DEF Underway, Said
<1>5. \/ Where(d, i)' = Where(d, i)
      \/ /\ Where(d, i) \in {Saved(i), None}
         /\ Where(d, i)' \in {Saved(i), None}
  BY <1>2, <1>3 DEF Where, OverlayLoad
<1> QED BY <1>1, <1>3, <1>4, <1>5, OneMoves

LEMMA WriteIsSome ==
    ASSUME NEW d \in Drive, NEW b \in Asked(d), NEW v \in Written, JInv, InRange(d, b),
           NEW s \in Stage
    PROVE  [drive |-> d, block |-> b, value |-> v, stage |-> s] # None
<1>1. b \in Nat BY DEF Asked
<1>2. v \in Value BY DataAssumption
<1>3. [drive |-> d, block |-> b, value |-> v, stage |-> s] \in Request
  BY <1>1, <1>2 DEF Request
<1> QED BY <1>3, NoneIsNothing

\* A new overlay has no block of its own.
LEMMA BlankHolds ==
    ASSUME NEW k \in Kept, NEW p, store[p].bits = Blank(Blocks[k[1]]).bits
    PROVE  HeldAt(p, k) = Original(k)
<1>1. k[2] \in 0..Blocks[k[1]] - 1 /\ k[1] \in Image BY KeptBlocks
<1>2. Blocks[k[1]] <= Size(Blocks[k[1]]) /\ Size(Blocks[k[1]]) \in Nat
  BY <1>1, Sizes, Layout
<1>3. k[2] \in 0..Size(Blocks[k[1]]) - 1 BY <1>1, <1>2, Sizes
<1>4. store[p].bits[FlagPos(k[2])] = 0 BY <1>3 DEF Blank, FlagPos
<1> QED BY <1>4 DEF HeldAt

LEMMA BlankHoldsNext ==
    ASSUME NEW k \in Kept, NEW p, store'[p].bits = Blank(Blocks[k[1]]).bits
    PROVE  HeldAt(p, k)' = Original(k)'
<1>1. k[2] \in 0..Blocks[k[1]] - 1 /\ k[1] \in Image BY KeptBlocks
<1>2. Blocks[k[1]] <= Size(Blocks[k[1]]) /\ Size(Blocks[k[1]]) \in Nat
  BY <1>1, Sizes, Layout
<1>3. k[2] \in 0..Size(Blocks[k[1]]) - 1 BY <1>1, <1>2, Sizes
<1>4. store'[p].bits[FlagPos(k[2])] = 0 BY <1>3 DEF Blank, FlagPos
<1> QED BY <1>4 DEF HeldAt, FlagPos

\* When no drive has anything, images are as their files will show them.
LEMMA AllSaved ==
    (\A d \in Drive : file[d] = None /\ overlay[d] = None)
    => \A i \in Image : Backing(i) = Saved(i) /\ Mode(i) = "file"
<1> SUFFICES ASSUME \A d \in Drive : file[d] = None /\ overlay[d] = None, NEW i \in Image
             PROVE  Backing(i) = Saved(i) /\ Mode(i) = "file"
  OBVIOUS
<1> DEFINE mapped == {overlay[e] : e \in {e \in Drive : <<e, i>> \in Loads /\ overlay[e] # None}}
<1>1. mapped = {} OBVIOUS
<1>2. i # None BY NoneIsNothing
<1>3. Backing(i) = Saved(i) BY <1>1, <1>2 DEF Backing
<1>4. Saved(i) \notin Drive
  BY SavedIs, DataAssumption, NoneIsNothing DEF Stems, Place
<1> QED BY <1>3, <1>4 DEF Mode

LEMMA AllSavedNext ==
    (\A d \in Drive : file'[d] = None /\ overlay'[d] = None)
    => \A i \in Image : Backing(i)' = Saved(i)' /\ Mode(i)' = "file"
<1>1. ((\A d \in Drive : file[d] = None /\ overlay[d] = None)
       => \A i \in Image : Backing(i) = Saved(i) /\ Mode(i) = "file")'
  BY AllSaved, PTL
<1> QED BY <1>1

LEMMA HaltMaps == ASSUME JInv, JInv', on, Halt PROVE Device!Next
<1>1. /\ on' = FALSE /\ UNCHANGED original /\ busy' = None /\ answer' = NoAnswer
      /\ \A d \in Drive : file'[d] = None /\ overlay'[d] = None
      /\ \A p \in Place : p \notin Drive => store'[p] = store[p]
  BY DEF Halt
<1>2. Base' = Base BY <1>1, BaseSame
<1>3. Underway' = <<>> /\ Said' = <<>> BY <1>1 DEF Underway, Said
<1>4. \A k \in Kept : Lasts(k)' = Lasts(k)
  <2> SUFFICES ASSUME NEW k \in Kept PROVE Lasts(k)' = Lasts(k) OBVIOUS
  <2>1. k[1] \in Image BY KeptBlocks
  <2>2. Stem[k[1]] \in Place /\ Stem[k[1]] \notin Drive
    BY <2>1, DataAssumption DEF Place, Stems
  <2>3. store'[Stem[k[1]]] = store[Stem[k[1]]] BY <1>1, <2>2
  <2>4. Saved(k[1])' = Saved(k[1]) /\ Saved(k[1]) \in {Stem[k[1]], None}
    BY <1>1, <2>3 DEF Saved, Source
  <2>5. HeldAt(Saved(k[1]), k)' = HeldAt(Saved(k[1]), k)
    BY <1>1, <2>3, <2>4 DEF HeldAt, Original, BlockOf, FlagPos, DataPos, DataStart, Words
  <2> QED BY <2>5 DEF Lasts
<1>5. \A i \in Image : Backing(i)' = Saved(i)' /\ Mode(i)' = "file" BY <1>1, AllSavedNext
<1>6. \A k \in Kept : Holds(k)' = Lasts(k) /\ Mode(k[1])' = "file"
  BY <1>4, <1>5, KeptBlocks DEF Holds, Lasts
<1>7. Content' = Lasting /\ Lasting' = Lasting BY <1>4, <1>6 DEF Content, Lasting
<1>8. Changes' = [i \in {k[1] : k \in Kept} |-> "file"] BY <1>6 DEF Changes
<1> QED BY <1>1, <1>2, <1>3, <1>7, <1>8, DeviceStops

LEMMA StartMaps == ASSUME Start PROVE Device!Next
<1>1. UNCHANGED Shown BY QuietMaps DEF Start
<1>2. UNCHANGED <<Underway, Said>> BY DEF Start, Underway, Said
<1> QED BY <1>1, <1>2, DeviceStarts DEF Start

LEMMA ReplaceMaps ==
    ASSUME JInv, JInv', NEW i \in Image, Replace(i)
    PROVE  Device!Next \/ UNCHANGED Device!vars
<1>1. ~on /\ UNCHANGED <<on, store, file, overlay, busy, answer>>
      /\ \A j \in Image : j # i => original'[j] = original[j]
  BY DEF Replace, JInv, TypeOK
<1>2. \A d \in Drive : /\ file[d] = None /\ overlay[d] = None
                       /\ file'[d] = None /\ overlay'[d] = None
  BY <1>1 DEF JInv, IInv, Off
<1>3. \A j \in Image : /\ Backing(j) = Saved(j) /\ Mode(j) = "file"
                       /\ Backing(j)' = Saved(j)' /\ Mode(j)' = "file"
  BY <1>2, AllSaved, AllSavedNext
<1>4. UNCHANGED <<on, Underway, Said>> BY <1>1 DEF Underway, Said
<1>5. ASSUME NEW k \in Kept, k[1] # i
      PROVE  /\ Holds(k)' = Holds(k) /\ Lasts(k)' = Lasts(k)
             /\ Original(k)' = Original(k)
  <2>1. original'[k[1]] = original[k[1]] BY <1>1, <1>5, KeptBlocks
  <2>2. Saved(k[1])' = Saved(k[1]) BY <1>1, <2>1 DEF Saved, Source
  <2>3. HeldAt(Saved(k[1]), k)' = HeldAt(Saved(k[1]), k)
    BY <1>1, <2>1, <2>2 DEF HeldAt, Original, BlockOf, FlagPos, DataPos, DataStart, Words
  <2>4. Original(k)' = Original(k) BY <2>1 DEF Original
  <2> QED BY <1>3, <2>2, <2>3, <2>4, KeptBlocks DEF Holds, Lasts
<1>6. Changes' = Changes BY <1>3, KeptBlocks DEF Changes
<1>7. CASE i \in {k[1] : k \in Kept}
  <2>1. Base' \in [Kept -> Value] /\ Content' \in [Kept -> Value]
    BY HoldsFitsNext DEF Base, Content
  <2>2. \A k \in Kept : k[1] # i => Base'[k] = Base[k] /\ Content'[k] = Content[k]
    BY <1>5 DEF Base, Content
  <2>3. \A k \in Kept : Holds(k)' = Lasts(k)' BY <1>3, KeptBlocks DEF Holds, Lasts
  <2>4. Lasting' = Content' BY <2>3 DEF Lasting, Content
  <2> QED BY <1>1, <1>4, <1>6, <1>7, <2>1, <2>2, <2>4, DeviceReplaces
<1>8. CASE i \notin {k[1] : k \in Kept}
  <2>1. UNCHANGED <<Base, Content, Lasting>> BY <1>5, <1>8 DEF Base, Content, Lasting
  <2> QED BY <1>4, <1>6, <2>1, DeviceStutters DEF Shown
<1> QED BY <1>7, <1>8

LEMMA WriteMaps ==
    ASSUME JInv, JInv', Idle, NEW d \in Drive, NEW b \in Asked(d), NEW v \in Written,
           WriteBlock(d, b, v)
    PROVE  Device!Next \/ UNCHANGED Device!vars
<1>1. CASE Halt BY <1>1, HaltMaps DEF Idle
<1>2. CASE Refuse /\ UNCHANGED <<on, original, store, file, overlay, span, busy>>
  BY <1>2, RefuseMaps
<1>3. CASE /\ InRange(d, b)
           /\ busy' = [drive |-> d, block |-> b, value |-> v,
                       stage |-> IF overlay[d] = None THEN "open" ELSE "flag"]
           /\ answer' = NoAnswer
           /\ UNCHANGED <<on, original, store, file, overlay, span>>
  <2>1. UNCHANGED Shown BY <1>3, QuietMaps
  <2>2. on /\ UNCHANGED on /\ Underway = <<>> /\ Said = <<>> /\ Said' = <<>>
    BY <1>3, NoUnderway DEF Idle, Said
  <2>3. busy'.drive = d /\ busy'.block = b /\ busy'.value = v /\ busy' # None
    BY <1>3, WriteIsSome DEF Stage
  <2>4. Underway' = IF <<file[d], b>> \in Kept THEN <<<<file[d], b>>, v>> ELSE <<>>
    BY <1>3, <2>3 DEF Underway
  <2>5. v \in Value BY DataAssumption
  <2>6. CASE <<file[d], b>> \in Kept
    BY <2>1, <2>2, <2>4, <2>5, <2>6, DeviceBegins
  <2>7. CASE <<file[d], b>> \notin Kept
    BY <2>1, <2>2, <2>4, <2>7, DeviceStutters
  <2> QED BY <2>6, <2>7
<1> QED BY <1>1, <1>2, <1>3 DEF WriteBlock

LEMMA StagesAreBusy ==
    ASSUME JInv, busy # None, NEW s \in Stage
    PROVE  [busy EXCEPT !.stage = s] # None
<1>1. PICK i \in Image : busy \in RequestFor(i) BY DEF JInv, TypeOK
<1>2. [busy EXCEPT !.stage = s] \in RequestFor(i) BY <1>1 DEF RequestFor
<1>3. RequestFor(i) \subseteq Request
  BY <1>1, DataAssumption, Sizes DEF RequestFor, Request
<1> QED BY <1>2, <1>3, NoneIsNothing

LEMMA OpenMaps ==
    ASSUME JInv, JInv', OpenOverlay
    PROVE  Device!Next \/ UNCHANGED Device!vars
<1>0. on /\ busy # None /\ busy.stage = "open" BY DEF OpenOverlay, At
<1>d. PICK d \in Drive : d = busy.drive BY <1>0, Busy
<1>i. PICK i \in Image : i = file[d] BY <1>0, <1>d, Busy
<1>1. /\ <<d, i>> \in Loads /\ overlay[d] = None /\ answer = NoAnswer
      /\ busy = [drive |-> busy.drive, block |-> busy.block,
                 value |-> busy.value, stage |-> busy.stage]
  BY <1>0, <1>d, <1>i, Busy
<1>2. PICK p \in {d, Stem[i]} :
        /\ store' = [store EXCEPT ![p] = Blank(Blocks[i])]
        /\ overlay' = [overlay EXCEPT ![d] = p]
  BY <1>d, <1>i DEF OpenOverlay
<1>3. /\ UNCHANGED <<on, original, file, answer>>
      /\ busy' = [busy EXCEPT !.stage = "header"]
  BY DEF OpenOverlay
<1>4. p \in Own(d) /\ p \in Place /\ p # None /\ Stem[i] \in Place /\ Stem[i] \notin Drive
  BY <1>1, NoneIsNothing, DataAssumption DEF Own, Place, Stems
<1>5. busy' # None BY <1>0, <1>3, StagesAreBusy DEF Stage
<1>6. UNCHANGED Underway BY <1>0, <1>1, <1>3, <1>5 DEF Underway
<1>7. UNCHANGED Said BY <1>3 DEF Said
<1>8. /\ store'[p] = Blank(Blocks[i])
      /\ \A q \in Place : q # p => store'[q] = store[q]
      /\ overlay'[d] = p /\ \A e \in Drive : e # d => overlay'[e] = overlay[e]
  BY <1>1, <1>2, <1>4 DEF JInv, TypeOK
<1>9. \A k \in Kept : k[1] # i => UNCHANGED <<Holds(k), Lasts(k), Mode(k[1])>>
  <2> SUFFICES ASSUME NEW k \in Kept, k[1] # i
               PROVE  UNCHANGED <<Holds(k), Lasts(k), Mode(k[1])>>
    OBVIOUS
  <2>1. <<d, k[1]>> \notin Loads BY <1>1, KeptBlocks, OneImage
  <2>2. \A q \in Place : q \notin Own(d) => store'[q] = store[q] BY <1>4, <1>8
  <2> QED BY <1>3, <1>8, <2>1, <2>2, OthersHold
<1>10. Base' = Base BY <1>3, BaseSame
<1>11. CASE i \notin {k[1] : k \in Kept}
  <2>1. UNCHANGED Shown BY <1>3, <1>9, <1>11, ShownSame
  <2> QED BY <1>3, <1>6, <1>7, <2>1, DeviceStutters
<1>12. CASE i \in {k[1] : k \in Kept}
  <2>1. i \in Alone BY <1>12, KeptBlocks
  <2>2. Backing(i) = None /\ Backing(i)' = p
    BY <1>1, <1>3, <1>4, <1>8, <1>i, <2>1, BackingLoaded, BackingLoadedNext DEF Where
  <2>3. ASSUME NEW k \in Kept, k[1] = i
        PROVE  Holds(k) = Original(k) /\ Holds(k)' = Original(k)
    <3>1. Original(k)' = Original(k) BY <1>3 DEF Original
    <3>2. Holds(k) = Original(k) BY <2>2, <2>3 DEF Holds, HeldAt
    <3>3. HeldAt(p, k)' = Original(k)' BY <1>8, <2>3, BlankHoldsNext
    <3>4. Holds(k)' = HeldAt(p, k)' BY <2>2, <2>3 DEF Holds
    <3> QED BY <3>1, <3>2, <3>3, <3>4
  <2>4. Content' = Content BY <1>9, <2>3 DEF Content
  <2>5. CASE p = d
    <3>1. Saved(i)' = Saved(i) BY <1>3, <1>4, <1>8, <2>5 DEF Saved, Source
    <3>2. Saved(i) # None => store'[Saved(i)] = store[Saved(i)]
      BY <1>4, <1>8, <2>5, SavedIs
    <3>3. \A k \in Kept : k[1] = i => Lasts(k)' = Lasts(k)
      BY <1>3, <3>1, <3>2, LastsSame
    <3>4. Lasting' = Lasting BY <1>9, <3>3 DEF Lasting
    <3>5. Mode(i) # "memory" /\ Mode(i)' = "memory" BY <2>2, <2>5, NoneIsNothing DEF Mode, Place
    <3>6. Changes[i] # "memory" /\ Changes' = [Changes EXCEPT ![i] = "memory"]
      BY <1>9, <1>12, <3>5 DEF Changes
    <3>7. \A k \in Kept : k[1] = i => Content[k] = Base[k] BY <2>3 DEF Content, Base
    <3> QED BY <1>0, <1>3, <1>6, <1>7, <1>10, <1>12, <2>4, <3>4, <3>6, <3>7, DeviceDegrades
  <2>6. CASE p = Stem[i]
    <3>1. Source(i)' = Source(i) /\ Source(i) # None
      BY <1>3, SourceIsSome DEF Source, JInv
    <3>2. Saved(i)' = None BY <1>8, <2>6, <3>1 DEF Saved, Blank
    <3>3. ASSUME NEW k \in Kept, k[1] = i PROVE Lasts(k)' = Original(k)
      <4>1. Lasts(k)' = HeldAt(None, k)' BY <3>2, <3>3 DEF Lasts
      <4> QED BY <1>3, <4>1 DEF HeldAt, Original
    <3>4. Mode(i)' = "file" BY <1>4, <2>2, <2>6 DEF Mode
    <3>5. CASE Saved(i) # None
      <4>1. Mode(i) = "unused" BY <2>2, <3>5, NoneIsNothing DEF Mode, Place
      <4>2. Changes[i] = "unused" /\ Changes' = [Changes EXCEPT ![i] = "file"]
        BY <1>9, <1>12, <3>4, <4>1 DEF Changes
      <4>3. Lasting' = [k \in Kept |-> IF k[1] = i THEN Base[k] ELSE Lasting[k]]
        BY <1>9, <3>3 DEF Lasting, Base
      <4> QED BY <1>0, <1>3, <1>6, <1>7, <1>10, <1>12, <2>4, <4>2, <4>3, DeviceRenews
    <3>6. CASE Saved(i) = None
      <4>1. Mode(i) = "file" BY <2>2, <3>6, NoneIsNothing DEF Mode, Place
      <4>2. \A k \in Kept : k[1] = i => Lasts(k) = Original(k) BY <3>6 DEF Lasts, HeldAt
      <4>3. \A k \in Kept : UNCHANGED <<Holds(k), Lasts(k), Mode(k[1])>>
        BY <1>9, <2>3, <3>3, <3>4, <4>1, <4>2
      <4>4. UNCHANGED Shown BY <1>3, <4>3, ShownSame
      <4> QED BY <1>3, <1>6, <1>7, <4>4, DeviceStutters
    <3> QED BY <3>5, <3>6
  <2> QED BY <2>5, <2>6
<1> QED BY <1>11, <1>12

LEMMA HeaderMaps == ASSUME JInv, JInv', WriteHeader PROVE UNCHANGED Device!vars
<1>0. on /\ busy # None /\ busy.stage = "header" BY DEF WriteHeader, At
<1>d. PICK d \in Drive : d = busy.drive BY <1>0, Busy
<1>i. PICK i \in Image : i = file[d] BY <1>0, <1>d, Busy
<1>p. PICK p \in Place : p = overlay[d] BY <1>0, <1>d, Busy DEF JInv, TypeOK
<1>1. /\ <<d, i>> \in Loads /\ p # None /\ answer = NoAnswer
      /\ busy = [drive |-> busy.drive, block |-> busy.block,
                 value |-> busy.value, stage |-> busy.stage]
  BY <1>0, <1>d, <1>i, <1>p, Busy
<1>2. p \in Own(d) BY <1>1, <1>p DEF JInv, IInv, Placed
<1>3. /\ UNCHANGED <<on, original, file, overlay, answer>>
      /\ busy' = [busy EXCEPT !.stage = "flag"]
      /\ store' = [store EXCEPT ![p].src = Source(i)]
  BY <1>d, <1>i, <1>p DEF WriteHeader
<1>4. busy' # None BY <1>0, <1>3, StagesAreBusy DEF Stage
<1>5. UNCHANGED <<Underway, Said>> BY <1>0, <1>1, <1>3, <1>4 DEF Underway, Said
<1>6. /\ store[p] = Blank(Blocks[i]) /\ p \in {d, Stem[i]}
      /\ store'[p].bits = store[p].bits /\ \A q \in Place : q # p => store'[q] = store[q]
  <2>1. HeaderDue(d) BY <1>0, <1>d DEF HeaderDue, At
  <2>2. store[p] = Blank(Blocks[i]) /\ p \in {d, Stem[i]}
    BY <1>1, <1>d, <1>i, <1>p, <2>1 DEF JInv, Headed
  <2>3. store'[p] = [store[p] EXCEPT !.src = Source(i)] BY <1>3 DEF JInv, TypeOK
  <2>4. store'[p].bits = store[p].bits BY <2>2, <2>3 DEF Blank
  <2> QED BY <1>3, <2>2, <2>4 DEF JInv, TypeOK
<1>7. \A k \in Kept : UNCHANGED <<Holds(k), Lasts(k), Mode(k[1])>>
  <2> SUFFICES ASSUME NEW k \in Kept PROVE UNCHANGED <<Holds(k), Lasts(k), Mode(k[1])>>
    OBVIOUS
  <2>1. CASE <<d, k[1]>> \notin Loads
    BY <1>1, <1>2, <1>3, <1>6, <2>1, OthersHold
  <2>2. CASE <<d, k[1]>> \in Loads
    <3>1. k[1] = i /\ i \in Alone BY <1>1, <2>2, KeptBlocks, OneImage
    <3>2. Backing(i) = p /\ Backing(i)' = p
      BY <1>1, <1>3, <1>p, <3>1, BackingLoaded, BackingLoadedNext DEF Where
    <3>3. HeldAt(p, k) = Original(k) BY <1>6, <3>1, BlankHolds
    <3>4. HeldAt(p, k)' = Original(k)' BY <1>6, <3>1, BlankHoldsNext
    <3>5. Original(k)' = Original(k) BY <1>3 DEF Original
    <3>6. Holds(k)' = Holds(k)
      <4>1. Holds(k) = HeldAt(p, k) /\ Holds(k)' = HeldAt(p, k)' BY <3>1, <3>2 DEF Holds
      <4> QED BY <3>3, <3>4, <3>5, <4>1
    <3>7. Mode(k[1])' = Mode(k[1]) BY <1>1, <3>1, <3>2 DEF Mode
    <3>8. CASE p = d
      <4>1. Stem[i] # p /\ Stem[i] \in Place BY <3>8, DataAssumption DEF Place, Stems
      <4>2. Saved(i)' = Saved(i) BY <1>3, <1>6, <4>1 DEF Saved, Source
      <4>3. Saved(i) # None => store'[Saved(i)] = store[Saved(i)] BY <1>6, <4>1, SavedIs
      <4>4. Lasts(k)' = Lasts(k)
        BY <1>3, <3>1, <4>2, <4>3, LastsSame
      <4> QED BY <3>6, <3>7, <4>4
    <3>9. CASE p = Stem[i]
      <4>1. Saved(i) \in {p, None} /\ Saved(i)' \in {p, None} BY <3>9 DEF Saved
      <4>2. HeldAt(None, k) = Original(k) /\ HeldAt(None, k)' = Original(k)' BY DEF HeldAt, Original
      <4>3. Lasts(k) = Original(k)
        <5>1. PICK q \in {p, None} : q = Saved(i) BY <4>1
        <5> QED BY <3>1, <3>3, <4>2, <5>1 DEF Lasts
      <4>4. Lasts(k)' = Original(k)'
        <5>1. PICK q \in {p, None} : q = Saved(i)' BY <4>1
        <5>2. Lasts(k)' = HeldAt(q, k)' BY <3>1, <5>1 DEF Lasts
        <5> QED BY <3>4, <4>2, <5>2
      <4> QED BY <3>5, <3>6, <3>7, <4>3, <4>4
    <3> QED BY <1>6, <3>8, <3>9
  <2> QED BY <2>1, <2>2
<1>8. UNCHANGED Shown BY <1>3, <1>7, ShownSame
<1> QED BY <1>3, <1>5, <1>8, DeviceStutters

\* Both last steps of a write change the bits of the overlay of the image in the
\* drive, and by those nothing but the block that is written; what its file will
\* show is what it shows, or as before when its overlay is in memory.
LEMMA BitsMap ==
    ASSUME JInv, JInv', At("flag") \/ At("copy"),
           NEW d \in Drive, d = busy.drive, NEW i \in Image, i = file[d],
           NEW p \in Place, p = overlay[d],
           UNCHANGED <<on, original, file, overlay, answer>>,
           \A q \in Place : q # p => store'[q] = store[q],
           store'[p].src = store[p].src, DOMAIN store'[p].bits = DOMAIN store[p].bits,
           i \in Alone /\ i \in Overlaid =>
              \A b \in Sound(Blocks[i]) : b # busy.block =>
                 /\ store'[p].bits[FlagPos(b)] = store[p].bits[FlagPos(b)]
                 /\ \A n \in 0..BlockBits - 1 : store'[p].bits[DataPos(Blocks[i], b, n)]
                                              = store[p].bits[DataPos(Blocks[i], b, n)]
    PROVE  /\ UNCHANGED <<Base, Changes, Said>>
           /\ \A k \in Kept : k # <<i, busy.block>> => UNCHANGED <<Holds(k), Lasts(k)>>
           /\ \A k \in Kept : k[1] = i => IF Changes[i] = "file" THEN Lasts(k)' = Holds(k)'
                                          ELSE Lasts(k)' = Lasts(k)
           /\ i \in Alone => Backing(i) = p /\ Backing(i)' = p /\ i \in Overlaid
<1>1. /\ <<d, i>> \in Loads /\ p # None /\ p \in Own(d) /\ answer = NoAnswer
      /\ busy.stage \in {"flag", "copy"} /\ ~InHeader(d)
  BY Busy DEF At, JInv, IInv, Placed, InHeader
<1>2. i \in Alone => Backing(i) = p /\ Backing(i)' = p /\ i \in Overlaid
  <2> SUFFICES ASSUME i \in Alone PROVE Backing(i) = p /\ Backing(i)' = p /\ i \in Overlaid
    OBVIOUS
  <2>1. Backing(i) = p /\ Backing(i)' = p
    BY <1>1, BackingLoaded, BackingLoadedNext DEF Where
  <2> QED BY <1>1, <2>1, BackingFits
<1>3. ASSUME NEW k \in Kept, <<d, k[1]>> \in Loads
      PROVE  /\ k[1] = i /\ i \in Alone
             /\ Mode(i)' = Mode(i)
             /\ k # <<i, busy.block>> => UNCHANGED <<Holds(k), Lasts(k)>>
             /\ IF Mode(i) = "file" THEN Lasts(k)' = Holds(k)' ELSE Lasts(k)' = Lasts(k)
  <2>1. k[1] = i /\ i \in Alone BY <1>1, <1>3, KeptBlocks, OneImage
  <2>2. Backing(i) = p /\ Backing(i)' = p /\ i \in Overlaid BY <1>2, <2>1
  <2>3. Mode(i) = IF p \in Drive THEN "memory" ELSE "file"
    BY <1>1, <2>2 DEF Mode
  <2>4. Mode(i)' = Mode(i) BY <1>1, <2>2 DEF Mode
  <2>5. Holds(k) = HeldAt(p, k) /\ Holds(k)' = HeldAt(p, k)' BY <2>1, <2>2 DEF Holds
  <2>6. ASSUME k # <<i, busy.block>> PROVE Holds(k)' = Holds(k)
    <3>1. k[2] \in Sound(Blocks[i]) /\ k[2] # busy.block BY <2>1, <2>2, <2>6, KeptBlocks
    <3>2. store'[p].bits[FlagPos(k[2])] = store[p].bits[FlagPos(k[2])]
      BY <2>1, <2>2, <3>1
    <3>3. BlockOf(store'[p], Blocks[i], k[2]) = BlockOf(store[p], Blocks[i], k[2])
      BY <2>1, <2>2, <3>1 DEF BlockOf
    <3>4. HeldAt(p, k)' = IF store'[p].bits[FlagPos(k[2])] = 1
                          THEN BlockOf(store'[p], Blocks[i], k[2]) ELSE Original(k)
      BY <1>1, <2>1 DEF HeldAt, Original, BlockOf, FlagPos, DataPos, DataStart, Words
    <3>5. HeldAt(p, k) = IF store[p].bits[FlagPos(k[2])] = 1
                         THEN BlockOf(store[p], Blocks[i], k[2]) ELSE Original(k)
      BY <1>1, <2>1 DEF HeldAt
    <3> QED BY <2>5, <3>2, <3>3, <3>4, <3>5
  <2>7. p \in {d, Stem[i]}
    <3>1. \A j \in Image : <<d, j>> \in Loads => j = i BY <1>1, <2>1, OneImage
    <3> QED BY <1>1, <3>1 DEF Own
  <2>8. CASE p \in Drive
    <3>1. Stem[i] # p /\ Stem[i] \in Place BY <2>8, DataAssumption DEF Place, Stems
    <3>2. Saved(i)' = Saved(i) BY <3>1 DEF Saved, Source
    <3>3. Saved(i) # None => store'[Saved(i)] = store[Saved(i)] BY <3>1, SavedIs
    <3>4. Lasts(k)' = Lasts(k)
      BY <2>1, <3>2, <3>3, LastsSame
    <3> QED BY <2>1, <2>3, <2>4, <2>6, <2>8, <3>4
  <2>9. CASE p \notin Drive
    <3>1. p = Stem[i] BY <2>7, <2>9
    <3>2. store[p].src = Source(i) BY <1>1, <2>1 DEF JInv, IInv, AllNamed, Named
    <3>3. Saved(i) = p /\ Saved(i)' = p BY <2>2, <3>1, <3>2 DEF Saved, Source
    <3>4. Lasts(k) = Holds(k) BY <2>1, <2>5, <3>3 DEF Lasts
    <3>5. Lasts(k)' = HeldAt(p, k)' BY <2>1, <3>3 DEF Lasts
    <3> QED BY <2>1, <2>3, <2>4, <2>5, <2>6, <2>9, <3>4, <3>5
  <2> QED BY <2>8, <2>9
<1>4. ASSUME NEW k \in Kept, <<d, k[1]>> \notin Loads
      PROVE  UNCHANGED <<Holds(k), Lasts(k), Mode(k[1])>>
  BY <1>1, <1>4, OthersHold
<1>5. \A k \in Kept : Mode(k[1])' = Mode(k[1])
  <2> SUFFICES ASSUME NEW k \in Kept PROVE Mode(k[1])' = Mode(k[1]) OBVIOUS
  <2>1. CASE <<d, k[1]>> \in Loads
    <3>1. PICK j \in {i} : j = k[1] BY <1>3, <2>1
    <3> QED BY <1>3, <2>1, <3>1
  <2> QED BY <1>4, <2>1
<1>6. Changes' = Changes BY <1>5 DEF Changes
<1>7. UNCHANGED Said BY DEF Said
<1>8. \A k \in Kept : k # <<i, busy.block>> => UNCHANGED <<Holds(k), Lasts(k)>>
  BY <1>3, <1>4
<1>9. ASSUME NEW k \in Kept, k[1] = i
      PROVE  IF Changes[i] = "file" THEN Lasts(k)' = Holds(k)' ELSE Lasts(k)' = Lasts(k)
  <2>1. Changes[i] = Mode(i) BY <1>9 DEF Changes
  <2> QED BY <1>1, <1>3, <1>9, <2>1
<1> QED BY <1>2, <1>6, <1>7, <1>8, <1>9, BaseSame

\* So the block that is written becomes what it now holds, and no other does.
LEMMA OneBecame ==
    ASSUME NEW k \in Kept,
           \A h \in Kept : h # k => UNCHANGED <<Holds(h), Lasts(h)>>,
           IF Changes[k[1]] = "file" THEN Lasts(k)' = Holds(k)' ELSE Lasts(k)' = Lasts(k)
    PROVE  Became(k, Holds(k)')
<1>1. Content' = [Content EXCEPT ![k] = Holds(k)'] BY DEF Content
<1>2. Lasting' = IF Changes[k[1]] = "file" THEN [Lasting EXCEPT ![k] = Holds(k)']
                 ELSE Lasting
  <2>1. CASE Changes[k[1]] = "file" BY <2>1 DEF Lasting
  <2>2. CASE Changes[k[1]] # "file" BY <2>2 DEF Lasting
  <2> QED BY <2>1, <2>2
<1> QED BY <1>1, <1>2 DEF Became

\* The flags of sound blocks lie before all blocks, and their blocks past all flags.
LEMMA SoundApart ==
    ASSUME NEW n \in Nat \ {0}, NEW b \in Sound(n), NEW c \in Nat, b # c,
           NEW k \in 0..BlockBits - 1, NEW l \in 0..BlockBits - 1
    PROVE  /\ b \in Nat /\ b < n /\ DataPos(n, b, k) <= Size(n) - 1 /\ DataPos(n, b, k) \in Nat
           /\ FlagPos(b) # DataPos(n, c, l) /\ FlagPos(b) # DataPos(n, b, k)
           /\ DataPos(n, b, k) # DataPos(n, c, l)
           /\ c < n => FlagPos(c) # DataPos(n, b, k)
<1>1. b \in Nat /\ b < n /\ b < DataStart(n) /\ DataPos(n, b, 0) >= n BY DEF Sound
<1>2. /\ DataPos(n, b, k) <= Size(n) - 1 /\ DataStart(n) <= DataPos(n, b, k)
      /\ DataPos(n, b, k) = DataPos(n, b, 0) + k
      /\ DataPos(n, b, k) \in Nat /\ DataPos(n, b, 0) \in Nat
  BY <1>1, Layout
<1>3. DataStart(n) <= DataPos(n, c, l) /\ DataPos(n, c, l) \in Nat BY Layout
<1>4. DataStart(n) \in Nat BY StartIsNat
<1>5. DataPos(n, b, k) # DataPos(n, c, l) BY <1>1, BlocksApart
<1> QED BY <1>1, <1>2, <1>3, <1>4, <1>5 DEF FlagPos

LEMMA FlagMaps ==
    ASSUME JInv, JInv', SetFlag
    PROVE  Device!Next \/ UNCHANGED Device!vars
<1>0. At("flag") /\ on /\ busy # None BY DEF SetFlag, At
<1>d. PICK d \in Drive : d = busy.drive BY <1>0, WritesTo
<1>i. PICK i \in Image : i = file[d] BY <1>0, <1>d, Busy
<1>p. PICK p \in Place : p = overlay[d] BY <1>0, <1>d, WritesTo
<1>c. PICK c \in 0..Blocks[i] - 1 : c = busy.block BY <1>0, <1>d, <1>i, Busy
<1>n. Blocks[i] \in Nat \ {0} /\ c \in Nat /\ c < Blocks[i] BY <1>c, Sizes
<1>1. PICK j \in Image : /\ store[p] \in OverlayOf(j) /\ HeaderSize(d) = Blocks[j]
                         /\ i \in Alone => i = j
  BY <1>0, <1>d, <1>i, <1>p, WritesTo
<1>2. /\ UNCHANGED <<on, original, file, overlay, answer>>
      /\ busy' = [busy EXCEPT !.stage = "copy"]
      /\ store' = IF c < HeaderSize(d) THEN [store EXCEPT ![p] = WithFlag(@, c)] ELSE store
  BY <1>d, <1>p, <1>c DEF SetFlag
<1>3. \A q \in Place : q # p => store'[q] = store[q] BY <1>2 DEF JInv, TypeOK
<1>4. /\ store'[p].src = store[p].src /\ DOMAIN store'[p].bits = DOMAIN store[p].bits
      /\ \A x \in DOMAIN store[p].bits : x # c => store'[p].bits[x] = store[p].bits[x]
  <2>1. CASE store' = store BY <2>1
  <2>2. CASE store' = [store EXCEPT ![p] = WithFlag(@, c)]
    <3>1. store'[p] = WithFlag(store[p], c) BY <2>2 DEF JInv, TypeOK
    <3>2. PICK s \in OverlayOf(j) : s = store[p] BY <1>1
    <3>3. /\ WithFlag(s, c) \in OverlayOf(j) /\ WithFlag(s, c).src = s.src
          /\ \A x \in DOMAIN s.bits : WithFlag(s, c).bits[x] = IF x = c THEN 1 ELSE s.bits[x]
      BY <1>n, FlagWrites
    <3>4. DOMAIN WithFlag(s, c).bits = DOMAIN s.bits BY <3>3 DEF OverlayOf
    <3> QED BY <3>1, <3>2, <3>3, <3>4
  <2> QED BY <1>2, <2>1, <2>2
<1>5. DOMAIN store[p].bits = 0..Size(Blocks[j]) - 1 BY <1>1 DEF OverlayOf
<1>6. ASSUME i \in Alone, i \in Overlaid, NEW b \in Sound(Blocks[i]), b # c
      PROVE  /\ store'[p].bits[FlagPos(b)] = store[p].bits[FlagPos(b)]
             /\ \A n \in 0..BlockBits - 1 : store'[p].bits[DataPos(Blocks[i], b, n)]
                                          = store[p].bits[DataPos(Blocks[i], b, n)]
  <2>0. 0 \in 0..BlockBits - 1 /\ DOMAIN store[p].bits = 0..Size(Blocks[i]) - 1
    BY <1>1, <1>5, <1>6, Sizes
  <2>1. b \in Nat /\ b < Blocks[i] BY <1>6, <1>n DEF Sound
  <2>2. Size(Blocks[i]) \in Nat /\ Blocks[i] <= Size(Blocks[i]) BY <1>n, Layout
  <2>3. FlagPos(b) \in DOMAIN store[p].bits /\ FlagPos(b) # c
    BY <1>6, <1>n, <2>0, <2>1, <2>2 DEF FlagPos
  <2>4. ASSUME NEW n \in 0..BlockBits - 1
        PROVE  /\ DataPos(Blocks[i], b, n) \in DOMAIN store[p].bits
               /\ DataPos(Blocks[i], b, n) # c
    <3>1. /\ DataPos(Blocks[i], b, n) <= Size(Blocks[i]) - 1
          /\ DataPos(Blocks[i], b, n) \in Nat
          /\ FlagPos(c) # DataPos(Blocks[i], b, n)
      BY <1>6, <1>n, SoundApart
    <3> QED BY <2>0, <2>2, <3>1 DEF FlagPos
  <2> QED BY <1>4, <2>3, <2>4
<1>7. /\ UNCHANGED <<Base, Changes, Said>>
      /\ \A k \in Kept : k # <<i, c>> => UNCHANGED <<Holds(k), Lasts(k)>>
      /\ \A k \in Kept : k[1] = i => IF Changes[i] = "file" THEN Lasts(k)' = Holds(k)'
                                     ELSE Lasts(k)' = Lasts(k)
  <2>1. i \in Alone /\ i \in Overlaid =>
           \A b \in Sound(Blocks[i]) : b # busy.block =>
              /\ store'[p].bits[FlagPos(b)] = store[p].bits[FlagPos(b)]
              /\ \A n \in 0..BlockBits - 1 : store'[p].bits[DataPos(Blocks[i], b, n)]
                                           = store[p].bits[DataPos(Blocks[i], b, n)]
    BY <1>c, <1>6
  <2>2. UNCHANGED <<on, original, file, overlay, answer>> BY <1>2
  <2>3. store'[p].src = store[p].src /\ DOMAIN store'[p].bits = DOMAIN store[p].bits BY <1>4
  <2> QED BY <1>0, <1>d, <1>i, <1>p, <1>c, <1>3, <2>1, <2>2, <2>3, BitsMap
<1>8. busy' # None /\ busy'.drive = d /\ busy'.block = c /\ busy'.value = busy.value
  BY <1>0, <1>2, <1>d, <1>c, StagesAreBusy, Busy DEF Stage
<1>9. /\ Underway = IF <<i, c>> \in Kept THEN <<<<i, c>>, busy.value>> ELSE <<>>
      /\ Underway' = Underway
  BY <1>0, <1>2, <1>8, <1>d, <1>i, <1>c DEF Underway
<1>10. CASE <<i, c>> \in Kept
  <2>1. Holds(<<i, c>>)' \in Value BY <1>10, HoldsFitsNext
  <2>2. Became(<<i, c>>, Holds(<<i, c>>)') BY <1>7, <1>10, OneBecame
  <2>3. Underway # <<>> /\ Underway[1] = <<i, c>> BY <1>9, <1>10
  <2> QED BY <1>2, <1>7, <1>9, <2>1, <2>2, <2>3, DeviceTears
<1>11. CASE <<i, c>> \notin Kept
  <2>1. Content' = Content /\ Lasting' = Lasting BY <1>7, <1>11 DEF Content, Lasting
  <2> QED BY <1>2, <1>7, <1>9, <2>1, DeviceStutters DEF Shown
<1> QED BY <1>10, <1>11

LEMMA CopyMaps ==
    ASSUME JInv, JInv', CopyBlock
    PROVE  Device!Next \/ UNCHANGED Device!vars
<1>0. At("copy") /\ on /\ busy # None BY DEF CopyBlock, At
<1>h. CASE Halt BY <1>0, <1>h, HaltMaps
<1>d. PICK d \in Drive : d = busy.drive BY <1>0, WritesTo
<1>i. PICK i \in Image : i = file[d] BY <1>0, <1>d, Busy
<1>p. PICK p \in Place : p = overlay[d] BY <1>0, <1>d, WritesTo
<1>c. PICK c \in 0..Blocks[i] - 1 : c = busy.block BY <1>0, <1>d, <1>i, Busy
<1>v. PICK v \in Value : v = busy.value BY <1>0, Busy
<1>m. PICK m \in Nat \ {0} : m = span[d] BY <1>0, <1>d, WritesTo
<1>n. Blocks[i] \in Nat \ {0} /\ c \in Nat /\ c < Blocks[i] BY <1>c, Sizes
<1>1. PICK j \in Image : /\ store[p] \in OverlayOf(j) /\ HeaderSize(d) = Blocks[j]
                         /\ i \in Alone => i = j /\ m = Blocks[j]
  BY <1>0, <1>d, <1>i, <1>p, <1>m, WritesTo
<1>2. CASE /\ busy' = None
           /\ store' = [store EXCEPT ![p] = WithBlock(@, m, c, v)]
           /\ UNCHANGED <<on, original, file, overlay, answer>>
  <2>1. /\ store'[p] = WithBlock(store[p], m, c, v)
        /\ \A q \in Place : q # p => store'[q] = store[q]
    BY <1>2 DEF JInv, TypeOK
  <2>2. DOMAIN store[p].bits = 0..Size(Blocks[j]) - 1 BY <1>1 DEF OverlayOf
  <2>4. /\ store'[p].src = store[p].src /\ DOMAIN store'[p].bits = DOMAIN store[p].bits
        /\ \A x \in DOMAIN store[p].bits :
              (\A l \in 0..BlockBits - 1 : x # DataPos(m, c, l))
              => store'[p].bits[x] = store[p].bits[x]
        /\ \A l \in 0..BlockBits - 1 :
              DataPos(m, c, l) \in DOMAIN store[p].bits
              => store'[p].bits[DataPos(m, c, l)] = v[l]
    <3>1. PICK s \in OverlayOf(j) : s = store[p] BY <1>1
    <3> DEFINE t == WithBlock(s, m, c, v)
    <3>3. store'[p] = t BY <2>1, <3>1
    <3>4. c \in Nat BY <1>n
    <3>5. \A x \in DOMAIN s.bits :
             (\A l \in 0..BlockBits - 1 : x # DataPos(m, c, l)) => t.bits[x] = s.bits[x]
      BY <3>4, BlockWrites
    <3>6. \A l \in 0..BlockBits - 1 :
             DataPos(m, c, l) \in DOMAIN s.bits => t.bits[DataPos(m, c, l)] = v[l]
      BY <3>4, BlockWrites
    <3>7. t \in OverlayOf(j) /\ t.src = s.src BY <3>4, BlockWrites
    <3> HIDE DEF t
    <3>8. DOMAIN t.bits = DOMAIN s.bits BY <3>7 DEF OverlayOf
    <3>9. store'[p].bits = t.bits /\ store[p].bits = s.bits BY <3>1, <3>3
    <3> QED BY <3>1, <3>3, <3>5, <3>6, <3>7, <3>8, <3>9
  <2>5. ASSUME i \in Alone, NEW b \in Sound(Blocks[i])
        PROVE  /\ FlagPos(b) \in DOMAIN store[p].bits
               /\ \A l \in 0..BlockBits - 1 : DataPos(Blocks[i], b, l) \in DOMAIN store[p].bits
               /\ \A l \in 0..BlockBits - 1 : FlagPos(b) # DataPos(Blocks[i], c, l)
    <3>1. i = j BY <1>1, <2>5
    <3>2. b \in Nat /\ b < Blocks[i] BY <2>5, <1>n DEF Sound
    <3>3. Size(Blocks[i]) \in Nat /\ Blocks[i] <= Size(Blocks[i]) BY <1>n, Layout
    <3>4. FlagPos(b) \in DOMAIN store[p].bits
      BY <1>n, <2>2, <3>1, <3>2, <3>3 DEF FlagPos
    <3>5. ASSUME NEW l \in 0..BlockBits - 1
          PROVE  DataPos(Blocks[i], b, l) \in DOMAIN store[p].bits
      <4>1. DataPos(Blocks[i], b, l) \in Nat /\ DataPos(Blocks[i], b, l) <= Size(Blocks[i]) - 1
        BY <1>n, <3>2, Layout
      <4> QED BY <2>2, <3>1, <3>3, <4>1
    <3>6. ASSUME NEW l \in 0..BlockBits - 1
          PROVE  FlagPos(b) # DataPos(Blocks[i], c, l)
      <4>1. CASE b = c
        <5>1. b # c + 1 /\ c + 1 \in Nat BY <4>1, <1>n
        <5> QED BY <1>n, <2>5, <4>1, <5>1, SoundApart
      <4>2. CASE b # c BY <1>n, <2>5, <4>2, SoundApart
      <4> QED BY <4>1, <4>2
    <3> QED BY <3>4, <3>5, <3>6
  <2>6. ASSUME i \in Alone, i \in Overlaid, NEW b \in Sound(Blocks[i]), b # c
        PROVE  /\ store'[p].bits[FlagPos(b)] = store[p].bits[FlagPos(b)]
               /\ \A n \in 0..BlockBits - 1 : store'[p].bits[DataPos(Blocks[i], b, n)]
                                            = store[p].bits[DataPos(Blocks[i], b, n)]
    <3>1. i = j /\ m = Blocks[i] BY <1>1, <2>6
    <3>2. store'[p].bits[FlagPos(b)] = store[p].bits[FlagPos(b)]
      BY <2>4, <2>5, <2>6, <3>1
    <3>3. ASSUME NEW n \in 0..BlockBits - 1
          PROVE  store'[p].bits[DataPos(Blocks[i], b, n)] = store[p].bits[DataPos(Blocks[i], b, n)]
      <4>1. b \in Nat BY <2>6, <1>n DEF Sound
      <4>2. \A l \in 0..BlockBits - 1 : DataPos(Blocks[i], b, n) # DataPos(Blocks[i], c, l)
        BY <1>n, <2>6, <4>1, BlocksApart
      <4> QED BY <2>4, <2>5, <2>6, <3>1, <4>2
    <3> QED BY <3>2, <3>3
  <2>7. /\ UNCHANGED <<Base, Changes, Said>>
        /\ \A k \in Kept : k # <<i, c>> => UNCHANGED <<Holds(k), Lasts(k)>>
        /\ \A k \in Kept : k[1] = i => IF Changes[i] = "file" THEN Lasts(k)' = Holds(k)'
                                       ELSE Lasts(k)' = Lasts(k)
        /\ i \in Alone => Backing(i) = p /\ Backing(i)' = p /\ i \in Overlaid
    <3>1. i \in Alone /\ i \in Overlaid =>
             \A b \in Sound(Blocks[i]) : b # busy.block =>
                /\ store'[p].bits[FlagPos(b)] = store[p].bits[FlagPos(b)]
                /\ \A n \in 0..BlockBits - 1 : store'[p].bits[DataPos(Blocks[i], b, n)]
                                             = store[p].bits[DataPos(Blocks[i], b, n)]
      BY <1>c, <2>6
    <3>2. UNCHANGED <<on, original, file, overlay, answer>> BY <1>2
    <3>3. store'[p].src = store[p].src /\ DOMAIN store'[p].bits = DOMAIN store[p].bits BY <2>4
    <3>4. \A q \in Place : q # p => store'[q] = store[q] BY <2>1
    <3> QED BY <1>0, <1>d, <1>i, <1>p, <1>c, <3>1, <3>2, <3>3, <3>4, BitsMap
  <2>8. /\ Underway = IF <<i, c>> \in Kept THEN <<<<i, c>>, v>> ELSE <<>>
        /\ Underway' = <<>>
    BY <1>0, <1>2, <1>d, <1>i, <1>c, <1>v DEF Underway
  <2>9. CASE <<i, c>> \in Kept
    <3>1. i \in Alone /\ i = j /\ m = Blocks[i] /\ c \in Sound(Blocks[i])
      BY <2>7, <2>9, <1>1, KeptBlocks
    <3>2. store[p].bits[FlagPos(c)] = 1
      BY <1>0, <1>d, <1>i, <1>p, <1>c, <3>1 DEF JInv, Flagged
    <3>3. store'[p].bits[FlagPos(c)] = 1 BY <2>4, <2>5, <3>1, <3>2
    <3>4. BlockOf(store'[p], Blocks[i], c) = v
      <4>1. \A l \in 0..BlockBits - 1 : /\ DataPos(Blocks[i], c, l) \in DOMAIN store'[p].bits
                                        /\ store'[p].bits[DataPos(Blocks[i], c, l)] = v[l]
        BY <2>4, <2>5, <3>1
      <4>2. v = [l \in 0..BlockBits - 1 |-> v[l]] BY DEF Value
      <4> QED BY <4>1, <4>2 DEF BlockOf
    <3>5. Backing(i)' = p /\ p # None BY <2>7, <3>1, NoneIsNothing
    <3>6. Holds(<<i, c>>)' = v
      BY <3>3, <3>4, <3>5 DEF Holds, HeldAt, BlockOf, FlagPos, DataPos, DataStart, Words
    <3>7. Became(<<i, c>>, v) BY <2>7, <2>9, <3>6, OneBecame
    <3>8. Underway # <<>> /\ Underway[1] = <<i, c>> /\ Underway[2] = v BY <2>8, <2>9
    <3> QED BY <1>2, <2>7, <2>8, <3>7, <3>8, DeviceEnds
  <2>10. CASE <<i, c>> \notin Kept
    <3>1. Content' = Content /\ Lasting' = Lasting BY <2>7, <2>10 DEF Content, Lasting
    <3> QED BY <1>2, <2>7, <2>8, <2>10, <3>1, DeviceStutters DEF Shown
  <2> QED BY <2>9, <2>10
<1> QED BY <1>h, <1>2, <1>d, <1>p, <1>c, <1>v, <1>m DEF CopyBlock

LEMMA InitMaps == Init => Device!Init
<1> SUFFICES ASSUME Init PROVE Device!Init OBVIOUS
<1>1. JInv BY JInit
<1>2. /\ on = FALSE /\ busy = None /\ answer = NoAnswer
      /\ \A d \in Drive : overlay[d] = None /\ file[d] = None
      /\ \A p \in Place : store[p].src = None
  BY DEF Init, NoStore
<1>3. \A i \in Image : Backing(i) = Saved(i) /\ Mode(i) = "file" BY <1>2, AllSaved
<1>4. \A k \in Kept : Holds(k) = Original(k) /\ Lasts(k) = Original(k)
  <2> SUFFICES ASSUME NEW k \in Kept PROVE Holds(k) = Original(k) /\ Lasts(k) = Original(k)
    OBVIOUS
  <2>1. k[1] \in Image BY KeptBlocks
  <2>2. Stem[k[1]] \in Place BY <2>1 DEF Place, Stems
  <2>3. store[Stem[k[1]]].src # Source(k[1])
    BY <1>1, <1>2, <2>1, <2>2, SourceIsSome DEF JInv
  <2>4. Saved(k[1]) = None BY <2>3 DEF Saved
  <2> QED BY <1>3, <2>1, <2>4 DEF Holds, Lasts, HeldAt
<1>5. Base \in [Kept -> Value] /\ Content = Base /\ Lasting = Base
  BY <1>1, <1>4, HoldsFits DEF Base, Content, Lasting
<1>6. Changes = [i \in {k[1] : k \in Kept} |-> "file"] BY <1>3, KeptBlocks DEF Changes
<1>7. Underway = <<>> /\ Said = <<>> BY <1>2 DEF Underway, Said
<1> QED BY <1>2, <1>5, <1>6, <1>7
        DEF Device!Init, Device!InFiles, Device!Images, Content, Lasting, Lasts, Base,
            Changes, Mode, Underway, Said

LEMMA NextMaps ==
    ASSUME JInv, JInv', [Next]_vars
    PROVE  [Device!Next]_(Device!vars)
<1> DEFINE Maps == Device!Next \/ UNCHANGED Device!vars
<1> SUFFICES Maps OBVIOUS
<1>1. CASE UNCHANGED vars
  <2>1. UNCHANGED Shown BY <1>1, QuietMaps DEF vars
  <2>2. UNCHANGED <<on, Underway, Said>> BY <1>1 DEF vars, Underway, Said
  <2> QED BY <2>1, <2>2, DeviceStutters
<1>2. ASSUME NEW d \in Drive, NEW i \in Image, Load(d, i) PROVE Maps
  BY <1>2, LoadMaps
<1>3. ASSUME NEW d \in Drive, Eject(d) PROVE Maps BY <1>3, EjectMaps
<1>4. CASE Return BY <1>4, ReturnMaps
<1>5. 1..DriveCount - 1 \subseteq Drive BY DEF Drive, DriveCount
<1>6. ASSUME NEW d \in Drive, HdRead(d) PROVE Maps BY <1>6, ReadMaps DEF HdRead
<1>7. ASSUME NEW u \in Unit, SpRead(u) PROVE Maps
  BY <1>5, <1>7, ReadMaps, RefuseMaps DEF SpRead
<1>8. ASSUME NEW d \in Drive, HdWrite(d) PROVE Maps BY <1>8, WriteMaps DEF HdWrite
<1>9. ASSUME NEW u \in Unit, SpWrite(u) PROVE Maps
  <2>1. Idle /\ on BY <1>9 DEF SpWrite, Idle
  <2> QED BY <1>5, <1>9, <2>1, WriteMaps, RefuseMaps, HaltMaps DEF SpWrite
<1>10. CASE OpenOverlay BY <1>10, OpenMaps
<1>11. CASE WriteHeader BY <1>11, HeaderMaps
<1>12. CASE SetFlag BY <1>12, FlagMaps
<1>13. CASE CopyBlock BY <1>13, CopyMaps
<1>14. CASE Start BY <1>14, StartMaps
<1>15. CASE Stop BY <1>15, HaltMaps DEF Stop
<1>16. ASSUME NEW i \in Image, Replace(i) PROVE Maps BY <1>16, ReplaceMaps
<1> HIDE DEF Maps
<1> QED BY <1>1, <1>2, <1>3, <1>4, <1>6, <1>7, <1>8, <1>9, <1>10, <1>11, <1>12,
           <1>13, <1>14, <1>15, <1>16 DEF Next

(* The card and its overlays implement BlockDevice, for every set of       *)
(* images, their names, sizes and contents, and every choice of what is    *)
(* loaded where: a sound block of an image that is alone in its drive, and *)
(* the only one of its name in any drive, reads as it was last written,    *)
(* through ejects, reloads, kills at any point of a write, restarts and    *)
(* replacements, and where its overlay could not be opened or made, as     *)
(* BlockDevice says for that.                                              *)
THEOREM BlocksAreKept == Spec => KeepsBlocks
<1>1. Spec => []JInv BY JInit, JStep, PTL DEF Spec
<1>2. JInv /\ JInv' /\ [Next]_vars => [Device!Next]_(Device!vars) BY NextMaps
<1> QED BY <1>1, <1>2, InitMaps, PTL DEF Spec, KeepsBlocks, Device!Spec
=============================================================================
