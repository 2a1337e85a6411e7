---------------------------- MODULE MCDiskImages ----------------------------
(* A hard disk of three blocks alone in drive 1; in drive 2 a disk of one  *)
(* block or a floppy of two, which gets no overlay of its own.  Bytes of   *)
(* two bits and words of three make the hard disk's bitmap run one flag    *)
(* into its first block.  Programs write ones: over the old edition the    *)
(* value that is there, over the new one another.                          *)
EXTENDS DiskImages, TLC

CONSTANTS Hard, Small, Floppy, Old, New

MCImage == {Hard, Small, Floppy}
MCEdition == [i \in MCImage |-> IF i = Hard THEN {Old, New} ELSE {Old}]
MCBlocks == (Hard :> 3) @@ (Small :> 1) @@ (Floppy :> 2)
MCStem == [i \in MCImage |-> i]
MCLoads == {<<1, Hard>>, <<2, Small>>, <<2, Floppy>>}
MCValue(x) == 0 :> x
MCData == [i \in MCImage |-> [e \in {Old, New} |-> [b \in BlockNo |->
              IF e = Old THEN MCValue(1) ELSE MCValue(0)]]]
MCWritten == {MCValue(1)}
MCOverlaid == {Hard, Small}

(* A drive's overlay is the one of the image that is in it.                *)
OverlayIsOfImage ==
    \A d \in Drive : file[d] # None /\ overlay[d] # None /\ ~At("header")
                     => store[overlay[d]].src = Source(file[d])

AllBlocks == {<<Hard, b>> : b \in 0..Blocks[Hard] - 1}
AnyDevice == INSTANCE BlockDevice WITH
    Kept <- AllBlocks,
    content <- [k \in AllBlocks |-> Holds(k)],
    saved <- [k \in AllBlocks |-> HeldAt(Saved(k[1]), k)],
    base <- [k \in AllBlocks |-> Original(k)],
    changes <- [i \in {Hard} |->
                   IF Backing(i) \in Drive THEN "memory"
                   ELSE IF Backing(i) = None /\ Saved(i) # None THEN "unused"
                   ELSE "file"],
    writing <- IF busy # None /\ file[busy.drive] = Hard
               THEN <<<<Hard, busy.block>>, busy.value>> ELSE <<>>,
    answer <- IF answer \in {NoAnswer, Refused} THEN <<>> ELSE answer

(* Every block of an image alone in its drive, sound or not, is kept.      *)
KeepsAllBlocks == AnyDevice!Spec
=============================================================================
