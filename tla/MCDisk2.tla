------------------------------ MODULE MCDisk2 ------------------------------
(***************************************************************************)
(* The Disk II card with floppies of one track.  In MCImages, drive 0 has  *)
(* a sector image that can be written and one that cannot, drive 1 a WOZ   *)
(* image, written by the track, and one of no known format.                *)
(***************************************************************************)
EXTENDS Disk2, TLC

CONSTANTS t0, x, y, noise, games, demo, work, odd, none

OneTrack == {t0}
MCData == {x, y}
OneContent == {x}
MCImages == [d \in {0, 1} |-> IF d = 0 THEN {games, demo} ELSE {work, odd}]
NoImages == [d \in {0, 1} |-> {}]
MCReadOnly == {demo}
MCSectored == {games, demo}
MCUnsupported == {odd}
NoSuchFile == {}
NoneTyped == {}
MCTyped == {{}, {"RO_FORMAT"}}

Symmetry == Permutations(MCData)
=============================================================================
