------------------------------- MODULE Disk2 -------------------------------
(***************************************************************************)
(* The Disk II card: its two drives, the motor and its two cycle timers,   *)
(* the writing of bits to the tracks, and what becomes of them: which      *)
(* tracks are dirty, when they are saved to the image file, what loading,  *)
(* ejecting and resetting do.                                              *)
(*                                                                         *)
(* Steps are soft switch accesses, timer callbacks, resets and the slot    *)
(* commands of the UI.  A track holds one of a few contents; the sequencer *)
(* is reduced to its two effects here, loading the data register and       *)
(* writing a bit.  A save of a sector image writes the sectors it finds:   *)
(* a track is followed by one of its sectors.                              *)
(***************************************************************************)
EXTENDS Naturals

CONSTANTS
  Tracks,      \* the tracks of a floppy, short of the noise track
  Data,        \* what a track can hold
  Noise,       \* MII_FLOPPY_NOISE_TRACK, and what a virgin track holds
  Images,      \* Images[d]: the image files the user puts in drive d
  ReadOnly,    \* the image files that can only be opened read only
  Sectored,    \* those saved sector by sector: NIB, DSK, PO and DO
  Unsupported, \* those no floppy format is known for, a .2mg for one
  NoFile,      \* an empty drive
  Second,      \* one second, in units of timer_off
  MaxOff,      \* bound: how far the program lets timer_off accumulate
  Leaves,      \* does the program leave the card alone at some point?
  Shell,       \* does the user type the d2 commands at the mish shell?
  Typed        \* bound: the protections typed with "d2 wp"

Drive == {0, 1}
\* MII_FLOPPY_WP_*: the bits of write_protected.
Protection == {"MANUAL", "RO_FORMAT", "RO_FILE"}
File == Images[0] \cup Images[1]

ASSUME ImagesAssumption == DOMAIN Images = Drive /\ Images[0] \cap Images[1] = {}
ASSUME FileAssumption == ReadOnly \subseteq File /\ NoFile \notin File
ASSUME FormatAssumption ==
  Sectored \subseteq File /\ Unsupported \subseteq File \ Sectored
ASSUME NoiseAssumption == Noise \notin Tracks /\ Noise \notin Data
ASSUME SecondAssumption == Second \in Nat \ {0} /\ MaxOff \in Nat
ASSUME TypedAssumption == Typed \subseteq SUBSET Protection
ASSUME ChoiceAssumption == Leaves \in BOOLEAN /\ Shell \in BOOLEAN

VARIABLES
  selected,   \* c->selected
  motor,      \* floppy[d].motor
  timer_off,  \* the motor off timer: cycles left, 0 when stopped
  timer_lss,  \* is the sequencer's timer armed?
  lss_mode,   \* the Q6 and Q7 bits of c->lss_mode that are set
  head,       \* the track under the head: track_id[qtrack]
  tracks,     \* floppy[d].track_data
  dirty,      \* the tracks whose dirty bit is set
  unsaved,    \* seed_dirty # seed_saved (the seeds have 32 bits: a wrap to
              \* equality is left out)
  wp,         \* floppy[d].write_protected
  file,       \* drive[d].file
  disk,       \* contents of the image files
  strayed,    \* history: drives deselected with dirty tracks, not saved since
  left,       \* history: tracks whose mark a save cleared without writing them
  quiet       \* history: the program leaves the card alone from now on

vars == <<selected, motor, timer_off, timer_lss, lss_mode, head, tracks, dirty,
          unsaved, wp, file, disk, strayed, left, quiet>>

mechanics == <<selected, motor, timer_off, timer_lss, lss_mode, head>>
storage == <<tracks, dirty, unsaved, wp, file, disk, strayed, left>>

TypeOK ==
  /\ selected \in Drive
  /\ motor \in [Drive -> BOOLEAN]
  /\ timer_off \in 0 .. MaxOff
  /\ timer_lss \in BOOLEAN
  /\ lss_mode \subseteq {"Q6", "Q7"}
  /\ head \in [Drive -> Tracks \cup {Noise}]
  /\ tracks \in [Drive -> [Tracks -> Data \cup {Noise}]]
  /\ dirty \in [Drive -> SUBSET Tracks]
  /\ unsaved \in [Drive -> BOOLEAN]
  /\ wp \in [Drive -> SUBSET Protection]
  /\ file \in [Drive -> File \cup {NoFile}]
  /\ \A d \in Drive : file[d] \in Images[d] \cup {NoFile}
  /\ disk \in [File -> [Tracks -> Data \cup {Noise}]]
  /\ strayed \subseteq Drive
  /\ left \in [Drive -> SUBSET Tracks]
  /\ quiet \in BOOLEAN

\* The tracks of a floppy nothing was loaded on.
Virgin == [t \in Tracks |-> Noise]

\* The power is on, the drives are empty.
Init ==
  /\ selected = 0
  /\ motor = [d \in Drive |-> FALSE]
  /\ timer_off = 0
  /\ timer_lss = FALSE
  /\ lss_mode = {}
  /\ head \in [Drive -> Tracks \cup {Noise}]
  /\ tracks = [d \in Drive |-> Virgin]
  /\ dirty = [d \in Drive |-> {}]
  /\ unsaved = [d \in Drive |-> FALSE]
  /\ wp = [d \in Drive |-> {}]
  /\ file = [d \in Drive |-> NoFile]
  /\ \E x \in Data : disk = [i \in File |-> [t \in Tracks |-> x]]
  /\ strayed = {}
  /\ left = [d \in Drive |-> {}]
  /\ quiet = FALSE

-----------------------------------------------------------------------------
\* Mutation of Saves: any protection stops the save, not the file's alone.
SavesUnprotected(d) == file[d] # NoFile /\ unsaved[d] /\ wp[d] = {}

\* mii_floppy_update_tracks, when the motor off callback calls it: the drive
\* has a file, there is something unsaved and the file can be written.
Saves(d) ==
  /\ file[d] # NoFile
  /\ unsaved[d]
  /\ wp[d] \cap {"RO_FORMAT", "RO_FILE"} = {}

\* The dirty tracks a save of d may pass over.  mii_floppy_write_track does
\* nothing to a track without a map, to a sector it does not find again, or
\* to one that does not decode; a format that is not known is not written at
\* all; a WOZ track is written whole.
Skips(d) ==
  IF file[d] \in Unsupported THEN {dirty[d]}
  ELSE IF file[d] \in Sectored THEN SUBSET dirty[d]
  ELSE {{}}

\* Mutation of Stopped: a drive with something unsaved is kept spinning.
StoppedOnceSaved(ds) ==
  [d \in Drive |-> (d \notin ds \/ unsaved[d]) /\ motor[d]]

\* The motors, with those of the drives in ds off.
Stopped(ds) == [d \in Drive |-> d \notin ds /\ motor[d]]

\* _mii_floppy_motor_off_cb, for the drives in ds: save and stop.  The dirty
\* bits go whether the tracks were written or not.
MotorOffCb(ds) ==
  LET saved == {d \in ds : Saves(d)}
  IN \E out \in [Drive -> SUBSET Tracks] :
     /\ \A d \in Drive : IF d \in saved THEN out[d] \in Skips(d)
                                       ELSE out[d] = {}
     /\ disk' = [i \in File |->
                   IF \E d \in saved : file[d] = i
                     THEN LET d == CHOOSE d \in saved : file[d] = i
                          IN [t \in Tracks |-> IF t \in dirty[d] \ out[d]
                                                 THEN tracks[d][t]
                                                 ELSE disk[i][t]]
                     ELSE disk[i]]
     /\ dirty' = [d \in Drive |-> IF d \in saved THEN {} ELSE dirty[d]]
     /\ left' = [d \in Drive |-> IF d \in saved
                                   THEN (left[d] \ dirty[d]) \cup out[d]
                                   ELSE left[d]]
     /\ unsaved' = [d \in Drive |-> d \notin saved /\ unsaved[d]]
     /\ motor' = Stopped(ds)
     /\ strayed' = strayed \ saved

\* C089: the motor is on, the sequencer runs, a pending stop is off.
MotorOn ==
  /\ ~quiet
  /\ timer_off' = 0
  /\ timer_lss' = TRUE
  /\ motor' = [motor EXCEPT ![selected] = TRUE]
  /\ UNCHANGED <<selected, lss_mode, head, storage, quiet>>

\* C088: a second more on the timer.
MotorOff ==
  /\ ~quiet
  /\ timer_off + Second <= MaxOff
  /\ timer_off' = timer_off + Second
  /\ UNCHANGED <<selected, motor, timer_lss, lss_mode, head, storage, quiet>>

\* Mutation of Moved: the drive deselected is left spinning.
MovedOn(on) == [motor EXCEPT ![on] = motor[selected]]

\* The motors, once the drive on is the selected one.
Moved(on) == [d \in Drive |-> d = on /\ motor[selected]]

\* C08A and C08B: the motor goes with the selection.
SelectDrive(on) ==
  /\ ~quiet
  /\ on # selected
  /\ selected' = on
  /\ motor' = Moved(on)
  /\ strayed' = IF dirty[selected] # {} THEN strayed \cup {selected}
                                        ELSE strayed
  /\ UNCHANGED <<timer_off, timer_lss, lss_mode, head, tracks, dirty, unsaved,
                 wp, file, disk, left, quiet>>

\* C08C to C08F.
SetMode(mode) ==
  /\ ~quiet
  /\ \E bit \in {"Q6", "Q7"} : mode \ {bit} = lss_mode \ {bit}
  /\ lss_mode' = mode
  /\ UNCHANGED <<selected, motor, timer_off, timer_lss, head, storage, quiet>>

\* C080 to C087: the head of the selected drive moves.
SwitchTrack(to) ==
  /\ ~quiet
  /\ head' = [head EXCEPT ![selected] = to]
  /\ UNCHANGED <<selected, motor, timer_off, timer_lss, lss_mode, storage,
                 quiet>>

-----------------------------------------------------------------------------
\* Cycles pass on timer_off.
Tick ==
  /\ timer_off > 0
  /\ timer_off' = timer_off - 1
  /\ IF timer_off = 1
       THEN MotorOffCb({selected})
       ELSE UNCHANGED <<disk, dirty, unsaved, motor, strayed, left>>
  /\ UNCHANGED <<selected, timer_lss, lss_mode, head, tracks, wp, file, quiet>>

\* The sequencer's timer finds the motor off, and is not armed again.
LssStops ==
  /\ timer_lss
  /\ ~motor[selected]
  /\ timer_lss' = FALSE
  /\ UNCHANGED <<selected, motor, timer_off, lss_mode, head, storage, quiet>>

LssRuns == timer_lss /\ motor[selected]

\* LD: the data register is loaded with the byte to write.
LssLoad ==
  /\ LssRuns
  /\ lss_mode = {"Q6", "Q7"}
  /\ unsaved' = [unsaved EXCEPT ![selected] = TRUE]
  /\ UNCHANGED <<mechanics, tracks, dirty, wp, file, disk, strayed, left, quiet>>

\* Mutation of Marked: only the first track written since a save is marked.
MarkedFirst(d, t) == IF unsaved[d] THEN dirty[d] ELSE dirty[d] \cup {t}

Marked(d, t) == dirty[d] \cup {t}

\* Mutation of Counted: only LD counts.
CountedByLoad(d, t) == unsaved[d]

Counted(d, t) == unsaved[d] \/ t \notin dirty[d]

\* A bit is written; the first makes the track dirty.
LssWrite(x) ==
  LET d == selected
      t == head[d]
  IN /\ LssRuns
     /\ "Q7" \in lss_mode
     /\ t \in Tracks
     /\ tracks' = [tracks EXCEPT ![d][t] = x]
     /\ dirty' = [dirty EXCEPT ![d] = Marked(d, t)]
     /\ unsaved' = [unsaved EXCEPT ![d] = Counted(d, t)]
     /\ UNCHANGED <<mechanics, wp, file, disk, strayed, left, quiet>>

-----------------------------------------------------------------------------
\* _mii_disk2_reset: both drives, 1 then 0, are made the selected one and
\* stopped.  The timers and lss_mode are left.
Reset ==
  /\ MotorOffCb(Drive)
  /\ selected' = 0
  /\ UNCHANGED <<timer_off, timer_lss, lss_mode, head, tracks, wp, file, quiet>>

\* MII_SLOT_DRIVE_LOAD: another image in the drive, or none.  What the floppy
\* held is dropped; RO_FILE is only looked at when there is a file.  An image
\* of no known format is in the drive, but nothing of it on the floppy.
DriveLoad(d, i) ==
  /\ i # file[d] \/ i = NoFile
  /\ i \in Images[d] \cup {NoFile}
  /\ motor' = [motor EXCEPT ![d] = FALSE]
  /\ \E t \in Tracks : head' = [head EXCEPT ![d] = t]
  /\ tracks' = [tracks EXCEPT ![d] =
                  IF i \in Unsupported \cup {NoFile} THEN Virgin ELSE disk[i]]
  /\ dirty' = [dirty EXCEPT ![d] = {}]
  /\ unsaved' = [unsaved EXCEPT ![d] = FALSE]
  /\ wp' = [wp EXCEPT ![d] =
              IF i = NoFile THEN @ \ {"MANUAL"}
              ELSE (@ \cap {"RO_FORMAT"})
                     \cup (IF i \in ReadOnly THEN {"RO_FILE"} ELSE {})]
  /\ file' = [file EXCEPT ![d] = i]
  /\ strayed' = strayed \ {d}
  /\ left' = [left EXCEPT ![d] = IF i \in Unsupported THEN Tracks ELSE {}]
  /\ UNCHANGED <<selected, timer_off, timer_lss, lss_mode, disk, quiet>>

\* MII_SLOT_DRIVE_WP.
DriveWp(d, on) ==
  /\ wp' = [wp EXCEPT ![d] = IF on THEN @ \cup {"MANUAL"} ELSE @ \ {"MANUAL"}]
  /\ UNCHANGED <<mechanics, tracks, dirty, unsaved, file, disk, strayed, left, quiet>>

\* The "d2 dirty" command of the shell gives both seeds one new value.
ShellDirty(d) ==
  /\ Shell
  /\ unsaved' = [unsaved EXCEPT ![d] = FALSE]
  /\ UNCHANGED <<mechanics, tracks, dirty, wp, file, disk, strayed, left, quiet>>

\* "d2 resync" turns the tracks it finds a sector zero on, away from their
\* start: it marks them dirty and counts no seed.  The bits are the same ones.
ShellResync(d) ==
  /\ Shell
  /\ \E turned \in SUBSET {t \in Tracks : tracks[d][t] # Noise} :
       dirty' = [dirty EXCEPT ![d] = @ \cup turned]
  /\ UNCHANGED <<mechanics, tracks, unsaved, wp, file, disk, strayed, left,
                 quiet>>

\* "d2 wp" assigns all the bits.  Bound: RO_FILE is left on an image that can
\* only be read (saving one without it writes to a read-only mapping, which
\* ends the process).
ShellWp(d, bits) ==
  /\ Shell
  /\ file[d] \in ReadOnly => "RO_FILE" \in bits
  /\ wp' = [wp EXCEPT ![d] = bits]
  /\ UNCHANGED <<mechanics, tracks, dirty, unsaved, file, disk, strayed, left,
                 quiet>>

\* The program is done with the drives.
Quiesce ==
  /\ Leaves /\ ~quiet
  /\ quiet' = TRUE
  /\ UNCHANGED <<mechanics, storage>>

Access ==
  \/ MotorOn
  \/ MotorOff
  \/ \E on \in Drive : SelectDrive(on)
  \/ \E mode \in SUBSET {"Q6", "Q7"} : SetMode(mode)
  \/ \E to \in Tracks \cup {Noise} : SwitchTrack(to)

Timers ==
  \/ Tick
  \/ LssStops
  \/ LssLoad
  \/ \E x \in Data : LssWrite(x)

User ==
  \E d \in Drive :
    \/ \E i \in File \cup {NoFile} : DriveLoad(d, i)
    \/ \E on \in BOOLEAN : DriveWp(d, on)
    \/ ShellDirty(d)
    \/ ShellResync(d)
    \/ \E bits \in Typed : ShellWp(d, bits)

Next == Access \/ Timers \/ User \/ Reset \/ Quiesce

\* The CPU runs, so cycles pass.
Spec == Init /\ [][Next]_vars /\ WF_vars(Tick)

-----------------------------------------------------------------------------
(***************************************************************************)
(* One motor at a time, the selected drive's, and while it spins the       *)
(* sequencer's timer is armed: no sequence of selections, stops, loads and *)
(* resets leaves a drive spinning that no tick of the sequencer serves.    *)
(***************************************************************************)
SpinningIsServed ==
  \A d \in Drive : motor[d] => d = selected /\ timer_lss

(***************************************************************************)
(* A track that differs from its image file has its dirty bit, or lost it  *)
(* to a save that passed the track over (or the file's format is not       *)
(* known): no written track is forgotten otherwise, and a load, a reset or *)
(* the other drive's save leaves none behind unnoticed.                    *)
(***************************************************************************)
CleanIsSaved ==
  \A d \in Drive : file[d] # NoFile =>
    \A t \in Tracks \ (dirty[d] \cup left[d]) :
      tracks[d][t] = disk[file[d]][t]

(***************************************************************************)
(* What the comment on seed_dirty in mii_floppy.h says: it is incremented  *)
(* when a track is marked dirty, to decide whether to save.  So a drive    *)
(* with a dirty track has something unsaved.  It is so of the card's own   *)
(* writes: the shell's "d2 dirty" takes the count back, its "d2 resync"    *)
(* marks without counting.                                                 *)
(***************************************************************************)
DirtyIsUnsaved == ~Shell => \A d \in Drive : dirty[d] # {} => unsaved[d]

(***************************************************************************)
(* Once a drive whose file can be written is still, the file has what was  *)
(* written on the floppy, but for what a save passed over, and unless the  *)
(* program selected the other drive before the motor stopped.  With no     *)
(* shell command given, there is no third way for data to stay out of it.  *)
(***************************************************************************)
StoppedIsSaved ==
  ~Shell =>
    \A d \in Drive \ strayed :
      ~motor[d] /\ file[d] # NoFile /\ "RO_FILE" \notin wp[d] =>
        \A t \in Tracks \ left[d] : tracks[d][t] = disk[file[d]][t]

(***************************************************************************)
(* Once the program has switched the motor off and leaves the card alone,  *)
(* the motor stops.                                                        *)
(***************************************************************************)
MotorStops == quiet /\ timer_off > 0 ~> \A d \in Drive : ~motor[d]

=============================================================================
