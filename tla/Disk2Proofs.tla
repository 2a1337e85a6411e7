---------------------------- MODULE Disk2Proofs ----------------------------
(***************************************************************************)
(* What holds of the Disk II for any tracks, contents and images: no drive *)
(* spins unserved, no written track is forgotten unless a save passed it   *)
(* over, and a still drive is on its file unless the program left it for   *)
(* the other before it stopped.                                            *)
(*                                                                         *)
(* TypeOK and SpinningIsServed are inductive.  CleanIsSaved is with them,  *)
(* because the two drives' images are apart: what one drive saves is not   *)
(* the other's file.  StoppedIsSaved is CleanIsSaved with StoppedIsClean,  *)
(* that a drive which stopped has no mark left; this needs DirtyIsUnsaved, *)
(* for a dirty drive to be saved when it stops, and SpinningIsServed, for  *)
(* a drive that is not selected to have been still already.  The shell's   *)
(* "d2 dirty" and "d2 resync" break DirtyIsUnsaved.                        *)
(***************************************************************************)
EXTENDS Disk2, TLAPS

IInv == TypeOK /\ SpinningIsServed /\ CleanIsSaved

\* A still drive whose file can be written has no dirty track, unless the
\* program deselected it.
StoppedIsClean ==
  ~Shell =>
    \A d \in Drive \ strayed :
      ~motor[d] /\ file[d] # NoFile /\ "RO_FILE" \notin wp[d] => dirty[d] = {}

\* Only the shell sets RO_FORMAT.
NoFormatBit == ~Shell => \A d \in Drive : "RO_FORMAT" \notin wp[d]

SInv == IInv /\ DirtyIsUnsaved /\ NoFormatBit /\ StoppedIsClean

\* No image file is in both drives.
LEMMA FilesApart ==
  ASSUME TypeOK, NEW d \in Drive, NEW e \in Drive, d # e, file[d] # NoFile
  PROVE  file[d] # file[e]
BY ImagesAssumption DEF TypeOK, Drive

\* What a stop does to the file of each drive: a saved drive's dirty tracks
\* are on it, short of those passed over, and nothing else is that was not.
LEMMA SavedOnFile ==
  ASSUME TypeOK, NEW ds \in SUBSET Drive, MotorOffCb(ds)
  PROVE  \E out \in [Drive -> SUBSET Tracks] : \A d \in Drive :
           /\ d \in ds /\ Saves(d) =>
                /\ left'[d] = (left[d] \ dirty[d]) \cup out[d]
                /\ file[d] # NoFile =>
                     disk'[file[d]] = [t \in Tracks |-> IF t \in dirty[d] \ out[d]
                                                          THEN tracks[d][t]
                                                          ELSE disk[file[d]][t]]
           /\ ~(d \in ds /\ Saves(d)) =>
                /\ left'[d] = left[d]
                /\ file[d] # NoFile => disk'[file[d]] = disk[file[d]]
<1> DEFINE saved == {e \in ds : Saves(e)}
           onto(i) == CHOOSE e \in saved : file[e] = i
           new(o, i) == [t \in Tracks |-> IF t \in dirty[onto(i)] \ o[onto(i)]
                                            THEN tracks[onto(i)][t]
                                            ELSE disk[i][t]]
<1>1. PICK out \in [Drive -> SUBSET Tracks] :
        /\ disk' = [i \in File |-> IF \E e \in saved : file[e] = i
                                     THEN new(out, i) ELSE disk[i]]
        /\ left' = [d \in Drive |-> IF d \in saved
                                     THEN (left[d] \ dirty[d]) \cup out[d]
                                     ELSE left[d]]
  BY DEF MotorOffCb
<1> SUFFICES ASSUME NEW d \in Drive
             PROVE
           /\ d \in saved =>
                /\ left'[d] = (left[d] \ dirty[d]) \cup out[d]
                /\ file[d] # NoFile =>
                     disk'[file[d]] = [t \in Tracks |-> IF t \in dirty[d] \ out[d]
                                                          THEN tracks[d][t]
                                                          ELSE disk[file[d]][t]]
           /\ d \notin saved =>
                /\ left'[d] = left[d]
                /\ file[d] # NoFile => disk'[file[d]] = disk[file[d]]
  <2> HIDE DEF new
  <2> QED
    OBVIOUS
<1>2. ASSUME file[d] # NoFile PROVE file[d] \in File
  BY <1>2 DEF TypeOK
<1>3. ASSUME file[d] # NoFile, NEW e \in saved, file[e] = file[d] PROVE e = d
  BY <1>3, FilesApart
<1>4. CASE d \in saved
  <2>1. left'[d] = (left[d] \ dirty[d]) \cup out[d]
    BY <1>1, <1>4
  <2>2. ASSUME file[d] # NoFile
        PROVE  disk'[file[d]] = [t \in Tracks |-> IF t \in dirty[d] \ out[d]
                                                    THEN tracks[d][t]
                                                    ELSE disk[file[d]][t]]
    <3>1. onto(file[d]) = d
      BY <1>3, <1>4, <2>2
    <3>2. disk'[file[d]] = new(out, file[d])
      <4> HIDE DEF new
      <4> QED
        BY <1>1, <1>2, <1>4, <2>2
    <3> HIDE DEF onto
    <3> QED
      BY <3>1, <3>2
  <2> QED
    BY <1>4, <2>1, <2>2
<1>5. CASE d \notin saved
  <2> HIDE DEF new
  <2>1. left'[d] = left[d]
    BY <1>1, <1>5
  <2>2. ASSUME file[d] # NoFile PROVE disk'[file[d]] = disk[file[d]]
    <3>1. ~ \E e \in saved : file[e] = file[d]
      BY <1>3, <1>5, <2>2
    <3> QED
      BY <1>1, <1>2, <2>2, <3>1
  <2> QED
    BY <1>5, <2>1, <2>2
<1> QED
  BY <1>4, <1>5

\* A stop keeps the types of what it changes.
LEMMA StopTypes ==
  ASSUME TypeOK, NEW ds \in SUBSET Drive, MotorOffCb(ds)
  PROVE  /\ disk' \in [File -> [Tracks -> Data \cup {Noise}]]
         /\ dirty' \in [Drive -> SUBSET Tracks]
         /\ left' \in [Drive -> SUBSET Tracks]
         /\ unsaved' \in [Drive -> BOOLEAN]
         /\ motor' \in [Drive -> BOOLEAN]
         /\ strayed' \subseteq Drive
<1> DEFINE saved == {e \in ds : Saves(e)}
           onto(i) == CHOOSE e \in saved : file[e] = i
           new(o, i) == [t \in Tracks |-> IF t \in dirty[onto(i)] \ o[onto(i)]
                                            THEN tracks[onto(i)][t]
                                            ELSE disk[i][t]]
<1>1. PICK out \in [Drive -> SUBSET Tracks] :
        /\ disk' = [i \in File |-> IF \E e \in saved : file[e] = i
                                     THEN new(out, i) ELSE disk[i]]
        /\ left' = [d \in Drive |-> IF d \in saved
                                     THEN (left[d] \ dirty[d]) \cup out[d]
                                     ELSE left[d]]
  BY DEF MotorOffCb
<1>2. ASSUME NEW i \in File, \E e \in saved : file[e] = i
      PROVE  new(out, i) \in [Tracks -> Data \cup {Noise}]
  <2>1. onto(i) \in saved
    BY <1>2
  <2>2. onto(i) \in Drive
    BY <2>1
  <2> HIDE DEF onto
  <2> QED
    BY <2>2 DEF TypeOK
<1>3. disk' \in [File -> [Tracks -> Data \cup {Noise}]]
  <2> HIDE DEF new
  <2> QED
    BY <1>1, <1>2 DEF TypeOK
<1>4. dirty' \in [Drive -> SUBSET Tracks] /\ left' \in [Drive -> SUBSET Tracks]
  BY <1>1 DEF MotorOffCb, TypeOK
<1>5. /\ unsaved' \in [Drive -> BOOLEAN]
      /\ motor' \in [Drive -> BOOLEAN]
  BY Zenon DEF MotorOffCb, Stopped
<1>6. strayed' \subseteq Drive
  BY DEF MotorOffCb, TypeOK
<1> QED
  BY <1>3, <1>4, <1>5, <1>6

-----------------------------------------------------------------------------
\* Every step keeps the types.
LEMMA TypePreserved ==
  ASSUME TypeOK, [Next]_vars
  PROVE  TypeOK'
<1> USE DEF TypeOK, vars, mechanics, storage
<1>1. CASE MotorOn
  <2>1. motor' \in [Drive -> BOOLEAN]
    BY <1>1, Zenon DEF MotorOn, Drive
  <2>2. timer_off' \in 0 .. MaxOff
    BY <1>1, SecondAssumption DEF MotorOn
  <2> QED
    BY <1>1, <2>1, <2>2 DEF MotorOn
<1>2. CASE MotorOff
  BY <1>2, SecondAssumption DEF MotorOff
<1>3. ASSUME NEW on \in Drive, SelectDrive(on)
      PROVE  TypeOK'
  BY <1>3, Zenon DEF SelectDrive, Moved, Drive
<1>4. ASSUME NEW mode \in SUBSET {"Q6", "Q7"}, SetMode(mode)
      PROVE  TypeOK'
  BY <1>4 DEF SetMode
<1>5. ASSUME NEW to \in Tracks \cup {Noise}, SwitchTrack(to)
      PROVE  TypeOK'
  BY <1>5 DEF SwitchTrack
<1>6. CASE Tick
  <2>1. CASE timer_off = 1
    <3>1. MotorOffCb({selected}) /\ {selected} \in SUBSET Drive
      BY <1>6, <2>1 DEF Tick
    <3>2. /\ disk' \in [File -> [Tracks -> Data \cup {Noise}]]
          /\ dirty' \in [Drive -> SUBSET Tracks]
          /\ unsaved' \in [Drive -> BOOLEAN]
          /\ motor' \in [Drive -> BOOLEAN]
          /\ strayed' \subseteq Drive
          /\ left' \in [Drive -> SUBSET Tracks]
      BY <3>1, StopTypes
    <3>3. timer_off' \in 0 .. MaxOff
      BY <1>6, SecondAssumption DEF Tick
    <3> QED
      BY <1>6, <3>2, <3>3 DEF Tick
  <2>2. CASE timer_off # 1
    BY <1>6, <2>2, SecondAssumption DEF Tick
  <2> QED
    BY <2>1, <2>2
<1>7. CASE LssStops
  BY <1>7 DEF LssStops
<1>8. CASE LssLoad
  BY <1>8, Zenon DEF LssLoad, Drive
<1>9. ASSUME NEW x \in Data, LssWrite(x)
      PROVE  TypeOK'
  <2>1. dirty' \in [Drive -> SUBSET Tracks]
    BY <1>9 DEF LssWrite, Marked
  <2>2. unsaved' \in [Drive -> BOOLEAN]
    <3>1. Counted(selected, head[selected]) \in BOOLEAN
      BY Zenon DEF Counted
    <3> QED
      BY <1>9, <3>1, Zenon DEF LssWrite
  <2>3. tracks' \in [Drive -> [Tracks -> Data \cup {Noise}]]
    BY <1>9 DEF LssWrite
  <2> QED
    BY <1>9, <2>1, <2>2, <2>3 DEF LssWrite
<1>10. CASE Reset
  <2>1. /\ disk' \in [File -> [Tracks -> Data \cup {Noise}]]
        /\ dirty' \in [Drive -> SUBSET Tracks]
        /\ unsaved' \in [Drive -> BOOLEAN]
        /\ motor' \in [Drive -> BOOLEAN]
        /\ strayed' \subseteq Drive
        /\ left' \in [Drive -> SUBSET Tracks]
    BY <1>10, StopTypes DEF Reset
  <2> QED
    BY <1>10, <2>1 DEF Reset, Drive
<1>11. ASSUME NEW d \in Drive, NEW i \in File \cup {NoFile}, DriveLoad(d, i)
      PROVE  TypeOK'
  <2>1. Virgin \in [Tracks -> Data \cup {Noise}]
    BY DEF Virgin
  <2>2. tracks' \in [Drive -> [Tracks -> Data \cup {Noise}]]
    BY <1>11, <2>1 DEF DriveLoad
  <2>3. wp' \in [Drive -> SUBSET Protection]
    BY <1>11 DEF DriveLoad, Protection
  <2>4. motor' \in [Drive -> BOOLEAN] /\ unsaved' \in [Drive -> BOOLEAN]
    BY <1>11, Zenon DEF DriveLoad
  <2>5. /\ file' \in [Drive -> File \cup {NoFile}]
        /\ \A e \in Drive : file'[e] \in Images[e] \cup {NoFile}
    BY <1>11 DEF DriveLoad
  <2>6. head' \in [Drive -> Tracks \cup {Noise}]
    BY <1>11 DEF DriveLoad
  <2>7. /\ dirty' \in [Drive -> SUBSET Tracks] /\ strayed' \subseteq Drive
        /\ left' \in [Drive -> SUBSET Tracks]
    BY <1>11 DEF DriveLoad
  <2> QED
    BY <1>11, <2>2, <2>3, <2>4, <2>5, <2>6, <2>7 DEF DriveLoad
<1>12. ASSUME NEW d \in Drive, NEW on \in BOOLEAN, DriveWp(d, on)
      PROVE  TypeOK'
  BY <1>12 DEF DriveWp, Protection
<1>13. ASSUME NEW d \in Drive, ShellDirty(d)
      PROVE  TypeOK'
  BY <1>13, Zenon DEF ShellDirty, Drive
<1>14. CASE Quiesce
  BY <1>14 DEF Quiesce
<1>15. CASE UNCHANGED vars
  BY <1>15 DEF vars
<1>16. ASSUME NEW d \in Drive, ShellResync(d)
      PROVE  TypeOK'
  BY <1>16 DEF ShellResync
<1>17. ASSUME NEW d \in Drive, NEW bits \in Typed, ShellWp(d, bits)
      PROVE  TypeOK'
  BY <1>17, TypedAssumption DEF ShellWp
<1> QED
  BY <1>1, <1>2, <1>3, <1>4, <1>5, <1>6, <1>7, <1>8,
     <1>9, <1>10, <1>11, <1>12, <1>13, <1>14, <1>15, <1>16, <1>17
  DEF Next, Access, Timers, User

\* The motor goes with the selection and off with the timer's word.
LEMMA ServedPreserved ==
  ASSUME TypeOK, SpinningIsServed, [Next]_vars
  PROVE  SpinningIsServed'
<1> USE DEF TypeOK, SpinningIsServed, mechanics, storage
<1>1. CASE MotorOn
  BY <1>1 DEF MotorOn
<1>2. CASE MotorOff
  BY <1>2 DEF MotorOff
<1>3. ASSUME NEW on \in Drive, SelectDrive(on)
      PROVE  SpinningIsServed'
  BY <1>3 DEF SelectDrive, Moved
<1>4. ASSUME NEW mode \in SUBSET {"Q6", "Q7"}, SetMode(mode)
      PROVE  SpinningIsServed'
  BY <1>4 DEF SetMode
<1>5. ASSUME NEW to \in Tracks \cup {Noise}, SwitchTrack(to)
      PROVE  SpinningIsServed'
  BY <1>5 DEF SwitchTrack
<1>6. CASE Tick
  BY <1>6 DEF Tick, MotorOffCb, Stopped
<1>7. CASE LssStops
  BY <1>7 DEF LssStops
<1>8. CASE LssLoad
  BY <1>8 DEF LssLoad
<1>9. ASSUME NEW x \in Data, LssWrite(x)
      PROVE  SpinningIsServed'
  BY <1>9 DEF LssWrite
<1>10. CASE Reset
  BY <1>10 DEF Reset, MotorOffCb, Stopped
<1>11. ASSUME NEW d \in Drive, NEW i \in File \cup {NoFile}, DriveLoad(d, i)
      PROVE  SpinningIsServed'
  BY <1>11 DEF DriveLoad
<1>12. ASSUME NEW d \in Drive, NEW on \in BOOLEAN, DriveWp(d, on)
      PROVE  SpinningIsServed'
  BY <1>12 DEF DriveWp
<1>13. ASSUME NEW d \in Drive, ShellDirty(d)
      PROVE  SpinningIsServed'
  BY <1>13 DEF ShellDirty
<1>14. CASE Quiesce
  BY <1>14 DEF Quiesce
<1>15. CASE UNCHANGED vars
  BY <1>15 DEF vars
<1>16. ASSUME NEW d \in Drive, ShellResync(d)
      PROVE  SpinningIsServed'
  BY <1>16 DEF ShellResync
<1>17. ASSUME NEW d \in Drive, NEW bits \in Typed, ShellWp(d, bits)
      PROVE  SpinningIsServed'
  BY <1>17, TypedAssumption DEF ShellWp
<1> QED
  BY <1>1, <1>2, <1>3, <1>4, <1>5, <1>6, <1>7, <1>8,
     <1>9, <1>10, <1>11, <1>12, <1>13, <1>14, <1>15, <1>16, <1>17
  DEF Next, Access, Timers, User

\* A stop leaves clean tracks as they are on the file.
LEMMA CleanStop ==
  ASSUME TypeOK, CleanIsSaved, NEW ds \in SUBSET Drive, MotorOffCb(ds),
         UNCHANGED <<tracks, file>>
  PROVE  CleanIsSaved'
<1>1. PICK out \in [Drive -> SUBSET Tracks] : \A d \in Drive :
           /\ d \in ds /\ Saves(d) =>
                /\ left'[d] = (left[d] \ dirty[d]) \cup out[d]
                /\ file[d] # NoFile =>
                     disk'[file[d]] = [t \in Tracks |-> IF t \in dirty[d] \ out[d]
                                                          THEN tracks[d][t]
                                                          ELSE disk[file[d]][t]]
           /\ ~(d \in ds /\ Saves(d)) =>
                /\ left'[d] = left[d]
                /\ file[d] # NoFile => disk'[file[d]] = disk[file[d]]
  BY SavedOnFile
<1> SUFFICES ASSUME NEW d \in Drive, file[d] # NoFile,
                    NEW t \in Tracks \ (dirty'[d] \cup left'[d])
             PROVE  tracks[d][t] = disk'[file[d]][t]
  BY DEF CleanIsSaved
<1>2. CASE d \in ds /\ Saves(d)
  <2>1. disk'[file[d]][t] = IF t \in dirty[d] \ out[d] THEN tracks[d][t]
                                                       ELSE disk[file[d]][t]
    BY <1>1, <1>2
  <2>2. t \notin out[d] /\ (t \in left[d] => t \in dirty[d])
    BY <1>1, <1>2
  <2> QED
    BY <2>1, <2>2 DEF CleanIsSaved
<1>3. CASE ~(d \in ds /\ Saves(d))
  <2>1. disk'[file[d]] = disk[file[d]] /\ left'[d] = left[d]
    BY <1>1, <1>3
  <2>2. t \notin dirty[d]
    BY <1>3 DEF MotorOffCb, TypeOK
  <2> QED
    BY <2>1, <2>2 DEF CleanIsSaved
<1> QED
  BY <1>2, <1>3

\* Writing marks, saving copies what is marked, loading copies everything.
LEMMA CleanPreserved ==
  ASSUME TypeOK, CleanIsSaved, [Next]_vars
  PROVE  CleanIsSaved'
<1> USE DEF TypeOK, CleanIsSaved, mechanics, storage
<1>1. CASE MotorOn
  BY <1>1 DEF MotorOn
<1>2. CASE MotorOff
  BY <1>2 DEF MotorOff
<1>3. ASSUME NEW on \in Drive, SelectDrive(on)
      PROVE  CleanIsSaved'
  BY <1>3 DEF SelectDrive
<1>4. ASSUME NEW mode \in SUBSET {"Q6", "Q7"}, SetMode(mode)
      PROVE  CleanIsSaved'
  BY <1>4 DEF SetMode
<1>5. ASSUME NEW to \in Tracks \cup {Noise}, SwitchTrack(to)
      PROVE  CleanIsSaved'
  BY <1>5 DEF SwitchTrack
<1>6. CASE Tick
  <2>1. CASE timer_off = 1
    <3>1. MotorOffCb({selected}) /\ UNCHANGED <<tracks, file>>
      BY <1>6, <2>1 DEF Tick
    <3> QED
      BY <3>1, CleanStop DEF Drive
  <2>2. CASE timer_off # 1
    BY <1>6, <2>2 DEF Tick
  <2> QED
    BY <2>1, <2>2
<1>7. CASE LssStops
  BY <1>7 DEF LssStops
<1>8. CASE LssLoad
  BY <1>8 DEF LssLoad
<1>9. ASSUME NEW x \in Data, LssWrite(x)
      PROVE  CleanIsSaved'
  <2> SUFFICES ASSUME NEW d \in Drive, file'[d] # NoFile,
                      NEW t \in Tracks \ (dirty'[d] \cup left'[d])
               PROVE  tracks'[d][t] = disk'[file'[d]][t]
    BY DEF CleanIsSaved
  <2>1. t \notin dirty[d] /\ ~(d = selected /\ t = head[selected])
    BY <1>9 DEF LssWrite, Marked
  <2>2. tracks'[d][t] = tracks[d][t]
    BY <1>9, <2>1 DEF LssWrite
  <2> QED
    BY <1>9, <2>1, <2>2 DEF LssWrite
<1>10. CASE Reset
  BY <1>10, CleanStop DEF Reset
<1>11. ASSUME NEW d \in Drive, NEW i \in File \cup {NoFile}, DriveLoad(d, i)
      PROVE  CleanIsSaved'
  <2> SUFFICES ASSUME NEW e \in Drive, file'[e] # NoFile,
                      NEW t \in Tracks \ (dirty'[e] \cup left'[e])
               PROVE  tracks'[e][t] = disk'[file'[e]][t]
    BY DEF CleanIsSaved
  <2>1. CASE e = d
    BY <1>11, <2>1 DEF DriveLoad
  <2>2. CASE e # d
    BY <1>11, <2>2 DEF DriveLoad
  <2> QED
    BY <2>1, <2>2
<1>12. ASSUME NEW d \in Drive, NEW on \in BOOLEAN, DriveWp(d, on)
      PROVE  CleanIsSaved'
  BY <1>12 DEF DriveWp
<1>13. ASSUME NEW d \in Drive, ShellDirty(d)
      PROVE  CleanIsSaved'
  BY <1>13 DEF ShellDirty
<1>14. CASE Quiesce
  BY <1>14 DEF Quiesce
<1>15. CASE UNCHANGED vars
  BY <1>15 DEF vars
<1>16. ASSUME NEW d \in Drive, ShellResync(d)
      PROVE  CleanIsSaved'
  BY <1>16 DEF ShellResync
<1>17. ASSUME NEW d \in Drive, NEW bits \in Typed, ShellWp(d, bits)
      PROVE  CleanIsSaved'
  BY <1>17, TypedAssumption DEF ShellWp
<1> QED
  BY <1>1, <1>2, <1>3, <1>4, <1>5, <1>6, <1>7, <1>8,
     <1>9, <1>10, <1>11, <1>12, <1>13, <1>14, <1>15, <1>16, <1>17
  DEF Next, Access, Timers, User

\* Every mark is counted; a save clears both.
LEMMA UnsavedPreserved ==
  ASSUME TypeOK, DirtyIsUnsaved, [Next]_vars
  PROVE  DirtyIsUnsaved'
<1> USE DEF TypeOK, DirtyIsUnsaved, mechanics, storage
<1>1. CASE MotorOn
  BY <1>1 DEF MotorOn
<1>2. CASE MotorOff
  BY <1>2 DEF MotorOff
<1>3. ASSUME NEW on \in Drive, SelectDrive(on)
      PROVE  DirtyIsUnsaved'
  BY <1>3 DEF SelectDrive
<1>4. ASSUME NEW mode \in SUBSET {"Q6", "Q7"}, SetMode(mode)
      PROVE  DirtyIsUnsaved'
  BY <1>4 DEF SetMode
<1>5. ASSUME NEW to \in Tracks \cup {Noise}, SwitchTrack(to)
      PROVE  DirtyIsUnsaved'
  BY <1>5 DEF SwitchTrack
<1>6. CASE Tick
  BY <1>6 DEF Tick, MotorOffCb
<1>7. CASE LssStops
  BY <1>7 DEF LssStops
<1>8. CASE LssLoad
  BY <1>8 DEF LssLoad
<1>9. ASSUME NEW x \in Data, LssWrite(x)
      PROVE  DirtyIsUnsaved'
  BY <1>9 DEF LssWrite, Marked, Counted
<1>10. CASE Reset
  BY <1>10 DEF Reset, MotorOffCb
<1>11. ASSUME NEW d \in Drive, NEW i \in File \cup {NoFile}, DriveLoad(d, i)
      PROVE  DirtyIsUnsaved'
  BY <1>11 DEF DriveLoad
<1>12. ASSUME NEW d \in Drive, NEW on \in BOOLEAN, DriveWp(d, on)
      PROVE  DirtyIsUnsaved'
  BY <1>12 DEF DriveWp
<1>13. ASSUME NEW d \in Drive, ShellDirty(d)
      PROVE  DirtyIsUnsaved'
  BY <1>13 DEF ShellDirty
<1>14. CASE Quiesce
  BY <1>14 DEF Quiesce
<1>15. CASE UNCHANGED vars
  BY <1>15 DEF vars
<1>16. ASSUME NEW d \in Drive, ShellResync(d)
      PROVE  DirtyIsUnsaved'
  BY <1>16 DEF ShellResync
<1>17. ASSUME NEW d \in Drive, NEW bits \in Typed, ShellWp(d, bits)
      PROVE  DirtyIsUnsaved'
  BY <1>17, TypedAssumption DEF ShellWp
<1> QED
  BY <1>1, <1>2, <1>3, <1>4, <1>5, <1>6, <1>7, <1>8,
     <1>9, <1>10, <1>11, <1>12, <1>13, <1>14, <1>15, <1>16, <1>17
  DEF Next, Access, Timers, User

\* The bit comes from the shell, and from nowhere else.
LEMMA FormatPreserved ==
  ASSUME TypeOK, NoFormatBit, [Next]_vars
  PROVE  NoFormatBit'
<1> USE DEF TypeOK, NoFormatBit, mechanics, storage
<1>1. ASSUME NEW d \in Drive, NEW i \in File \cup {NoFile}, DriveLoad(d, i)
      PROVE  NoFormatBit'
  BY <1>1 DEF DriveLoad
<1>2. ASSUME NEW d \in Drive, NEW on \in BOOLEAN, DriveWp(d, on)
      PROVE  NoFormatBit'
  BY <1>2 DEF DriveWp
<1>3. ASSUME NEW d \in Drive, NEW bits \in Typed, ShellWp(d, bits)
      PROVE  NoFormatBit'
  BY <1>3 DEF ShellWp
<1>4. ASSUME wp' = wp
      PROVE  NoFormatBit'
  BY <1>4
<1>5. ASSUME NEW d \in Drive, ShellDirty(d) \/ ShellResync(d)
      PROVE  wp' = wp
  BY <1>5 DEF ShellDirty, ShellResync
<1>6. ASSUME Access \/ Timers \/ Reset \/ Quiesce \/ UNCHANGED vars
      PROVE  wp' = wp
  BY <1>6
  DEF Access, MotorOn, MotorOff, SelectDrive, SetMode, SwitchTrack,
      Timers, Tick, LssStops, LssLoad, LssWrite, Reset, Quiesce, vars
<1> QED
  BY <1>1, <1>2, <1>3, <1>4, <1>5, <1>6 DEF Next, User

\* The drives a stop stops are saved, and the others are as they were.
LEMMA SavedStop ==
  ASSUME TypeOK, DirtyIsUnsaved, NoFormatBit, StoppedIsClean,
         NEW ds \in SUBSET Drive, MotorOffCb(ds), UNCHANGED <<file, wp>>
  PROVE  StoppedIsClean'
<1> SUFFICES ASSUME ~Shell, NEW d \in Drive, d \notin strayed',
                    ~motor'[d], file[d] # NoFile, "RO_FILE" \notin wp[d],
                    dirty'[d] # {}
             PROVE  FALSE
  BY DEF StoppedIsClean
<1>1. ~(d \in ds /\ Saves(d)) /\ dirty[d] # {}
  BY DEF MotorOffCb, TypeOK
<1>2. Saves(d)
  BY <1>1 DEF Saves, DirtyIsUnsaved, NoFormatBit
<1>3. d \notin ds /\ ~motor[d] /\ d \notin strayed
  BY <1>1, <1>2 DEF MotorOffCb, Stopped
<1> QED
  BY <1>1, <1>3 DEF StoppedIsClean

\* A drive stops by its timer, which saves it, or by being deselected.
LEMMA StoppedPreserved ==
  ASSUME TypeOK, SpinningIsServed, DirtyIsUnsaved, NoFormatBit,
         StoppedIsClean, [Next]_vars
  PROVE  StoppedIsClean'
<1> USE DEF TypeOK, SpinningIsServed, StoppedIsClean, mechanics, storage
<1>1. CASE MotorOn
  BY <1>1 DEF MotorOn
<1>2. CASE MotorOff
  BY <1>2 DEF MotorOff
<1>3. ASSUME NEW on \in Drive, SelectDrive(on)
      PROVE  StoppedIsClean'
  BY <1>3 DEF SelectDrive, Moved
<1>4. ASSUME NEW mode \in SUBSET {"Q6", "Q7"}, SetMode(mode)
      PROVE  StoppedIsClean'
  BY <1>4 DEF SetMode
<1>5. ASSUME NEW to \in Tracks \cup {Noise}, SwitchTrack(to)
      PROVE  StoppedIsClean'
  BY <1>5 DEF SwitchTrack
<1>6. CASE Tick
  <2>1. CASE timer_off = 1
    <3>1. MotorOffCb({selected}) /\ UNCHANGED <<wp, file>>
      BY <1>6, <2>1 DEF Tick
    <3> QED
      BY <3>1, SavedStop DEF Drive
  <2>2. CASE timer_off # 1
    BY <1>6, <2>2 DEF Tick
  <2> QED
    BY <2>1, <2>2
<1>7. CASE LssStops
  BY <1>7 DEF LssStops
<1>8. CASE LssLoad
  BY <1>8 DEF LssLoad
<1>9. ASSUME NEW x \in Data, LssWrite(x)
      PROVE  StoppedIsClean'
  <2>1. \A d \in Drive : ~motor[d] => dirty'[d] = dirty[d]
    BY <1>9 DEF LssWrite, LssRuns
  <2> QED
    BY <1>9, <2>1 DEF LssWrite
<1>10. CASE Reset
  BY <1>10, SavedStop DEF Reset
<1>11. ASSUME NEW d \in Drive, NEW i \in File \cup {NoFile}, DriveLoad(d, i)
      PROVE  StoppedIsClean'
  BY <1>11 DEF DriveLoad
<1>12. ASSUME NEW d \in Drive, NEW on \in BOOLEAN, DriveWp(d, on)
      PROVE  StoppedIsClean'
  BY <1>12 DEF DriveWp
<1>13. ASSUME NEW d \in Drive, ShellDirty(d)
      PROVE  StoppedIsClean'
  BY <1>13 DEF ShellDirty
<1>14. CASE Quiesce
  BY <1>14 DEF Quiesce
<1>15. CASE UNCHANGED vars
  BY <1>15 DEF vars
<1>16. ASSUME NEW d \in Drive, ShellResync(d)
      PROVE  StoppedIsClean'
  BY <1>16 DEF ShellResync
<1>17. ASSUME NEW d \in Drive, NEW bits \in Typed, ShellWp(d, bits)
      PROVE  StoppedIsClean'
  BY <1>17, TypedAssumption DEF ShellWp
<1> QED
  BY <1>1, <1>2, <1>3, <1>4, <1>5, <1>6, <1>7, <1>8,
     <1>9, <1>10, <1>11, <1>12, <1>13, <1>14, <1>15, <1>16, <1>17
  DEF Next, Access, Timers, User

-----------------------------------------------------------------------------
\* Power on.
LEMMA Opening == Init => SInv
<1> SUFFICES ASSUME Init PROVE SInv
  OBVIOUS
<1> USE DEF Init
<1>1. TypeOK
  <2>1. tracks \in [Drive -> [Tracks -> Data \cup {Noise}]]
    BY DEF Virgin
  <2>2. motor \in [Drive -> BOOLEAN] /\ unsaved \in [Drive -> BOOLEAN]
    BY Zenon
  <2>3. timer_off \in 0 .. MaxOff
    BY SecondAssumption
  <2>4. disk \in [File -> [Tracks -> Data \cup {Noise}]]
    OBVIOUS
  <2>5. /\ dirty \in [Drive -> SUBSET Tracks]
        /\ wp \in [Drive -> SUBSET Protection]
        /\ file \in [Drive -> File \cup {NoFile}]
        /\ \A d \in Drive : file[d] \in Images[d] \cup {NoFile}
    OBVIOUS
  <2>6. /\ selected \in Drive /\ timer_lss \in BOOLEAN /\ quiet \in BOOLEAN
        /\ lss_mode \subseteq {"Q6", "Q7"} /\ strayed \subseteq Drive
        /\ left \in [Drive -> SUBSET Tracks]
    BY DEF Drive
  <2>7. head \in [Drive -> Tracks \cup {Noise}]
    OBVIOUS
  <2> HIDE DEF Init
  <2> QED
    BY <2>1, <2>2, <2>3, <2>4, <2>5, <2>6, <2>7, Zenon DEF TypeOK
<1>2. SpinningIsServed /\ CleanIsSaved /\ DirtyIsUnsaved
  BY DEF SpinningIsServed, CleanIsSaved, DirtyIsUnsaved
<1>3. NoFormatBit /\ StoppedIsClean
  BY DEF NoFormatBit, StoppedIsClean
<1> QED
  BY <1>1, <1>2, <1>3 DEF SInv, IInv

(***************************************************************************)
(* For any tracks, images and formats, whatever the program, the user, the *)
(* timers and the shell do: the one drive that can spin is the selected    *)
(* one and its sequencer's timer is armed, and a track that is not marked  *)
(* dirty is as its image file has it, unless a save passed it over.        *)
(***************************************************************************)
THEOREM NothingUnmarked == Spec => [](TypeOK /\ SpinningIsServed /\ CleanIsSaved)
<1>1. Init => IInv
  BY Opening DEF SInv
<1>2. IInv /\ [Next]_vars => IInv'
  BY TypePreserved, ServedPreserved, CleanPreserved DEF IInv
<1>3. IInv => TypeOK /\ SpinningIsServed /\ CleanIsSaved
  BY DEF IInv
<1> QED
  BY <1>1, <1>2, <1>3, PTL DEF Spec

(***************************************************************************)
(* A drive that spins is the selected one, with the motor on or its timer  *)
(* running, and the sequencer's timer armed: a program that turns the      *)
(* motor off, selects the other drive and turns it on again, in any order, *)
(* leaves no drive that spins for ever.                                    *)
(***************************************************************************)
THEOREM DrivesAreServed == Spec => []SpinningIsServed
BY NothingUnmarked, PTL

(***************************************************************************)
(* While no d2 command is typed, the file of a still drive has what was    *)
(* written on its floppy, unless the program selected the other drive      *)
(* before the motor stopped, and but for the tracks a save passed over.    *)
(***************************************************************************)
THEOREM StoppedDrivesAreSaved == Spec => [](DirtyIsUnsaved /\ StoppedIsSaved)
<1>1. Init => SInv
  BY Opening
<1>2. SInv /\ [Next]_vars => SInv'
  BY TypePreserved, ServedPreserved, CleanPreserved, UnsavedPreserved,
     FormatPreserved, StoppedPreserved DEF SInv, IInv
<1>3. SInv => DirtyIsUnsaved /\ StoppedIsSaved
  BY DEF SInv, IInv, CleanIsSaved, StoppedIsClean, StoppedIsSaved
<1> QED
  BY <1>1, <1>2, <1>3, PTL DEF Spec

(***************************************************************************)
(* Under the same condition, a floppy with a dirty track has counted a     *)
(* seed that is not saved, so the next save does not pass it by.           *)
(***************************************************************************)
THEOREM DirtyIsNotPassedBy == Spec => []DirtyIsUnsaved
BY StoppedDrivesAreSaved, PTL

=============================================================================
