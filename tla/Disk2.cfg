SPECIFICATION Spec
CONSTANTS
  t0 = t0
  x = x
  y = y
  noise = noise
  games = games
  demo = demo
  work = work
  odd = odd
  none = none
  Tracks <- OneTrack
  Data <- MCData
  Noise = noise
  Images <- MCImages
  ReadOnly <- MCReadOnly
  Sectored <- MCSectored
  Unsupported <- MCUnsupported
  NoFile = none
  Second = 1
  MaxOff = 1
  Typed <- NoneTyped
  Leaves = FALSE
  Shell = FALSE
SYMMETRY Symmetry
INVARIANTS
  CleanIsSaved
  DirtyIsUnsaved
  StoppedIsSaved
