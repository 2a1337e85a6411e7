SPECIFICATION Spec
CONSTANTS
  t0 = t0
  x = x
  y = y
  noise = noise
  games = games
  demo = demo
  work = work
  odd = odd
  none = none
  Tracks <- OneTrack
  Data <- OneContent
  Noise = noise
  Images <- NoImages
  ReadOnly <- NoSuchFile
  Sectored <- NoSuchFile
  Unsupported <- NoSuchFile
  NoFile = none
  Second = 1
  MaxOff = 2
  Typed <- MCTyped
  Leaves = TRUE
  Shell = TRUE
INVARIANT SpinningIsServed
PROPERTY MotorStops
