SPECIFICATION Spec
CONSTANTS
  mouse = mouse
  ssc = ssc
  Lines <- MCLines
  MaxFrames <- MCMaxFrames
SYMMETRY Symmetry
INVARIANTS
  LineCoversSources
  AtMostOneSpurious
PROPERTY
  NoLostInterrupt
