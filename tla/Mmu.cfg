SPECIFICATION Spec
CONSTANTS
  Cards <- TwoCards
  Avail <- MCAvail
  RegisterBytes <- MCBytes
  Programmed <- AllSwitches
  Stored <- TwoBytes
CONSTRAINT OneSide
INVARIANTS
  TableIsCurrent
  StatusAgrees
  InternalRomLeaves
PROPERTY
  WriteEnableTakesTwoReads
