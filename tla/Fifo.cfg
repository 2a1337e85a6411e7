SPECIFICATION Spec
CONSTANTS
  a = a
  b = b
  zero = zero
  Item <- MCItem
  Zero = zero
  Size = 4
  ConcurrentReset = FALSE
INVARIANTS
  ContentsHeld
PROPERTY
  QueueSpec
