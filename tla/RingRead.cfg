SPECIFICATION RingSpec
CONSTANTS
  Size = 3
  Lengths = {1, 2, 3, 4}
  MaxSample = 8
INVARIANTS ReadsLandInOrder
CHECK_DEADLOCK FALSE
