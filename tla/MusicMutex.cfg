SPECIFICATION FairSpec
CONSTANTS
  Lists = {l1, l2}
  Nil = Nil
  Orders = {"soft", "hard"}
  Missing = {}
  Capacity = 2
  MaxPiece = 2
  RampUp = 2
  MaxMovies = 0
  MaxFrames = 0
PROPERTIES MutexComesFree
CHECK_DEADLOCK FALSE
