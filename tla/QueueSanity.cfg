SPECIFICATION Spec
CONSTANTS
  a1 = a1
  a2 = a2
  area = area
  None = None
  Actors = {a1, a2}
  Places = {}
  Global = None
  Rules = "bg2"
  Duration = 2
  MaxTicks = 1
  MaxQueue = 3
  Scripts <- DuelScripts
  Orders <- Nothing
  Scenes <- Nothing
INVARIANTS NeverAborted
CHECK_DEADLOCK FALSE
