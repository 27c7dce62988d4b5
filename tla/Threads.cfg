SPECIFICATION MCFairSpec
CONSTANTS
  a1 = a1
  a2 = a2
  area = area
  None = None
  Actors = {a1, a2}
  Places = {}
  Global = None
  Rules = "bg2"
  Duration = 2
  MaxTicks = 1
  MaxQueue = 3
  Scripts <- DuelScripts
  Orders <- Nothing
  Scenes <- Nothing
  Writers = {w1, w2}
  MaxMessages = 4
  Size = 3
  Lengths = {1, 2, 3, 4}
  MaxSample = 8
  Keys = {b1, b2, b3, b4}
  Null = Null
  CacheSize = 3
  LoneTouch = FALSE
INVARIANTS
  FreshWhenIdle
  PlanInOrder
  InOrder
  NothingLost
  CopiesDisjoint
  ShortMeansNoMore
  ListIsWhole
PROPERTIES
  ScriptsSpareProtected
  ClearSparesUninterruptible
  ActionsEnd
  LocksLifted
  EverythingWritten
  ImplementsFifo
  ImplementsLru
CHECK_DEADLOCK FALSE
