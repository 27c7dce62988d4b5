SPECIFICATION LogFairSpec
CONSTANTS
  Writers = {w1, w2}
  MaxMessages = 2
PROPERTIES EndsWhenDestroyed
CHECK_DEADLOCK FALSE
