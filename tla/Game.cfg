SPECIFICATION MCSpec
CONSTANTS
  Lists = {l1, l2}
  Nil = Nil
  Orders <- All
  Missing = {"list", "movie"}
  Capacity = 2
  MaxPiece = 2
  RampUp = 2
  MaxMovies = 2
  MaxFrames = 3
  Areas = {a1, a2}
  Names = {n1}
  Quick = Quick
  None = None
  MaxId = 2
  MaxChanges = 1
  Channels = {1}
  SpeechChannel = 0
  Voices = {v1}
  Speech = speech
  Hums = {h1}
  Sounds = {k1, k2}
  Buffers = 1
  Nobody = Nobody
SYMMETRY Alike
VIEW Seen
INVARIANTS
  LoadedMeansHooked
  PlayingHasMusic
  LocationsLead
  KeptOnce
  OwnersAreRight
  Silenced
  OnlyEmbraceBlocks
PROPERTIES
  NoHardCuts
  SavesTheWorld
CHECK_DEADLOCK FALSE
