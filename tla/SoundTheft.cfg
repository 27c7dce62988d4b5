SPECIFICATION SoundSpec
CONSTANTS
  Channels = {1}
  SpeechChannel = 0
  Voices = {v1}
  Speech = speech
  Hums = {h1, h2}
  Sounds = {k1, k2}
  Buffers = 1
  Nobody = Nobody
PROPERTIES NobodyElseCut
CHECK_DEADLOCK FALSE
