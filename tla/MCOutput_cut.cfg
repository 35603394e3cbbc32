SPECIFICATION Spec
CONSTANTS
  RingFrames = 2
  BufferFrames = 2
  FadeLength = 3
  TrackFrames = 4
  Delays = {0, 1, 2}
  PauseDelay = 2
  Faults = {}
INVARIANT
  NoHardCut
