SPECIFICATION FairSpec
CONSTANTS
  RingFrames = 2
  BufferFrames = 2
  FadeLength = 3
  TrackFrames = 3
  Delays = {0, 2}
  PauseDelay = 2
  Faults = {"device"}
INVARIANTS
  FramesConserved
  FinishedIsHeard
PROPERTIES
  StopsFaded
  StreamSettles
  HeldSeekSilent
