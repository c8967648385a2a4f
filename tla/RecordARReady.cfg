SPECIFICATION Spec
CONSTANTS
  uses <- StoppingUses
  MaxCalls = 3
  MaxTicks = 4
  enableAudio = FALSE
  onlyRenderWhileRecording = TRUE
CHECK_DEADLOCK FALSE
INVARIANT ReadyMeansReady
