SPECIFICATION FairSpec
CONSTANTS
  uses <- AllUses
  MaxCalls = 3
  MaxTicks = 5
  enableAudio = TRUE
  onlyRenderWhileRecording = TRUE
CHECK_DEADLOCK FALSE
INVARIANT FramesAdvance
PROPERTY LimitedEnds
