SPECIFICATION FrameSpec
CONSTANTS
  None = None
  MaxSids = 1
  MaxMembers = 2
  MaxFrames = 2
  MaxPushes = 1
INVARIANT BreaksSealed
CHECK_DEADLOCK FALSE
