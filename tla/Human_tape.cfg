SPECIFICATION InputFairSpec
CONSTANTS
  A = A
  B = B
  X = X
  None = None
  Buttons <- MCButtons
  Sticks <- MCSticks
  PageVectors <- MCPageVectors
  AiVectors <- MCAiVectors
  Deadzone <- MCDeadzone
  Sources = {"web", "evdev"}
  PadAi <- MCPadAi
  Files <- MCFiles
  Listing <- MCListing
  QueueSize = 2
PROPERTIES TapeIsMerged
