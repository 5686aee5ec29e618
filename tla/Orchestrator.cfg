SPECIFICATION FairSpec
CONSTANTS
  Buttons = {"up", "down"}
  Sticks = {"centre"}
  Neutral <- MCNeutral
  PartSources = {"human"}
  Clients = {c1}
  QueueSize = 1
  Paths = {"p1"}
  MaxFrames = 3
  None = None
INVARIANTS HumanHolds StreamInOrder
PROPERTIES SavedFaithfully ClientsKeepUp
