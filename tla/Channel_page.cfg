SPECIFICATION FairSpec
CONSTANTS
  Channels = {x, y}
  Posts = {p}
  ListLimit = 2
  ReplayLimit = 1
  HubBuffer = 1
  MaxMessages = 2
  MaxFetches = 1
  MaxFaults = 1
  None = None
INVARIANTS
  ShownOnce
  BusyWaits
  PushComplete
PROPERTIES
  ImplementsFeed
  BusyClears
