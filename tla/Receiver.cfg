SPECIFICATION FairSpec
CONSTANTS
  Slots = {1, 2}
  Watched <- WatchedBoth
  Kinds = {"receiver", "device"}
  Attempts = 2
  MaxOpen = 1
  MaxAsked = 1
  MaxInbox = 1
INVARIANTS
  HereWasHere
  NothingWasNotHere
PROPERTIES
  EdgesAreLinks
  TappedLinkIsEdge
  CallsReturn
