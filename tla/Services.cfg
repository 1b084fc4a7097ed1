SPECIFICATION FairSpec
CONSTANTS
  NoOffer = NoOffer
  Offers = {o1, o2}
  Limit = 1
  MaxRequests = 2
  MaxShows = 2
  MaxRestarts = 1
  first = first  second = second  third = third
  Blocks = {first, second, third}  Contents <- MCContents
  Modes = {"private"}  Private = "private"
  MaxInodes = 3  MaxOthers = 2  MaximumBytes = 2
CHECK_DEADLOCK FALSE
INVARIANTS SelectionsAgree DialogsAreTracked ReadIsSnapshot LimitIsKept SizeDecides
PROPERTIES PastesEnd KeepsPromise
