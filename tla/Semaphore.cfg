CONSTANTS
  c1 = c1
  c2 = c2
  c3 = c3
  Clients = {c1, c2, c3}
  Limit = 3
  Weights = {1, 2, 4}
  CallbackResults = {"ok"}
SPECIFICATION FairSpec
INVARIANTS TypeOK SlotsAccounted WaitersExact ResultTellsSlots CallbacksOver
PROPERTIES ImplementsPool NoStrandedWaiter DoneContextReturns
