SPECIFICATION Spec
CONSTANTS
  p = p
  g = g
  r = r
  s1 = s1
  s2 = s2
  s3 = s3
  v = v
  None = None
  Sources = {p, g, r}
  Shreds = {p}
  Rotating = {r}
  Unaware = {g}
  Sigs = {s1, s2, s3, v}
  Votes = {v}
  OmitsVotes = TRUE
  Sends <- MCSends
  OnChain = {s1, s3, v}
  LagSlots = 1
  RETAIN_MARGIN_SLOTS = 0
  EVICT_MARGIN_SLOTS = 0
  SLOT_MAX = 9
  SlotOf <- MCSlotOf
  QUEUE = 1
  MaxArrivals = 3
  MaxConns = 1
INVARIANTS
  TypeOK
  RacedOnce
  OnchainBlameIsDue
  LatencyComplete
  FinalArchiveComplete
PROPERTY
  ShutdownCompletes
