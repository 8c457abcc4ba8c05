SPECIFICATION Spec
CONSTANTS
  Count = 4
  Kind <- Attributions
  Topics = {"attribution.linkage", "attribution.persona"}
  HWM = 1
  REPLAY_PAGE = 1
  MaxDrops = 2
INVARIANTS TypeOK NoGap NothingAfterOverflow
PROPERTIES FeedPromise EventuallyDelivered
CHECK_DEADLOCK FALSE
