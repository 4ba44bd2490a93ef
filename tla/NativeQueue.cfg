SPECIFICATION FairSpec
CONSTANTS
  Producers = {p1, p2}
  Consumers = {c1, c2}
  Items = {x, y}
  ENOENT = ENOENT
  Nobody = Nobody
  MaxItems = 2
INVARIANTS
  TypeOK
  FrontIsHead
  NoLostWakeup
PROPERTIES
  FifoSpec
  FifoLiveSpec
