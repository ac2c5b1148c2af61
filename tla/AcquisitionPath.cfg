\* A card of 2 nodes, a ring of 3 slots, two packets that fit, one oversize.
CONSTANTS
  CardCapacity = 2
  QUEUE_DEPTH = 3
  Packets = {p1, p2, big}
  Oversize = {big}
  Blank = blank
  ReadMayFail = TRUE
SPECIFICATION PathFairSpec
INVARIANTS TypeOK PermitsAccounted NoOverlap PolledDataIsThere
PROPERTIES PathIsQueue PublishedIsDealt
CHECK_DEADLOCK FALSE
