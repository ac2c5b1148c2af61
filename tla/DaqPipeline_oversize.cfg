\* One oversize packet (an unfilled node of the driver can be one).
CONSTANTS
  QUEUE_DEPTH = 3
  Packets = {p1, big}
  Oversize = {big}
  Blank = blank
  ReadMayFail = FALSE
SPECIFICATION FairSpec
PROPERTY AcquiredIsDealt
CHECK_DEADLOCK FALSE
