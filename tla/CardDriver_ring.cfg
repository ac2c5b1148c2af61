\* One reader, one commander, removal and reloading, a ring of 3 nodes that
\* fills up and wraps.
CONSTANTS
  QUEUE_DEPTH = 3
  Readers = {daq}
  Commanders = {udp}
  Samples = {s1, s2}
  Uninit = uninit
SPECIFICATION FairSpec
INVARIANTS TypeOK NoSharedNode NoUnderrun NoOverrun AtMostOnePacketAfterStop
PROPERTIES ReadsArePublishedPackets PublishedIsRead WakeUpsAreHeeded
CHECK_DEADLOCK FALSE
