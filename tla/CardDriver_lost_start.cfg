\* A START whose wake-up falls before the kernel thread declares itself asleep.
CONSTANTS
  QUEUE_DEPTH = 3
  Readers = {daq}
  Commanders = {udp}
  Samples = {s1}
  Uninit = uninit
SPECIFICATION FairSpec
PROPERTIES StartStartsAcquisition
CHECK_DEADLOCK FALSE
