\* Three connections on three descriptors: one that keeps the thread in recv,
\* one that lets it in, and a newest one that waits; an older connection that
\* closes leaves its descriptor to the third.
CONSTANTS
  Conns = {1, 2, 3}
  Fds = {1, 2, 3}
  Frames = {"good", "bad"}
  MaxFrames = 1
  Nobody = 0
SPECIFICATION OrderedFairSpec
INVARIANTS TypeOK NoAnswerWithoutRequest OneRequestNeverKills
PROPERTIES OnlyDeadConnectionsAreClosed CurrentClientIsServed
CHECK_DEADLOCK FALSE
