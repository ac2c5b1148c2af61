\* A second client connects while a request is handled.
CONSTANTS
  Conns = {a, b}
  Fds = {1, 2}
  Frames = {"good"}
  MaxFrames = 1
  Nobody = nobody
SPECIFICATION Spec
INVARIANT AnswerGoesToAsker
CHECK_DEADLOCK FALSE
