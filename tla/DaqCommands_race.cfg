\* Both threads that run handle_msg; few channels with many points, and many
\* channels with one point.
CONSTANTS
  Handlers = {tcp, udp}
  Channels = {1, 4}
  Room = 4
SPECIFICATION Spec
INVARIANT FillFits
CHECK_DEADLOCK FALSE
