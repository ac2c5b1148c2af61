\* Two runs of the menu, one after the other or overlapping, with two commands
\* each; the server may stop and be started again anywhere.
CONSTANTS
  Menus = {m1, m2}
  MaxRequests = 2
  Commands = {"set_tcp_port", "start_daq", "stop_daq"}
  None = none
SPECIFICATION FairSpec
INVARIANTS HandledOnceInOrder SlipsStartWithAStranger ShownIsHandled
PROPERTY LoneMenuIsAnswered
CHECK_DEADLOCK FALSE
