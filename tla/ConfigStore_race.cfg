\* Both threads of configuration_management set a port at once.
CONSTANTS
  Writers = {udp, tcp}
  Keys = {config_port, daq_port}
  short = short
  other = other
  long = long
  Values = {short, other, long}
  Width <- MCWidth
  Absent = absent
  NoFile = nofile
  Number <- MCNumber
  daq = daq
  daq_port = daq_port
  Programs = {}
  KeyOf <- MCKeyOf
  MayCrash = FALSE
SPECIFICATION Spec
INVARIANT SuccessLeavesAFile
