\* One thread sets ports; the process may die anywhere.
CONSTANTS
  Writers = {tcp}
  Keys = {config_port, daq_port}
  short = short
  other = other
  long = long
  Values = {short, other, long}
  Width <- MCWidth
  Absent = absent
  NoFile = nofile
  Number <- MCNumber
  daq = daq
  daq_port = daq_port
  Programs = {daq}
  KeyOf <- MCKeyOf
  MayCrash = TRUE
SPECIFICATION Spec
INVARIANTS TypeOK
PROPERTIES SettingsAreKept ListensOnASetting
