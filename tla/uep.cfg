SPECIFICATION Spec
CONSTANTS
  none = none
  sensor = sensor
  requests = requests
  UEP = {none, sensor, requests}
  NoUEP = none
  RequestUEP = requests
  TagUEP = {sensor, requests}
  Numbers = {1, 11}
  bufferSize = 2
  WindowIds = 5
  MaxClock = 4
  MaxTotal = 14
  MaxTail = 20
  MaxSent = 0
  ClockMayStepBack = FALSE
PROPERTIES
  ImplementsUEPCount
