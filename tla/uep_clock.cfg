SPECIFICATION Spec
CONSTANTS
  none = none
  sensor = sensor
  requests = requests
  UEP = {none, sensor, requests}
  NoUEP = none
  RequestUEP = requests
  TagUEP = {none, sensor, requests}
  Numbers = {0, 11}
  bufferSize = 2
  WindowIds = 3
  MaxClock = 4
  MaxTotal = 14
  MaxTail = 6
  MaxSent = 12
  ClockMayStepBack = TRUE
INVARIANTS
  TypeOK
  AtMostOneSuspect
PROPERTIES
  DemotedForOwn
