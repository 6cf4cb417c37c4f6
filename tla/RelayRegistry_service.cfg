SPECIFICATION FairSpec
CONSTANTS
  Devices = {d1, d2}
  Sockets = {s1, s2}
  NoSocket = NoSocket
  MaxDevices = 1
INVARIANTS
  CapRespected
  ServedIsRegistered
  RevokedStaysOut
PROPERTIES
  LeftIsForgotten
CHECK_DEADLOCK FALSE
