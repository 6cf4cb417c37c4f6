SPECIFICATION Spec
CONSTANTS
  Devices = {d1, d2}
  Sockets = {s1, s2}
  NoSocket = NoSocket
  MaxDevices = 1
INVARIANTS RevokedIsDisconnected
CHECK_DEADLOCK FALSE
