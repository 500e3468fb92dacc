SPECIFICATION LocalSpec
CONSTANTS
  MaxCommands = 3
  MaxDevices = 2
  Ref = Ref
  NoDevice = NoDevice
  MaxLocalFaults = 1
INVARIANT ForgottenStaysForgotten
CHECK_DEADLOCK FALSE
