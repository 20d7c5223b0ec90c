SPECIFICATION Spec
CONSTANTS
  MaxStringLength = 4
  MaxByteStringLength = 200
  MaxArrayLength = 3
  MaxMessageLength = 168
  MaxRecursionDepth = 4
  SizeOf <- MCSizeOf
  Messages <- MCMessages
  Bodies <- MCBodies
  CheckLengths = {TRUE, FALSE}
  ReuseSized = FALSE
  MaxSends = 2
  MaxHops = 2
INVARIANTS Delivered InStep SizeExact
CHECK_DEADLOCK FALSE
