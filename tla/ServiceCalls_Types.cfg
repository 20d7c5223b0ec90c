\* The types of the variables.
CONSTANTS
  c1 = c1
  c2 = c2
  NoCall = NoCall
  Calls <- MCCalls
  Asynchronous <- MCAsynchronous
  Offered <- MCOffered
  Supported <- MCSupported
  ServedLater = {"Call"}
  ThreadPools = {TRUE, FALSE}
  Hasty = FALSE
SPECIFICATION Spec
INVARIANT
  TypeOK
CHECK_DEADLOCK FALSE
