\* The endpoint is deleted before the timer of a late answer fires.
CONSTANTS
  c1 = c1
  c2 = c2
  NoCall = NoCall
  Calls <- MCCalls
  Asynchronous <- MCAsynchronous
  Offered <- MCOffered
  Supported <- MCSupported
  ServedLater = {"Call"}
  ThreadPools = {FALSE}
  Hasty = TRUE
SPECIFICATION Spec
INVARIANT
  ObjectsSound
CHECK_DEADLOCK FALSE
