\* The endpoint is deleted while a worker waits for its mutex.
CONSTANTS
  c1 = c1
  c2 = c2
  NoCall = NoCall
  Calls <- MCCalls
  Asynchronous <- MCAsynchronous
  Offered <- MCOffered
  Supported <- MCSupported
  ServedLater = {"Call"}
  ThreadPools = {TRUE}
  Hasty = TRUE
SPECIFICATION Spec
PROPERTY
  DeleteReturns
\* A server that is deleted stops.
CHECK_DEADLOCK FALSE
