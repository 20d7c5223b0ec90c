\* Every service on its own, and two that contend for the endpoint; the endpoint is closed while they run and deleted when they are done.
CONSTANTS
  c1 = c1
  c2 = c2
  NoCall = NoCall
  Calls <- MCCalls
  Asynchronous <- MCAsynchronous
  Offered <- MCOffered
  Supported <- MCSupported
  ServedLater = {"Call"}
  ThreadPools = {TRUE, FALSE}
  Hasty = FALSE
SPECIFICATION Spec
INVARIANTS
  Transparent
  ObjectsSound
  AnsweredOnce
PROPERTY
  CallsFinish
\* The server stops.
CHECK_DEADLOCK FALSE
