SPECIFICATION FairSpec
CONSTANTS
  Requests = {r1, r2}
  Conns = {c1}
  NoRequest = NoRequest
  NoConn = NoConn
  Stray = Stray
  BadJson = BadJson
  NotObject = NotObject
  MaxNoise = 2
  Cancellable = {r2}
INVARIANTS OneInService ReplyIsKept ConnErrorHasCause
PROPERTIES ImplementsService EveryCallReturns
CHECK_DEADLOCK FALSE
