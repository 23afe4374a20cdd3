\* Two modules, each with a socket, or one that connects a second time; a call of
\* the application and two of handlers, enough for a cycle of handlers.
CONSTANTS
  Modules = {m1, m2}
  MaxSockets = 2
  MaxCalls = 3
  MaxFromApp = 1
  NoModule = NoModule
  First = m1
SPECIFICATION FairSpec
CONSTRAINT FirstConnects
CHECK_DEADLOCK FALSE
INVARIANTS
  TypeOK
  HandlersAreCalls
  LiveIsConnected
PROPERTY
  NobodyWaitsForEver
