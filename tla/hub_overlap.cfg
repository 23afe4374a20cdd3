\* Connections may overlap: a module reconnects while its old handler runs.
\* Under the fairness of the event loop, without routing by capability; no
\* symmetry, for two properties are temporal.
CONSTANTS
  ModuleIds = {m1, m2}
  Conns = {c1, c2}
  Capabilities = {}
  StreamIds = {s1}
  NoModule = NoModule
  NoConn = NoConn
SPECIFICATION FairSpec
CHECK_DEADLOCK FALSE
INVARIANTS
  TypeOK
  LoadIsInFlight
  RegisteredIsServed
PROPERTIES
  OnlyRivalsUnregister
  DeadIsForgotten
  SilentIsDropped
