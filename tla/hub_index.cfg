\* Modules that reconnect or announce anew, with routing by capability.
CONSTANTS
  ModuleIds = {m1, m2}
  Conns = {c1, c2, c3}
  Capabilities = {a1}
  StreamIds = {}
  NoModule = NoModule
  NoConn = NoConn
SPECIFICATION Spec
CONSTRAINT Lively
SYMMETRY Sym
CHECK_DEADLOCK FALSE
INVARIANTS
  CachedIsRegistered
  AnnouncedIsIndexed
  GhostsAreContested
  RepliesStayHome
