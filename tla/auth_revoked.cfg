\* A revocation in one process does not reach the cache of another.
SPECIFICATION Spec
CONSTANTS
  Servers = {a, b}
  Tokens = {t1}
  Refreshes = {r1}
  NoServer = NoServer
  NoRefresh = NoRefresh
  LastToken = t1
  LastRefresh = r1
CHECK_DEADLOCK FALSE
INVARIANT RevokedIsRefused
