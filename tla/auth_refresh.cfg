\* A refreshed access token has no session.
SPECIFICATION Spec
CONSTANTS
  Servers = {a}
  Tokens = {t1, t2}
  Refreshes = {r1, r2}
  NoServer = NoServer
  NoRefresh = NoRefresh
  LastToken = t2
  LastRefresh = r2
CHECK_DEADLOCK FALSE
INVARIANT RefreshedIsAccepted
