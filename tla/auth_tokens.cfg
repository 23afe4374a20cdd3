\* Two processes.  Two access tokens (two logins, or a login and its refresh) and
\* all that may become of them, or three whose refreshes overlap.
SPECIFICATION Spec
CONSTANTS
  Servers = {a, b}
  Tokens = {t1, t2, t3}
  Refreshes = {r1, r2, r3}
  NoServer = NoServer
  NoRefresh = NoRefresh
  LastToken = t3
  LastRefresh = r3
SYMMETRY Sym
CONSTRAINT FewOrExchanges
CHECK_DEADLOCK FALSE
INVARIANTS
  TypeOK
  RevokedIsRefusedElsewhere
  CachedIsSession
  LoginIsAccepted
  ExchangedRefreshIsGone
