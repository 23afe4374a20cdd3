\* Three tasks over a pool of two connections and one of three.
CONSTANTS
  Tasks = {t1, t2, t3}
  AuthConns = {a1, a2}
  BillingConns = {b1, b2, b3}
  NoTask = NoTask
  NoOp = NoOp
SPECIFICATION FairSpec
CHECK_DEADLOCK FALSE
INVARIANTS
  TypeOK
  StuckIsOverloaded
PROPERTY
  LightLoadCompletes
