\* Two generators, three subscriptions of one tenant, two months.
SPECIFICATION Spec
CONSTANTS
  Processes = {p, q}
  Tenants = {t}
  Subs = {s1, s2, s3}
  Invoices = {i1, i2, i3}
  MaxMonth = 2
  NoTenant = NoTenant
  NoSub = NoSub
  NoProcess = NoProcess
SYMMETRY Sym
CHECK_DEADLOCK FALSE
INVARIANTS
  TypeOK
  OneInvoicePerGenerator
  MonthlyIsInvoiced
