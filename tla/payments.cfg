\* Two sweeps over two invoices, each listed once per subscription.
SPECIFICATION Spec
CONSTANTS
  Processes = {p, q}
  Invoices = {i1, i2}
  Subs = {s1, s2}
  MaxIntents = 2
  NoInvoice = NoInvoice
CONSTRAINT OneFails
SYMMETRY Sym
CHECK_DEADLOCK FALSE
INVARIANTS
  TypeOK
  EachChargesOnce
  PaidIsRecorded
  MoneyIsBooked
