\* One sweep and one invoice: an intent that moves no money.
SPECIFICATION Spec
CONSTANTS
  Processes = {p}
  Invoices = {i1}
  Subs = {s1}
  MaxIntents = 1
  NoInvoice = NoInvoice
CHECK_DEADLOCK FALSE
INVARIANT PaidIsCharged
