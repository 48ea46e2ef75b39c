\* Two invoices, two overlapping requests, one restart.
CONSTANTS
  Payments = {p1, p2}
  Requests = {r1, r2}
  NoPayment = NoPayment
  Idle = Idle
  Period = 1
  Grace = 1
  MaxTime = 2
  MaxRestarts = 1
SPECIFICATION Spec
INVARIANTS
  ServedAsPaid
  PaymentsCountOnce
CHECK_DEADLOCK FALSE
PROPERTIES
  PaidIsProcessed
