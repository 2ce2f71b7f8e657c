SPECIFICATION Spec
CONSTANTS
  r1 = r1
  r2 = r2
  n1 = n1
  n2 = n2
  Requests = {r1, r2}
  RefundNos = {n1, n2}
  Amounts = {1, 2}
  PaidAmount = 2
  MaxFaults = 0
INVARIANTS WithinPaid
CHECK_DEADLOCK FALSE
