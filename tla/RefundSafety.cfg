SPECIFICATION Spec
CONSTANTS
  r1 = r1
  r2 = r2
  n1 = n1
  n2 = n2
  n3 = n3
  Requests = {r1, r2}
  RefundNos = {n1, n2, n3}
  Amounts = {1, 2}
  PaidAmount = 2
  MaxFaults = 1
SYMMETRY Symmetry
INVARIANTS TypeOK SuccessIsBacked OneRefundPerNumber LimitHolds OvershootIsBounded OrderFollowsRefunds FailedIsNotPaidOut
CHECK_DEADLOCK FALSE
