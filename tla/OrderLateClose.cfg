\* A close and a webhook at once.
SPECIFICATION Spec
CONSTANTS
  r1 = r1
  r2 = r2
  alipay = alipay
  NoChannel = NoChannel
  Requests = {r1, r2}
  Channels = {alipay}
  SessionChannels = {}
  Ops = {"close", "cashier", "notify"}
  MaxAttempts = 1
  MaxFaults = 0
INVARIANTS QueryConfirmsNotification
