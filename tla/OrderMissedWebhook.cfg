\* A payment in time, then the deadline, and no webhook.
SPECIFICATION FairSpec
CONSTANTS
  r1 = r1
  alipay = alipay
  NoChannel = NoChannel
  Requests = {r1}
  Channels = {alipay}
  SessionChannels = {}
  Ops = {"query", "cashier"}
  MaxAttempts = 1
  MaxFaults = 0
PROPERTIES QueryIsFallback
