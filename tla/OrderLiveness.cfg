\* Two handlers; webhooks that arrive, or a merchant that polls.  Every attempt has a
\* session of its own, and a crash may keep its id from the table.
SPECIFICATION FairSpec
CONSTANTS
  r1 = r1
  r2 = r2
  stripe = stripe
  NoChannel = NoChannel
  Requests = {r1, r2}
  Channels = {stripe}
  SessionChannels = {stripe}
  Ops = {"query", "close", "cashier", "notify"}
  MaxAttempts = 2
  MaxFaults = 1
PROPERTIES PaymentIsTold PollingFindsLatest
