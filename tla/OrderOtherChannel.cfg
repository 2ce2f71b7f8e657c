\* The cashier opens a session for Alipay and one for Stripe; no webhook.
SPECIFICATION FairSpec
CONSTANTS
  r1 = r1
  alipay = alipay
  stripe = stripe
  NoChannel = NoChannel
  Requests = {r1}
  Channels = {alipay, stripe}
  SessionChannels = {stripe}
  Ops = {"query", "cashier"}
  MaxAttempts = 2
  MaxFaults = 0
PROPERTIES PollingFindsPayment
