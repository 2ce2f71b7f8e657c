\* Up to two handlers at once, an order payable by Alipay and by Stripe.
SPECIFICATION Spec
CONSTANTS
  r1 = r1
  r2 = r2
  alipay = alipay
  stripe = stripe
  NoChannel = NoChannel
  Requests = {r1, r2}
  Channels = {alipay, stripe}
  SessionChannels = {stripe}
  Ops = {"query", "close", "cashier", "notify"}
  MaxAttempts = 2
  MaxFaults = 1
SYMMETRY Symmetry
INVARIANTS TypeOK TaskPerPayment PaymentIsReal SuccessfulAttemptIsPaid ProcessedPaymentIsTold RepeatsNeedConcurrency OneSessionPerChannel ClosedIsUnpayable
PROPERTIES KeepsLedger
