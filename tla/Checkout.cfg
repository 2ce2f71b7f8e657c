SPECIFICATION Spec
CONSTANTS
  Requests = {"shop", "other"}
  Bodies = {"a"}
  AppChannels = {"redirect", "qr"}
  QrChannels = {"qr"}
  OffChannels = {}
  Lists <- MCLists
  None = None
  Shop = "shop"
  ShopBody = "a"
  Queries = {"q"}
INVARIANTS
  TypeOK
  CreationAnswersMatch
PROPERTIES
  PaymentStaysKnown
  PaidIsShown
CHECK_DEADLOCK FALSE
