SPECIFICATION Spec
CONSTANTS
  Broken = "broken"
  Apps = {"app"}
  Global = "*"
  Calls = {c1, c2}
  Uses = {u1, u2}
  Null = "null"
  MasterKeys = {"m1"}
  NoKey = "none"
  Texts = {"a", "b", "k", "broken", "KEY", "CERT"}
  MaxCalls = 3
  MaxFaults = 1
  Typed <- MCTyped
  Setups <- MCSetups
  Published <- MCPublished
SYMMETRY Symmetry
INVARIANTS
  TypeOK
  CacheFollowsTable
  OwnClient
  PreviewsArePrivate
PROPERTIES
  DraftsArePublished
CHECK_DEADLOCK FALSE
