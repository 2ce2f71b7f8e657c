SPECIFICATION FairSpec
CONSTANTS
  r1 = r1
  r2 = r2
  h1 = h1
  h2 = h2
  Requests = {r1, r2}
  Ops = {"nonce", "write"}
  Fingerprints = {h1, h2}
  MaxFaults = 2
INVARIANTS TypeOK NonceIsAcceptedOnce OneExecution AnswersAgree EffectsNeedFaults
PROPERTIES ProcessingEnds
