\* A deduction that fails for want of a connection.
SPECIFICATION Spec
CONSTANTS
  Handlers = {h1, h2}
  t1 = t1
  t2 = t2
  Txns = {t1, t2}
  Events <- MCPurchaseDisputed
  Required = 3
  Opening = 1
  Pool = 2
  MaxFaults = 1
  Expiry = FALSE
  NoEvent = NoEvent
PROPERTIES
  SkippedOnlyIfSpent
