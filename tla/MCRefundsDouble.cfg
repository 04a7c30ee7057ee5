\* A CREDITS request processed by two clicks at once.
SPECIFICATION Spec
CONSTANTS
  Requests = {r1}
  Forms <- MCCredits
  Handlers = {h1, h2}
  t1 = t1
  Txns = {t1}
  NoTxn = NoTxn
  Latest = t1
  NoId = NoId
  NoRequest = NoRequest
  Expiry = FALSE
  MaxFaults = 0
INVARIANTS
  GrantedAtMostOnce
\* Every request may be denied or processed: the system may really stop.
CHECK_DEADLOCK FALSE
