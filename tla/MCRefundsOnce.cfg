\* The admin page on one request, two of its calls at a time, without
\* the expiry of outer transactions.
SPECIFICATION FairPageSpec
CONSTANTS
  Requests = {r1}
  Forms <- MCForms
  Handlers = {h1, h2}
  t1 = t1
  Txns = {t1}
  NoTxn = NoTxn
  Latest = t1
  NoId = NoId
  NoRequest = NoRequest
  Mount = Mount
  Expiry = FALSE
  MaxFaults = 2
INVARIANTS
  SerialPageIsTrue
  DeductedAtMostOnce
PROPERTIES
  RequestSettles
