\* Two requests, two admin calls at a time.
SPECIFICATION Spec
CONSTANTS
  Requests = {r1, r2}
  Forms <- MCForms
  Handlers = {h1, h2}
  t1 = t1
  Txns = {t1}
  NoTxn = NoTxn
  Latest = t1
  NoId = NoId
  NoRequest = NoRequest
  Expiry = TRUE
  MaxFaults = 2
SYMMETRY Symmetry
INVARIANTS
  TypeOK
  ReversedOnceWithId
  ReversedIsPaid
  NothingBeforeReview
  ProcessedIsDone
  PaidOncePerLife
PROPERTIES
  PaidUnlinked
\* Every request may be denied or processed: the system may really stop.
CHECK_DEADLOCK FALSE
