\* The page of a dispute whose admin is patient (d1) or is not (d2), two calls at
\* a time, every fault.
SPECIFICATION FairPageSpec
CONSTANTS
  d1 = d1
  d2 = d2
  Disputes = {d1, d2}
  Handlers = {h1, h2}
  NoDispute = NoDispute
  Outcomes = {"WON", "LOST"}
  Apart = {d1}
  Expiry = TRUE
  MaxFaults = 1
  MaxLosses = 1
INVARIANTS
  PageTypeOK
  OutcomeBookedOnce
  RestoredAtMostOnce
PROPERTIES
  KeepsCallsApart
  ImplementsCase
  OutcomeReached
