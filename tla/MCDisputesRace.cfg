\* One admin who opens the page again while the server works, nothing failing.
SPECIFICATION PageSpec
CONSTANTS
  d1 = d1
  d2 = d2
  Disputes = {d1}
  Handlers = {h1, h2}
  NoDispute = NoDispute
  Outcomes = {"WON", "LOST"}
  Apart = {}
  Expiry = FALSE
  MaxFaults = 0
  MaxLosses = 0
INVARIANTS
  OutcomesExclude
