\* Three requests at a time: payments, a failed charge and the user's calls.
SPECIFICATION Spec
CONSTANTS
  Handlers = {h1, h2, h3}
  Events <- MCEvents
  NoEvent = NoEvent
  NoRow = NoRow
INVARIANTS
  TypeOK
  PlanIsPaidFor
PROPERTIES
  OnlyNewPaymentsActivate
\* Every event may be processed and the user reset: the system may really stop.
CHECK_DEADLOCK FALSE
