\* Two handlers on a pool of three connections, a Solana payment told twice
\* among events of other kinds, one fault: liveness, and credits without the
\* expiry of outer transactions.
SPECIFICATION FairSpec
CONSTANTS
  Handlers = {h1, h2}
  t1 = t1
  t2 = t2
  Txns = {t1, t2}
  Events <- MCSettling
  Required = 3
  Opening = 2
  Pool = 3
  MaxFaults = 1
  Expiry = FALSE
  NoEvent = NoEvent
INVARIANTS
  CreditsAtMostOnce
PROPERTIES
  EventsSettle
  ImplementsInbox
