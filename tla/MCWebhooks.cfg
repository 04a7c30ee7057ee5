\* Three handlers on a pool of two connections, a purchase and its chargeback
\* in two events, and every fault, the expiry of outer transactions included.
SPECIFICATION Spec
CONSTANTS
  Handlers = {h1, h2, h3}
  t1 = t1
  t2 = t2
  Txns = {t1, t2}
  Events <- MCDisputed
  Required = 3
  Opening = 1
  Pool = 2
  MaxFaults = 2
  Expiry = TRUE
  NoEvent = NoEvent
SYMMETRY Symmetry
INVARIANTS
  TypeOK
  EffectsExactlyOnce
  OneReversalPerCharge
PROPERTIES
  AckedIsSettledOrBeaten
