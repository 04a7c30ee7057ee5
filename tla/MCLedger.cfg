\* Three transactions of any callers, over an empty database and a seeded one.
SPECIFICATION Spec
CONSTANTS
  Postings = {p1, p2, p3}
  u1 = u1
  u2 = u2
  k1 = k1
  k2 = k2
  k3 = k3
  Users = {u1, u2}
  System = System
  Keys = {k1, k2, k3}
  NoPlan = NoPlan
  Nobody = Nobody
  Plans <- MCPlans
  Seeded <- MCSeeded
SYMMETRY Symmetry
INVARIANTS
  TypeOK
  BalanceMatchesEntries
  CirclesAreOpposed
PROPERTIES
  ImplementsJournal
\* Every posting may have ended.
CHECK_DEADLOCK FALSE
