\* A rebill and a payment on chain, both disputed, one in two notices, two
\* refund requests, and one reset of the user at any time.
SPECIFICATION Spec
CONSTANTS
  c1 = c1
  c2 = c2
  n1 = n1
  n2 = n2
  n3 = n3
  r1 = r1
  r2 = r2
  Charges = {c1, c2}
  Buys <- MCBuys
  Pack = 1
  Notices = {n1, n2, n3}
  About <- MCAbout
  Claimed <- MCClaimed
  Requests = {r1, r2}
  Asked <- MCAsked
  Fee = 1
  Opening = 2
  NoCall = NoCall
  MaxResets = 1
INVARIANTS
  TypeOK
  BooksBalance
  RowsExplainBooks
\* Every dispute and request may be settled: the system may really stop.
CHECK_DEADLOCK FALSE
