\* Three calls that compete for one user's row and another's, retries
\* included; calls under k1 never overlap, calls under k2 may.
SPECIFICATION FairSpec
CONSTANTS
  Calls = {c1, c2, c3}
  u1 = u1
  u2 = u2
  k1 = k1
  k2 = k2
  Users = {u1, u2}
  Keys = {k1, k2}
  Apart = {k1}
  NoKey = NoKey
  NoRequest = NoRequest
  Amounts = {0, 2}
  MaxInt = 3
  Opening <- MCOpening
INVARIANTS
  TypeOK
  BalanceMatchesLog
  FundsReserved
  AtMostOncePerKey
  SuccessIsRecorded
PROPERTIES
  CallsAnswered
  ImplementsAccount
\* Every call may have been answered: the system may really stop.
CHECK_DEADLOCK FALSE
