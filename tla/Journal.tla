------------------------------ MODULE Journal ------------------------------
(***************************************************************************)
(* What LedgerService promises: a journal of movements over accounts, each  *)
(* posted whole, in one step, and at most once for each idempotency key.    *)
(***************************************************************************)
EXTENDS Integers

CONSTANTS
  Accounts,
  Keys,        \* idempotency keys
  Movements    \* the balanced movements, functions from Accounts to Int

VARIABLES
  bal,         \* each account's balance
  posted       \* the keys whose movement is in the journal

vars == <<bal, posted>>

Init ==
  /\ bal = [a \in Accounts |-> 0]
  /\ posted = {}

Post(m, k) ==
  /\ k \notin posted
  /\ posted' = posted \cup {k}
  /\ bal' = [a \in Accounts |-> bal[a] + m[a]]

Next == \E m \in Movements, k \in Keys : Post(m, k)

Spec == Init /\ [][Next]_vars
=============================================================================
