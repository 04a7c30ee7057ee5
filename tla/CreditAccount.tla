--------------------------- MODULE CreditAccount ---------------------------
(***************************************************************************)
(* What CreditsService promises its callers, with no transactions in it: a  *)
(* balance per user that never leaves 0..MaxInt, moved by effects that      *)
(* happen in one step, and happen once under each key of Once.  Credits.tla *)
(* implements it for the keys that its callers never give to two calls that *)
(* overlap (see Apart there).                                               *)
(***************************************************************************)
EXTENDS Integers

CONSTANTS
  Users,      \* owners of a credits row
  Keys,       \* idempotency keys
  Once,       \* those under which at most one effect happens
  Deltas,     \* the amounts, positive or negative, an effect moves
  MaxInt,     \* the largest value of the INTEGER column
  Opening     \* each user's balance before the first effect

VARIABLES
  bal,        \* each user's balance
  used        \* the keys whose effect has happened

vars == <<bal, used>>

Init ==
  /\ bal = Opening
  /\ used = {}

Move(u, d) ==
  /\ bal[u] + d \in 0 .. MaxInt
  /\ bal' = [bal EXCEPT ![u] = @ + d]

KeyedEffect(u, d, k) ==
  /\ k \in Once => k \notin used
  /\ used' = used \cup {k}
  /\ Move(u, d)

\* A deduction whose caller gave no key.
KeylessEffect(u, d) ==
  /\ d < 0
  /\ Move(u, d)
  /\ UNCHANGED used

Next ==
  \E u \in Users, d \in Deltas :
    \/ \E k \in Keys : KeyedEffect(u, d, k)
    \/ KeylessEffect(u, d)

Spec == Init /\ [][Next]_vars
=============================================================================
