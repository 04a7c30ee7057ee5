----------------------------- MODULE MCWebhooks -----------------------------
(* Instances of Webhooks for TLC. *)
EXTENDS Webhooks, TLC

CONSTANTS t1, t2

Purchase(i, t, n) ==
  [id |-> i, type |-> "charge.approved", ref |-> "credits", txn |-> t,
   amount |-> n, depth |-> 0]

Chargeback(i, t, n) ==
  [id |-> i, type |-> "chargeback.received", ref |-> "none", txn |-> t,
   amount |-> n, depth |-> 0]

Confirmation(i, t, n, d) ==
  [id |-> i, type |-> "confirmation", ref |-> "none", txn |-> t,
   amount |-> n, depth |-> d]

Other(i, type, ref, n) ==
  [id |-> i, type |-> type, ref |-> ref, txn |-> t1, amount |-> n, depth |-> 0]

\* A credit purchase and the chargeback against it, told twice; a chargeback
\* of nothing, which recordTransaction refuses.
MCDisputed ==
  {Purchase("e1", t1, 2), Chargeback("e2", t1, 2), Chargeback("e3", t1, 2),
   Chargeback("e4", t2, 0)}

\* A Solana payment told of before and after it is deep enough; a chargeback,
\* perhaps the user's first; the start of a subscription; a purchase whose
\* reference to credits does not parse.
MCSettling ==
  {Confirmation("hash", t2, 2, 2), Confirmation("hash", t2, 2, 3),
   Chargeback("e8", t1, 1), Other("e4", "subscription", "none", 1),
   Other("e7", "charge.approved", "invalid", 1)}

\* A purchase and one chargeback.
MCPurchaseDisputed == {Purchase("e1", t1, 2), Chargeback("e2", t1, 2)}

Symmetry == Permutations(Handlers)
=============================================================================
