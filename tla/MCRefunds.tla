----------------------------- MODULE MCRefunds -----------------------------
(* Instances of Refunds for TLC. *)
EXTENDS Refunds, TLC

CONSTANTS t1

Asks(type, gw, t) == [type |-> type, gateway |-> gw, txn |-> t]

\* One charge, asked back on either gateway, with and without its id.
MCForms ==
  {Asks("PAYMENT", "AUTHORIZE_NET", t1), Asks("PAYMENT", "SOLANA", NoTxn),
   Asks("CREDITS", "SOLANA", NoTxn)}

MCCredits == {Asks("CREDITS", "SOLANA", NoTxn)}

Symmetry == Permutations(Handlers) \cup Permutations(Requests)
=============================================================================
