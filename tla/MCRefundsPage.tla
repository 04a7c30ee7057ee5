--------------------------- MODULE MCRefundsPage ---------------------------
(* Instances of RefundsPage for TLC. *)
EXTENDS RefundsPage, TLC

CONSTANTS t1

Asks(type, gw, t) == [type |-> type, gateway |-> gw, txn |-> t]

\* One charge asked back, and credits asked for.
MCForms ==
  {Asks("PAYMENT", "AUTHORIZE_NET", t1), Asks("CREDITS", "SOLANA", NoTxn)}
=============================================================================
