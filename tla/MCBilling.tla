----------------------------- MODULE MCBilling -----------------------------
(* Instances of Billing for TLC. *)
EXTENDS Billing, TLC

CONSTANTS c1, c2, n1, n2, n3, r1, r2

\* A renewal by card and a payment on chain.
MCBuys == (c1 :> "card") @@ (c2 :> "chain")

\* The first charge is disputed in two notices of different amounts.
MCAbout == (n1 :> c1) @@ (n2 :> c1) @@ (n3 :> c2)
MCClaimed == (n1 :> 2) @@ (n2 :> 3) @@ (n3 :> 4)

MCAsked == (r1 :> 2) @@ (r2 :> 5)
=============================================================================
