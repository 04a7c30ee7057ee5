-------------------------- MODULE MCSubscriptions --------------------------
(* Instances of Subscriptions for TLC. *)
EXTENDS Subscriptions, TLC

Pays(i, p) == [id |-> i, kind |-> "activate", plan |-> p]
Fails(i) == [id |-> i, kind |-> "cancel", plan |-> "BASIC"]

\* Two payments for different plans, on either gateway, and a failed charge.
MCEvents == {Pays("e1", "STANDARD"), Pays("e2", "PREMIUM"), Fails("e3")}

Symmetry == Permutations(Handlers)
=============================================================================
