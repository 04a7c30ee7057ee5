------------------------------ MODULE MCLedger ------------------------------
(* Instances of Ledger for TLC. *)
EXTENDS Ledger, TLC

CONSTANTS u1, u2, k1, k2, k3

AnyPlan(upserts, entries, key) ==
  [upserts |-> upserts, entries |-> entries, key |-> key]

\* Debits and credits that differ, as no caller should ask for.
Unbalanced(u, k) ==
  AnyPlan(ReversalPlan(u, 2, k).upserts,
          <<Debit(<<System, "REVENUE">>, 1), Credit(<<u, "ASSET">>, 2)>>, k)

\* Accounts that nobody has created.
Unopened(u, k) == AnyPlan(<<>>, WonPlan(u, 1, k).entries, k)

MCPlans ==
  { ReversalPlan(u1, 2, k1), ReversalPlan(u1, 1, k1), WonPlan(u1, 2, k2),
    LostPlan(u1, 3, k3), Unbalanced(u1, k3), Unopened(u2, k2) }

\* What the seed creates that the plans use.
MCSeeded == {<<u1, "ASSET">>, <<System, "REVENUE">>, <<System, "EXPENSE">>}

Symmetry == Permutations(Postings)
=============================================================================
