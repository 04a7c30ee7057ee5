----------------------------- MODULE MCCredits -----------------------------
(* Instances of Credits for TLC. *)
EXTENDS Credits, TLC

CONSTANTS u1, u2, k1, k2

\* One user starts with a row and credits, the other without a row.
MCOpening == u1 :> 2 @@ u2 :> 0
=============================================================================
