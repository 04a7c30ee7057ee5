----------------------------- MODULE MCDisputes -----------------------------
(* Instances of DisputePage for TLC. *)
EXTENDS DisputePage, TLC

CONSTANTS d1, d2
=============================================================================
