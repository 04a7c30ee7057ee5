---------------------------- MODULE DisputeCase ----------------------------
(***************************************************************************)
(* What DisputesService promises of each dispute: it is opened, evidence    *)
(* may be submitted, and it is decided once; the decision and its ledger    *)
(* booking are one step, and a decided dispute never changes again.         *)
(***************************************************************************)
CONSTANT Disputes

VARIABLES
  state,   \* status of each dispute, "none" before it is opened
  booked   \* what the ledger holds for each dispute beyond its reversal

vars == <<state, booked>>

Init ==
  /\ state = [d \in Disputes |-> "none"]
  /\ booked = [d \in Disputes |-> {}]

Open(d) ==
  /\ state[d] = "none"
  /\ state' = [state EXCEPT ![d] = "OPEN"]
  /\ UNCHANGED booked

SubmitEvidence(d) ==
  /\ state[d] = "OPEN"
  /\ state' = [state EXCEPT ![d] = "EVIDENCE_SUBMITTED"]
  /\ UNCHANGED booked

Decide(d, outcome) ==
  /\ state[d] \in {"OPEN", "EVIDENCE_SUBMITTED"}
  /\ state' = [state EXCEPT ![d] = outcome]
  /\ booked' = [booked EXCEPT ![d] = {outcome}]

Next ==
  \E d \in Disputes :
    Open(d) \/ SubmitEvidence(d) \/ \E o \in {"WON", "LOST"} : Decide(d, o)

Spec == Init /\ [][Next]_vars
=============================================================================
