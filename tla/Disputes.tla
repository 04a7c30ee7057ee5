------------------------------ MODULE Disputes ------------------------------
(***************************************************************************)
(* DisputesService (apps/api/src/disputes/disputes.service.ts): evidence    *)
(* for and the outcome of the disputes that the chargeback webhook opened.  *)
(*                                                                          *)
(* A call reads the dispute, checks the status it read, and writes later.   *)
(* setOutcome opens a transaction (the outer one) that books under a unique *)
(* ledger key per dispute and outcome and sets the status; for WON it gives *)
(* the credits back in between, in a transaction of CreditsService's own    *)
(* that commits by itself.  attachEvidence writes without a transaction.    *)
(* What a transaction wrote is invisible until its commit, so a booking is  *)
(* counted there; its key, and the row it updated, are held until then.     *)
(***************************************************************************)
EXTENDS Integers, FiniteSets

CONSTANTS
  Disputes,   \* rows of disputes
  Handlers,   \* admin calls being handled at the same time
  NoDispute,  \* an idle handler's dispute
  Outcomes,   \* outcomes that admins ask for
  Apart,      \* disputes on which admins never overlap two calls
  Expiry,     \* TRUE: outer transactions may time out under a running handler
  MaxFaults   \* bound on crashes, failed statements and rollbacks

Outcome == {"WON", "LOST"}

ASSUME OutcomesAssumption == Outcomes \subseteq Outcome
ASSUME NoDisputeAssumption == NoDispute \notin Disputes
ASSUME ApartAssumption == Apart \subseteq Disputes
ASSUME MaxFaultsAssumption == MaxFaults \in Nat

VARIABLES
  status,    \* committed status; "none" before the webhook
  booked,    \* committed ledger transactions per dispute and outcome
  restored,  \* committed credit_transactions under dispute_won_{id}
  evidence,  \* whether a dispute_evidence row is there
  pc,        \* where each handler is
  at,        \* the dispute it works on
  wants,     \* the outcome it is to record, or the status it has read
  tx,        \* its outer transaction
  faults

db == <<status, booked, restored, evidence>>
vars == <<status, booked, restored, evidence, pc, at, wants, tx,
          faults>>

\* DISPUTE_TRANSITIONS, as far as setOutcome uses it.
Open == {"OPEN", "EVIDENCE_SUBMITTED"}

Stage == {"idle", "evidence", "submit", "ledger", "insert", "lookup",
          "credit", "update", "commit"}

\* g has booked an outcome of d and not committed yet: it holds the ledger key
\* and, as both outcomes move it, the asset account of d's user.
HoldsAccounts(g, d) == tx[g] = "booked" /\ at[g] = d

\* g has updated the row of d and not committed yet.
RowFree(d) == ~ \E g \in Handlers : pc[g] = "commit" /\ at[g] = d

Init ==
  /\ status = [d \in Disputes |-> "none"]
  /\ booked = [d \in Disputes |-> [o \in Outcome |-> 0]]
  /\ restored = [d \in Disputes |-> 0]
  /\ evidence = [d \in Disputes |-> FALSE]
  /\ pc = [h \in Handlers |-> "idle"]
  /\ at = [h \in Handlers |-> NoDispute]
  /\ wants = [h \in Handlers |-> "WON"]
  /\ tx = [h \in Handlers |-> "none"]
  /\ faults = 0
-----------------------------------------------------------------------------
Goto(h, l) == pc' = [pc EXCEPT ![h] = l]

\* The call is answered; a transaction it had open is over.
Answer(h) ==
  /\ Goto(h, "idle")
  /\ at' = [at EXCEPT ![h] = NoDispute]
  /\ tx' = [tx EXCEPT ![h] = "none"]
  /\ UNCHANGED wants

Fault == faults < MaxFaults /\ faults' = faults + 1

\* The chargeback webhook's commit (see Webhooks): the dispute and its
\* reversal.
CreateDispute(d) ==
  /\ status[d] = "none"
  /\ status' = [status EXCEPT ![d] = "OPEN"]
  /\ UNCHANGED <<booked, restored, evidence, pc, at, wants, tx, faults>>

Start(h, d, l) ==
  /\ pc[h] = "idle"
  /\ Goto(h, l)
  /\ at' = [at EXCEPT ![h] = d]
  /\ UNCHANGED <<db, faults>>

\* attachEvidence's read; it keeps whether it read OPEN ("submit" follows).
ReadForEvidence(h, d) ==
  /\ status[d] # "none"
  /\ Start(h, d, "evidence")
  /\ wants' = [wants EXCEPT ![h] = status[d]]
  /\ UNCHANGED tx

\* Bug: the status is set whatever it was.
CreateEvidenceAlways(h) ==
  /\ pc[h] = "evidence"
  /\ evidence' = [evidence EXCEPT ![at[h]] = TRUE]
  /\ Goto(h, "submit")
  /\ UNCHANGED <<status, booked, restored, at, wants, tx, faults>>

\* disputeEvidence.create: at any status, decided disputes included.
CreateEvidence(h) ==
  /\ pc[h] = "evidence"
  /\ evidence' = [evidence EXCEPT ![at[h]] = TRUE]
  /\ IF wants[h] = "OPEN"
     THEN Goto(h, "submit") /\ UNCHANGED <<at, tx, wants>>
     ELSE Answer(h)
  /\ UNCHANGED <<status, booked, restored, faults>>

\* The update is by id alone, after the status that was read.
SubmitEvidence(h) ==
  /\ pc[h] = "submit"
  /\ RowFree(at[h])
  /\ status' = [status EXCEPT ![at[h]] = "EVIDENCE_SUBMITTED"]
  /\ Answer(h)
  /\ UNCHANGED <<booked, restored, evidence, faults>>

\* setOutcome up to its transaction: assertTransition on the status read.
SetOutcome(h, d, o) ==
  /\ status[d] \in Open
  /\ Start(h, d, "ledger")
  /\ wants' = [wants EXCEPT ![h] = o]
  /\ tx' = [tx EXCEPT ![h] = "open"]

\* The accounts, which the chargeback and the seed have created and which are
\* only read here, then recordTransaction's lookup of its idempotency key.
LookupKey(h) ==
  /\ pc[h] = "ledger"
  /\ Goto(h, IF booked[at[h]][wants[h]] = 0 THEN "insert"
             ELSE IF wants[h] = "WON" THEN "lookup" ELSE "update")
  /\ UNCHANGED <<db, at, wants, tx, faults>>

\* Bug: the ledger key is not unique.
InsertBookingAnyway(h) ==
  /\ pc[h] = "insert"
  /\ ~ \E g \in Handlers \ {h} : HoldsAccounts(g, at[h])
  /\ Goto(h, IF wants[h] = "WON" THEN "lookup" ELSE "update")
  /\ tx' = [tx EXCEPT ![h] = "booked"]
  /\ UNCHANGED <<db, at, wants, faults>>

\* The booking under its unique key: handleWon's reversal of the reversal,
\* or handleLost's fee, with the entries, which wait for the user's account.
\* P2002 rolls the transaction back.
InsertBooking(h) ==
  /\ pc[h] = "insert"
  /\ ~ \E g \in Handlers \ {h} : HoldsAccounts(g, at[h])
  /\ IF booked[at[h]][wants[h]] > 0
     THEN Answer(h)
     ELSE /\ Goto(h, IF wants[h] = "WON" THEN "lookup" ELSE "update")
          /\ tx' = [tx EXCEPT ![h] = "booked"]
          /\ UNCHANGED <<at, wants>>
  /\ UNCHANGED <<db, faults>>

\* Bug: the key of the credits is not looked up.
LookupCreditsNever(h) ==
  /\ pc[h] = "lookup"
  /\ Goto(h, "credit")
  /\ UNCHANGED <<db, at, wants, tx, faults>>

\* Bug: a known key is an error of the whole call.
LookupCreditsThrowing(h) ==
  /\ pc[h] = "lookup"
  /\ IF restored[at[h]] > 0
     THEN Answer(h)
     ELSE Goto(h, "credit") /\ UNCHANGED <<at, wants, tx>>
  /\ UNCHANGED <<db, faults>>

\* addCredits: the lookup of dispute_won_{id}, on its own connection.
LookupCredits(h) ==
  /\ pc[h] = "lookup"
  /\ Goto(h, IF restored[at[h]] > 0 THEN "update" ELSE "credit")
  /\ UNCHANGED <<db, at, wants, tx, faults>>

\* The inner transaction commits; nothing here asks whether the webhook's
\* deduction was ever made.
RestoreCredits(h) ==
  /\ pc[h] = "credit"
  /\ restored' = [restored EXCEPT ![at[h]] = @ + 1]
  /\ Goto(h, "update")
  /\ UNCHANGED <<status, booked, evidence, at, wants, tx, faults>>

\* tx.dispute.update: takes the row lock.
UpdateStatus(h) ==
  /\ pc[h] = "update" /\ tx[h] # "expired"
  /\ RowFree(at[h])
  /\ Goto(h, "commit")
  /\ UNCHANGED <<db, at, wants, tx, faults>>

CommitOutcome(h) ==
  /\ pc[h] = "commit"
  /\ status' = [status EXCEPT ![at[h]] = wants[h]]
  /\ booked' = IF tx[h] = "booked" THEN [booked EXCEPT ![at[h]][wants[h]] = @ + 1]
               ELSE booked
  /\ Answer(h)
  /\ UNCHANGED <<restored, evidence, faults>>

\* The next query of an expired transaction fails.
ExpiredFails(h) ==
  /\ pc[h] = "update" /\ tx[h] = "expired"
  /\ Answer(h)
  /\ UNCHANGED <<db, faults>>

Step(h) ==
  CreateEvidence(h) \/ SubmitEvidence(h) \/ LookupKey(h) \/ InsertBooking(h)
    \/ LookupCredits(h) \/ RestoreCredits(h) \/ UpdateStatus(h)
    \/ CommitOutcome(h) \/ ExpiredFails(h)
-----------------------------------------------------------------------------
\* A failed addCredits is caught; handleWon goes on.
CreditsFail(h) ==
  /\ pc[h] \in {"lookup", "credit"}
  /\ Fault
  /\ Goto(h, "update")
  /\ UNCHANGED <<db, at, wants, tx>>

\* Prisma rolls the outer transaction back while the inner one runs.
Expire(h) ==
  /\ Expiry /\ pc[h] \in {"lookup", "credit"}
  /\ Fault
  /\ tx' = [tx EXCEPT ![h] = "expired"]
  /\ UNCHANGED <<db, pc, at, wants>>

\* A statement or the commit fails: the transaction, if any, rolls back.
Fail(h) ==
  /\ pc[h] \notin {"idle", "lookup", "credit"}
  /\ Fault
  /\ Answer(h)
  /\ UNCHANGED db

Crash ==
  /\ Fault
  /\ pc' = [h \in Handlers |-> "idle"]
  /\ at' = [h \in Handlers |-> NoDispute]
  /\ tx' = [h \in Handlers |-> "none"]
  /\ UNCHANGED <<db, wants>>

\* Admins make a call about d: where they keep theirs apart, after the others.
MayCall(d) == d \in Apart => \A g \in Handlers : at[g] # d

Next ==
  \/ \E d \in Disputes :
       \/ CreateDispute(d)
       \/ \E h \in Handlers :
            /\ MayCall(d)
            /\ ReadForEvidence(h, d) \/ \E o \in Outcomes : SetOutcome(h, d, o)
  \/ \E h \in Handlers : Step(h) \/ CreditsFail(h) \/ Expire(h) \/ Fail(h)
  \/ Crash

Spec == Init /\ [][Next]_vars

\* Calls run on, and admins record a dispute as WON again until it is decided;
\* that anybody records LOST is not assumed.
FairSpec ==
  /\ Spec
  /\ \A h \in Handlers : SF_vars(Step(h))
  /\ \A d \in Disputes :
       SF_vars(MayCall(d) /\ \E h \in Handlers : SetOutcome(h, d, "WON"))
-----------------------------------------------------------------------------
TypeOK ==
  /\ status \in [Disputes -> {"none"} \cup Open \cup Outcome]
  /\ booked \in [Disputes -> [Outcome -> Nat]]
  /\ restored \in [Disputes -> Nat]
  /\ evidence \in [Disputes -> BOOLEAN]
  /\ pc \in [Handlers -> Stage]
  /\ at \in [Handlers -> Disputes \cup {NoDispute}]
  /\ wants \in [Handlers -> Open \cup Outcome]
  /\ tx \in [Handlers -> {"none", "open", "booked", "expired"}]
  /\ faults \in 0 .. MaxFaults
  /\ \A h \in Handlers : pc[h] # "idle" => at[h] \in Disputes

\* However outcomes race, repeat or fail, each is booked once at most, and a
\* dispute that shows an outcome has it booked.
OutcomeBookedOnce ==
  \A d \in Disputes :
    /\ \A o \in Outcome : booked[d][o] <= 1
    /\ status[d] \in Outcome => booked[d][status[d]] = 1

\* WON and LOST never fire both for one dispute.
OutcomesExclude ==
  \A d \in Disputes : ~ (booked[d]["WON"] > 0 /\ booked[d]["LOST"] > 0)

\* They do not where admins keep their calls on a dispute apart, whatever
\* fails or expires in between.
OneOutcome ==
  \A d \in Apart : ~ (booked[d]["WON"] > 0 /\ booked[d]["LOST"] > 0)

\* There, dispute_won_{id} gives the credits back once, however often WON is
\* recorded again after the transaction around it was lost,
RestoredAtMostOnce == \A d \in Apart : restored[d] <= 1

\* and WON and LOST are terminal.
TerminalStays ==
  [][\A d \in Apart : status[d] \in Outcome => status'[d] = status[d]]_vars

\* A dispute that is recorded as WON again and again gets decided, past any
\* failure between the credits and the commit.
OutcomeReached ==
  \A d \in Disputes : status[d] = "OPEN" ~> status[d] \in Outcomes

Case ==
  INSTANCE DisputeCase WITH
    Disputes <- Apart,
    state <- [d \in Apart |-> status[d]],
    booked <- [d \in Apart |-> {o \in Outcome : booked[d][o] > 0}]

\* On disputes whose calls are kept apart, decision and booking are one step
\* of one case, whatever happens to the others at the same time.
ImplementsCase == Case!Spec
=============================================================================
