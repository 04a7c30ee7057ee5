------------------------------ MODULE Webhooks ------------------------------
(***************************************************************************)
(* The gateway callbacks: AuthorizeNetWebhookController.handleWebhook and   *)
(* SolanaConfirmationController.handleConfirmation.                         *)
(*                                                                          *)
(* The gateway delivers an event until it is answered with 200, and may     *)
(* deliver it again while an earlier delivery is still being handled.  A    *)
(* handler looks the dedup row up, then opens one transaction (the outer    *)
(* one) that inserts the dedup row, writes what the event is about and      *)
(* commits.  CreditsService always opens a transaction of its own, on a     *)
(* second connection of the pool: what it commits stays whatever becomes of *)
(* the outer one.  An insert under a unique key waits while another open    *)
(* transaction has inserted the key, and fails (P2002) once it is           *)
(* committed.  An upsert that updates nothing is a read and then such an    *)
(* insert; both controllers take every P2002 of the outer transaction for   *)
(* an event that was processed before.  Prisma expires an outer transaction *)
(* after its timeout while the handler still awaits the inner one.          *)
(***************************************************************************)
EXTENDS Integers, FiniteSets

CONSTANTS
  Handlers,   \* requests being handled at the same time
  Events,     \* what the gateways deliver: see Event
  Txns,       \* transaction ids of the gateways
  Required,   \* SOLANA_REQUIRED_CONFIRMATIONS
  Opening,    \* credits of the user before the first event
  Pool,       \* connections of the Prisma pool
  MaxFaults,  \* bound on crashes, lost answers and rolled back transactions
  Expiry,     \* TRUE: outer transactions may time out under a running handler
  NoEvent     \* the event of an idle handler

Event ==
  [id : STRING,      \* dedup id: eventId, or the transaction hash on Solana
   type : {"subscription", "cancellation", "charge.approved",
           "charge.refunded", "chargeback.received", "confirmation"},
   ref : {"none", "credits", "invalid"},   \* data.contextRef
   txn : Txns,
   amount : Int,     \* credits of the contextRef, cents of the chargeback
   depth : Nat]      \* confirmations

ASSUME EventsAssumption == Events \subseteq Event
ASSUME BoundsAssumption == MaxFaults \in Nat /\ Pool \in Nat \ {0} /\ Opening \in Nat

\* An id told again tells of the same thing, a confirmation perhaps deeper.
ASSUME IdsAssumption ==
  \A e, f \in Events :
    e.id = f.id => e.type = f.type /\ e.ref = f.ref /\ e.txn = f.txn

VARIABLES
  processed,   \* committed processed_webhooks ids
  effects,     \* how often each dedup id's own writes were committed
  reversals,   \* committed ledger reversals of each chargeback's transaction
  credits,     \* the user's committed credits balance
  creditRows,  \* committed credit_transactions per idempotency key
  rows,        \* committed rows that are made where they are missing: Rows
  acked,       \* events the gateway holds a 200 for
  ev,          \* the event each handler works on
  pc,          \* where each handler is
  outer,       \* "none", "open" or "expired"
  writes,      \* whether the outer transaction writes more than the dedup row
  faults

db == <<processed, effects, reversals, credits, creditRows, rows>>
vars == <<processed, effects, reversals, credits, creditRows, rows, acked, ev,
          pc, outer, writes, faults>>

Ids == {e.id : e \in Events}

CreditKeys == {"charge", "refund", "chargeback", "solana"} \X Txns

Grants(e) ==
  e.type = "confirmation" \/ (e.type = "charge.approved" /\ e.ref = "credits")

Deducts(e) ==
  e.type = "chargeback.received"
    \/ (e.type = "charge.refunded" /\ e.ref = "credits")

CreditKey(e) ==
  << CASE e.type = "charge.approved" -> "charge"
       [] e.type = "charge.refunded" -> "refund"
       [] e.type = "confirmation" -> "solana"
       [] OTHER -> "chargeback", e.txn >>

\* The ledger accounts of a chargeback, the user's ASSET and REVENUE, as one;
\* other services make them too.
Accounts == <<"accounts">>

Rows == {Accounts} \cup ({"authorize_net", "solana"} \X Txns)

\* What the outer transaction makes if it is missing: the accounts, or the
\* charge record of the gateway's transaction.
RowsOf(e) ==
  CASE e.type = "chargeback.received" -> {Accounts}
    [] e.type = "confirmation" -> {<<"solana", e.txn>>}
    [] \/ e.type = "subscription"
       \/ e.type = "charge.approved" /\ e.ref # "invalid" ->
         {<<"authorize_net", e.txn>>}
    [] OTHER -> {}

\* The handler awaits an inner credits transaction that is open.
Inner(h) == pc[h] = "credit"

Connections ==
  Cardinality({h \in Handlers : outer[h] = "open"})
    + Cardinality({h \in Handlers : Inner(h)})

\* h has an open transaction that has inserted the dedup id, or the dispute.
HoldsId(h, id) ==
  outer[h] = "open" /\ pc[h] \notin {"idle", "begin", "insert"} /\ ev[h].id = id

HoldsDispute(h, t) ==
  /\ outer[h] = "open"
  /\ writes[h] /\ ev[h].type = "chargeback.received" /\ ev[h].txn = t

\* h has an open transaction past its upserts: what of r was missing it has
\* made.
HoldsRow(h, r) ==
  /\ outer[h] = "open" /\ writes[h] /\ r \in RowsOf(ev[h])
  /\ \/ pc[h] = "settle"
     \/ pc[h] \in {"lookup", "credit"} /\ ev[h].type = "chargeback.received"

Init ==
  /\ processed = {}
  /\ effects = [i \in Ids |-> 0]
  /\ reversals = [t \in Txns |-> 0]
  /\ credits = Opening
  /\ creditRows = [k \in CreditKeys |-> 0]
  /\ rows = {}
  /\ acked = {}
  /\ ev = [h \in Handlers |-> NoEvent]
  /\ pc = [h \in Handlers |-> "idle"]
  /\ outer = [h \in Handlers |-> "none"]
  /\ writes = [h \in Handlers |-> FALSE]
  /\ faults = 0
-----------------------------------------------------------------------------
Goto(h, l) == pc' = [pc EXCEPT ![h] = l]

\* The handler answers; its outer transaction is over.
Finish(h) ==
  /\ Goto(h, "idle")
  /\ ev' = [ev EXCEPT ![h] = NoEvent]
  /\ outer' = [outer EXCEPT ![h] = "none"]
  /\ writes' = [writes EXCEPT ![h] = FALSE]

Answer200(h) == Finish(h) /\ acked' = acked \cup {ev[h]}

\* The exception goes up to Nest: the transaction rolls back, no 200.
Answer500(h) == Finish(h) /\ UNCHANGED acked

Fault == faults < MaxFaults /\ faults' = faults + 1

\* Bug: a known event is refused instead of acknowledged.
ReceiveRefusing(h, e) ==
  /\ pc[h] = "idle"
  /\ IF e.id \in processed
     THEN UNCHANGED <<acked, ev, pc>>
     ELSE IF e.type = "confirmation" /\ e.depth < Required
          THEN acked' = acked \cup {e} /\ UNCHANGED <<ev, pc>>
          ELSE /\ Goto(h, "begin")
               /\ ev' = [ev EXCEPT ![h] = e]
               /\ UNCHANGED acked
  /\ UNCHANGED <<db, outer, writes, faults>>

\* Bug: a confirmation is not asked how deep it is.
ReceiveShallow(h, e) ==
  /\ pc[h] = "idle"
  /\ IF e.id \in processed
     THEN acked' = acked \cup {e} /\ UNCHANGED <<ev, pc>>
     ELSE /\ Goto(h, "begin")
          /\ ev' = [ev EXCEPT ![h] = e]
          /\ UNCHANGED acked
  /\ UNCHANGED <<db, outer, writes, faults>>

\* The request arrives: too shallow a confirmation is acknowledged, and so is
\* an event whose dedup row is there already.
Receive(h, e) ==
  /\ pc[h] = "idle"
  /\ IF (e.type = "confirmation" /\ e.depth < Required) \/ e.id \in processed
     THEN acked' = acked \cup {e} /\ UNCHANGED <<ev, pc>>
     ELSE /\ Goto(h, "begin")
          /\ ev' = [ev EXCEPT ![h] = e]
          /\ UNCHANGED acked
  /\ UNCHANGED <<db, outer, writes, faults>>

\* $transaction takes a connection of the pool.
OpenOuter(h) ==
  /\ pc[h] = "begin"
  /\ Connections < Pool
  /\ outer' = [outer EXCEPT ![h] = "open"]
  /\ Goto(h, "insert")
  /\ UNCHANGED <<db, acked, ev, writes, faults>>

\* Bug: no unique constraint on the dedup row.
InsertDedupAnyway(h) ==
  /\ pc[h] = "insert" /\ outer[h] = "open"
  /\ Goto(h, "apply")
  /\ UNCHANGED <<db, acked, ev, outer, writes, faults>>

\* Bug: an event in another handler's hands is answered as processed.
InsertDedupSkipping(h) ==
  /\ pc[h] = "insert" /\ outer[h] = "open"
  /\ IF ev[h].id \in processed \/ \E g \in Handlers \ {h} : HoldsId(g, ev[h].id)
     THEN Answer200(h)
     ELSE Goto(h, "apply") /\ UNCHANGED <<acked, ev, outer, writes>>
  /\ UNCHANGED <<db, faults>>

\* processedWebhook.create; P2002 is taken for "already processed".
InsertDedup(h) ==
  /\ pc[h] = "insert" /\ outer[h] = "open"
  /\ ~ \E g \in Handlers \ {h} : HoldsId(g, ev[h].id)
  /\ IF ev[h].id \in processed
     THEN Answer200(h)
     ELSE Goto(h, "apply") /\ UNCHANGED <<acked, ev, outer, writes>>
  /\ UNCHANGED <<db, faults>>

\* applyEvent up to its first insert or its first await on CreditsService.
ApplyEvent(h) ==
  LET e == ev[h]
      Continue(l, w) == /\ Goto(h, l)
                        /\ writes' = [writes EXCEPT ![h] = w]
                        /\ UNCHANGED <<acked, ev, outer>>
  IN
  /\ pc[h] = "apply" /\ outer[h] = "open"
  /\ \/ /\ \/ e.type = "subscription"   \* subscription.created, renewed
           \/ e.type = "cancellation"   \* subscription.canceled, charge.failed
        /\ Continue(IF e.type = "subscription" THEN "upsert" ELSE "settle", TRUE)
     \/ /\ e.type \in {"charge.approved", "charge.refunded"}
        /\ e.ref # "credits"
        /\ IF e.type = "charge.approved" /\ e.ref = "none"
           THEN Continue("upsert", TRUE)
           ELSE Continue("settle", FALSE)
     \/ /\ e.type # "chargeback.received" /\ (Grants(e) \/ Deducts(e))
        /\ Continue("lookup", Grants(e))
     \/ /\ e.type = "chargeback.received"   \* createDispute: findUnique
        /\ Continue(IF reversals[e.txn] > 0 THEN "settle" ELSE "dispute", FALSE)
  /\ UNCHANGED <<db, faults>>

\* Bug: neither the dispute id nor the ledger key is unique.
WriteDisputeAnyway(h) ==
  /\ pc[h] = "dispute" /\ outer[h] = "open"
  /\ Goto(h, "upsert")
  /\ writes' = [writes EXCEPT ![h] = TRUE]
  /\ UNCHANGED <<db, acked, ev, outer, faults>>

\* createDispute's insert under the unique gatewayDisputeId; the reversal and
\* the link to it stay in its transaction.
WriteDispute(h) ==
  LET t == ev[h].txn
  IN
  /\ pc[h] = "dispute" /\ outer[h] = "open"
  /\ ~ \E g \in Handlers \ {h} : HoldsDispute(g, t)
  /\ \/ reversals[t] > 0 /\ Answer200(h)
     \/ /\ reversals[t] = 0
        /\ Goto(h, "upsert")
        /\ writes' = [writes EXCEPT ![h] = TRUE]
        /\ UNCHANGED <<acked, ev, outer>>
  /\ UNCHANGED <<db, faults>>

\* The rows are there: the charge record was the last write; a chargeback goes
\* on to its reversal, whose entries recordTransaction refuses if they are
\* about nothing.
Proceed(h) ==
  LET e == ev[h]
  IN
  IF e.type = "chargeback.received" /\ e.amount <= 0
  THEN Answer500(h)
  ELSE /\ Goto(h, IF e.type = "chargeback.received" THEN "lookup" ELSE "settle")
       /\ UNCHANGED <<acked, ev, outer, writes>>

\* An upsert with nothing to update looks for the row among the committed
\* ones.
FindRow(h) ==
  /\ pc[h] = "upsert" /\ outer[h] = "open"
  /\ IF RowsOf(ev[h]) \subseteq rows
     THEN Proceed(h)
     ELSE Goto(h, "create") /\ UNCHANGED <<acked, ev, outer, writes>>
  /\ UNCHANGED <<db, faults>>

\* It found none and inserts: a row committed in between is a P2002, which
\* both controllers take for "already processed".
CreateRow(h) ==
  /\ pc[h] = "create" /\ outer[h] = "open"
  /\ \/ RowsOf(ev[h]) \subseteq rows /\ Answer200(h)
     \/ /\ ~ (RowsOf(ev[h]) \subseteq rows)
        /\ ~ \E g \in Handlers \ {h}, r \in RowsOf(ev[h]) : HoldsRow(g, r)
        /\ Proceed(h)
  /\ UNCHANGED <<db, faults>>

\* Bug: errors of addCredits are caught like those of deductCredits.
InnerErrorCaught(h) ==
  Goto(h, "settle") /\ UNCHANGED <<acked, ev, outer, writes>>

\* An error in CreditsService: addCredits lets it through, the callers of
\* deductCredits catch it and go on.
InnerError(h) ==
  IF Deducts(ev[h])
  THEN Goto(h, "settle") /\ UNCHANGED <<acked, ev, outer, writes>>
  ELSE Answer500(h)

\* Credits are granted before the charge record and taken after everything.
AfterCredits(e) == IF Grants(e) THEN "upsert" ELSE "settle"

\* Bug: the idempotency key is not looked up.
InnerLookupWithoutKey(h) ==
  /\ pc[h] = "lookup"
  /\ Connections < Pool
  /\ Goto(h, "credit")
  /\ UNCHANGED <<db, acked, ev, outer, writes, faults>>

\* addCredits, deductCredits: a second connection, then the lookup of the key
\* among the committed rows.
InnerLookup(h) ==
  /\ pc[h] = "lookup"
  /\ IF ev[h].amount <= 0
     THEN InnerError(h)
     ELSE /\ Connections < Pool
          /\ Goto(h, IF creditRows[CreditKey(ev[h])] > 0
                     THEN AfterCredits(ev[h]) ELSE "credit")
          /\ UNCHANGED <<acked, ev, outer, writes>>
  /\ UNCHANGED <<db, faults>>

\* Bug: the deduction does not check the balance.
InnerCommitUnchecked(h) ==
  /\ pc[h] = "credit"
  /\ credits' = IF Grants(ev[h]) THEN credits + ev[h].amount
                ELSE credits - ev[h].amount
  /\ creditRows' = [creditRows EXCEPT ![CreditKey(ev[h])] = @ + 1]
  /\ Goto(h, AfterCredits(ev[h]))
  /\ UNCHANGED <<processed, effects, reversals, rows, acked, ev, outer, writes,
                 faults>>

\* The inner transaction commits by itself, or finds too few credits.
InnerCommit(h) ==
  LET e == ev[h]
      k == CreditKey(e)
  IN
  /\ pc[h] = "credit"
  /\ \/ /\ Grants(e) \/ credits >= e.amount
        /\ credits' = IF Grants(e) THEN credits + e.amount ELSE credits - e.amount
        /\ creditRows' = [creditRows EXCEPT ![k] = @ + 1]
        /\ Goto(h, AfterCredits(e))
        /\ UNCHANGED <<acked, ev, outer, writes>>
     \/ /\ Deducts(e) /\ credits < e.amount
        /\ InnerError(h)
        /\ UNCHANGED <<credits, creditRows>>
  /\ UNCHANGED <<processed, effects, reversals, rows, faults>>

\* The outer COMMIT: the dedup row and the event's writes together.
CommitOuter(h) ==
  LET e == ev[h]
  IN
  /\ pc[h] = "settle" /\ outer[h] = "open"
  /\ processed' = processed \cup {e.id}
  /\ effects' = IF writes[h] THEN [effects EXCEPT ![e.id] = @ + 1] ELSE effects
  /\ reversals' = IF writes[h] /\ e.type = "chargeback.received"
                  THEN [reversals EXCEPT ![e.txn] = @ + 1] ELSE reversals
  /\ rows' = IF writes[h] THEN rows \cup RowsOf(e) ELSE rows
  /\ \/ Answer200(h) /\ UNCHANGED faults
     \/ Answer500(h) /\ Fault                  \* the answer is lost
  /\ UNCHANGED <<credits, creditRows>>

\* The next query of an expired transaction fails.
ExpiredFails(h) ==
  /\ outer[h] = "expired" /\ pc[h] \notin {"lookup", "credit"}
  /\ Answer500(h)
  /\ UNCHANGED <<db, faults>>

Step(h) ==
  OpenOuter(h) \/ InsertDedup(h) \/ ApplyEvent(h) \/ WriteDispute(h)
    \/ FindRow(h) \/ CreateRow(h) \/ InnerLookup(h) \/ InnerCommit(h)
    \/ CommitOuter(h) \/ ExpiredFails(h)
-----------------------------------------------------------------------------
\* Prisma rolls the outer transaction back under the running handler.
Expire(h) ==
  /\ Expiry /\ outer[h] = "open"
  /\ Fault
  /\ outer' = [outer EXCEPT ![h] = "expired"]
  /\ UNCHANGED <<db, acked, ev, pc, writes>>

\* No connection within maxWait: the outer or the inner call throws.  When
\* every connection is an outer transaction's whose handler waits for a
\* second one, this is the only way on.
AcquireTimeout(h) ==
  /\ Connections >= Pool
  /\ \/ pc[h] = "begin" /\ Answer500(h)
     \/ pc[h] = "lookup" /\ InnerError(h)
  /\ UNCHANGED <<db, faults>>

\* The inner transaction is rolled back: timeout, connection lost.
InnerRollback(h) ==
  /\ pc[h] = "credit"
  /\ Fault
  /\ InnerError(h)
  /\ UNCHANGED db

\* The outer transaction fails in a query of its own.
OuterRollback(h) ==
  /\ outer[h] = "open" /\ pc[h] \notin {"lookup", "credit"}
  /\ Fault
  /\ Answer500(h)
  /\ UNCHANGED db

\* The process dies: every open transaction rolls back, nothing is answered.
Crash ==
  /\ Fault
  /\ \E h \in Handlers : pc[h] # "idle"
  /\ ev' = [h \in Handlers |-> NoEvent]
  /\ pc' = [h \in Handlers |-> "idle"]
  /\ outer' = [h \in Handlers |-> "none"]
  /\ writes' = [h \in Handlers |-> FALSE]
  /\ UNCHANGED <<db, acked>>

\* Another service's transaction makes the accounts: a refund's reversal, the
\* outcome of a dispute.  Its insert waits for a handler's like any other.
OthersCreate ==
  /\ Accounts \notin rows
  /\ ~ \E h \in Handlers : HoldsRow(h, Accounts)
  /\ rows' = rows \cup {Accounts}
  /\ UNCHANGED <<processed, effects, reversals, credits, creditRows, acked, ev,
                 pc, outer, writes, faults>>

Next ==
  \/ \E h \in Handlers :
       \/ \E e \in Events : Receive(h, e)
       \/ Step(h)
       \/ Expire(h) \/ AcquireTimeout(h) \/ InnerRollback(h) \/ OuterRollback(h)
  \/ Crash
  \/ OthersCreate

Spec == Init /\ [][Next]_vars

\* Handlers run on; a gateway keeps delivering what it has no 200 for, and
\* such a delivery is taken up although others compete for the handlers.
FairSpec ==
  /\ Spec
  /\ \A h \in Handlers : SF_vars(Step(h))
  /\ \A e \in Events :
       SF_vars(e \notin acked /\ \E h \in Handlers : Receive(h, e))
-----------------------------------------------------------------------------
TypeOK ==
  /\ processed \in SUBSET Ids
  /\ effects \in [Ids -> Nat]
  /\ reversals \in [Txns -> Nat]
  /\ credits \in Nat
  /\ creditRows \in [CreditKeys -> Nat]
  /\ rows \in SUBSET Rows
  /\ acked \in SUBSET Events
  /\ ev \in [Handlers -> Events \cup {NoEvent}]
  /\ pc \in [Handlers -> {"idle", "begin", "insert", "apply", "dispute",
                          "upsert", "create", "lookup", "credit", "settle"}]
  /\ outer \in [Handlers -> {"none", "open", "expired"}]
  /\ writes \in [Handlers -> BOOLEAN]
  /\ faults \in 0 .. MaxFaults

\* Replays, concurrent deliveries, crashes and lost answers never apply the
\* writes of an event's own transaction twice, and never without its dedup
\* row.
EffectsExactlyOnce ==
  \A i \in Ids : effects[i] <= 1 /\ (effects[i] = 1 => i \in processed)

\* One ledger reversal per disputed transaction, also when the gateway tells
\* of one chargeback in two events.
OneReversalPerCharge == \A t \in Txns : reversals[t] <= 1

\* What an answer with 200 should mean: the dedup row of the event is there and
\* with it the credits it grants, or another event's handling of the same
\* chargeback, or the confirmation will be told again.
Settled(e) ==
  \/ /\ e.id \in processed
     /\ Grants(e) => creditRows[CreditKey(e)] >= 1
  \/ e.type = "chargeback.received" /\ reversals[e.txn] = 1
  \/ e.type = "confirmation" /\ e.depth < Required

\* handleWebhook's comment: if the side effect throws, the dedup row is rolled
\* back and the event will be retried.  So no event is answered with 200 that
\* has not taken effect; but CreateRow answers so after a rollback.
AckedIsSettled == \A e \in acked : Settled(e)

\* h, at work on e, found a row missing that another has committed since; the
\* credits e grants have moved.
Beaten(h, e) ==
  /\ pc[h] = "create" /\ ev[h] = e /\ RowsOf(e) \subseteq rows
  /\ Grants(e) => creditRows[CreditKey(e)] >= 1

\* An event is answered with 200 only once it has taken effect, with one
\* exception: its handler lost the race for the first account or for the
\* charge record.  Whatever else fails leaves it to be told again.
AckedIsSettledOrBeaten ==
  [][\A e \in acked' \ acked :
       Settled(e)' \/ \E h \in Handlers : Beaten(h, e)]_vars

\* A credits idempotency key moves credits once.
CreditsAtMostOnce == \A k \in CreditKeys : creditRows[k] <= 1

\* A handler goes on without its deduction only if the user has spent the
\* credits (or the deduction was made before).
SkippedOnlyIfSpent ==
  [][\A h \in Handlers :
       pc[h] \in {"lookup", "credit"} /\ Deducts(ev[h]) /\ pc'[h] = "settle"
         => \/ creditRows'[CreditKey(ev[h])] > 0
            \/ credits < ev[h].amount]_vars

Moves(e) == Grants(e) \/ Deducts(e)

\* Credits of one transaction are told of under one id; chargebacks need not
\* be, as the dispute holds their key.
OneIdPerKey ==
  \A e, f \in Events :
    /\ Moves(e) /\ Moves(f) /\ e.type # "chargeback.received"
    /\ e.type = f.type /\ e.txn = f.txn
    => e.id = f.id

\* Where a key moves credits once.
KeysOnce == ~ Expiry /\ OneIdPerKey

MovedKeys == {k \in CreditKeys : creditRows[k] > 0}

\* The credits an event moves; a number that is not positive moves none.
Moved(e) ==
  IF e.amount <= 0 THEN 0
  ELSE IF Grants(e) THEN e.amount
  ELSE IF Deducts(e) THEN -e.amount
  ELSE 0

\* The events by what they are about.
Granting == {e \in Events : Grants(e)}
Claiming == {e \in Events : e.type = "chargeback.received"}
Writing ==
  {e \in Events :
     \/ e.type \in {"subscription", "cancellation"} \/ Grants(e)
     \/ e.type = "charge.approved" /\ e.ref = "none"}
Early == {e \in Events : e.type = "confirmation" /\ e.depth < Required}

Promise ==
  INSTANCE Inbox WITH
    Id <- [e \in Events |-> e.id],
    Txn <- [e \in Events |-> e.txn],
    Key <- [e \in Events |-> CreditKey(e)],
    Delta <- [e \in Events |-> Moved(e)],
    Makes <- [e \in Events |-> RowsOf(e)],
    Shared <- {Accounts},
    Once <- KeysOnce,
    done <- processed,
    bal <- credits,
    moved <- MovedKeys,
    answered <- acked

\* However deliveries overlap and fail, the two controllers handle an event in
\* one step and once, with the credits it grants moved before; where outer
\* transactions do not expire, credits move once per key and never for an
\* event that is done; and what is answered with 200 is settled, or lost to a
\* row that somebody else made.
ImplementsInbox == Promise!Spec

\* An event that can be applied is in the end answered with 200 for good.
EventsSettle ==
  \A e \in Events : <>(e \in acked)
=============================================================================
