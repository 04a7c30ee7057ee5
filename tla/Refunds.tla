------------------------------ MODULE Refunds ------------------------------
(***************************************************************************)
(* RefundsService (apps/api/src/refunds/refunds.service.ts): a user asks    *)
(* for a refund, an admin approves or denies it, an admin processes it.     *)
(*                                                                          *)
(* Every call reads the refund_requests row, checks the status it read and  *)
(* awaits other services before it writes the row: several calls may have   *)
(* passed their check on the same row.  Processing a PAYMENT request calls  *)
(* the gateway, then opens one transaction (the outer one) that reverses    *)
(* the charge in the ledger under a unique key, stores paymentRefundId and  *)
(* deducts credits; the status is set after it, by a statement of its own.  *)
(* CreditsService commits by itself, on another connection, as in Credits.  *)
(* Whether a deduction finds enough credits is left open here.              *)
(***************************************************************************)
EXTENDS Integers, FiniteSets

CONSTANTS
  Requests,   \* rows of refund_requests
  Forms,      \* what users ask for: see Form
  Handlers,   \* admin calls being handled at the same time
  Txns,       \* gateway transaction ids
  NoTxn,      \* originalGatewayTransactionId is null
  Latest,     \* transaction of the user's newest charge record, or NoTxn
  NoId,       \* paymentRefundId is null
  NoRequest,  \* an idle handler's request
  Expiry,     \* TRUE: outer transactions may time out under a running handler
  MaxFaults   \* bound on crashes, failed calls and rolled back transactions

Form ==
  [type : {"CREDITS", "PAYMENT"}, gateway : {"AUTHORIZE_NET", "SOLANA"},
   txn : Txns \cup {NoTxn}]

ASSUME FormsAssumption == Forms \subseteq Form
ASSUME LatestAssumption == Latest \in Txns \cup {NoTxn}
ASSUME MaxFaultsAssumption == MaxFaults \in Nat

\* Ids the gateways give: one per refund they make, or, for a charge that is
\* refunded already, one made from its transaction.
GatewayIds == ({"fresh"} \X Requests \X Nat) \cup ({"existing"} \X Txns)

ASSUME NoIdAssumption == NoId \notin GatewayIds

VARIABLES
  form,      \* what each request asks for
  status,    \* its status; "none" before it is created
  paymentId, \* its committed paymentRefundId
  error,     \* whether lastProcessError is set
  reversed,  \* committed ledger transactions under refund_{id}_ledger
  credited,  \* committed credit_transactions under refund_{id}
  paid,      \* refunds that the gateway made under refund_{id}
  answers,   \* the gateway's idempotency log, per request
  charge,    \* what Authorize.net knows of each charge
  restarts,  \* history: how often the process, and with it the log, was lost
  pc,        \* where each handler is, or how its last call was answered
  at,        \* the request it works on
  gid,       \* the gateway's answer to it
  outer,     \* "none", "open" or "expired"
  wrote,     \* whether its open transaction has inserted the ledger key
  faults

rows == <<form, status, paymentId, error>>
money == <<reversed, credited, paid>>
gateway == <<answers, charge, restarts>>
local == <<at, gid, outer, wrote>>
vars == <<form, status, paymentId, error, reversed, credited, paid, answers,
          charge, restarts, pc, at, gid, outer, wrote, faults>>

Statuses == {"none", "PENDING", "APPROVED", "DENIED", "PROCESSED"}

\* "ok" and "failed" are idle handlers whose last call was answered so.
Idle == {"idle", "ok", "failed"}

InTransaction == {"ledger", "insert", "link", "lookup", "credit", "commit"}

\* g has inserted the ledger key of r and not committed yet.
HoldsKey(g, r) == outer[g] = "open" /\ wrote[g] /\ at[g] = r

\* g has updated the row of r in a transaction it has not committed yet.
HoldsRow(g, r) ==
  outer[g] = "open" /\ at[g] = r /\ pc[g] \in {"lookup", "credit", "commit"}

RowFree(r) == ~ \E g \in Handlers : HoldsRow(g, r)

Init ==
  /\ form \in [Requests -> Forms]
  /\ status = [r \in Requests |-> "none"]
  /\ paymentId = [r \in Requests |-> NoId]
  /\ error = [r \in Requests |-> FALSE]
  /\ reversed = [r \in Requests |-> 0]
  /\ credited = [r \in Requests |-> 0]
  /\ paid = [r \in Requests |-> 0]
  /\ answers = [r \in Requests |-> NoId]
  /\ charge \in [Txns -> {"unknown", "ok"}]
  /\ restarts = 0
  /\ pc = [h \in Handlers |-> "idle"]
  /\ at = [h \in Handlers |-> NoRequest]
  /\ gid = [h \in Handlers |-> NoId]
  /\ outer = [h \in Handlers |-> "none"]
  /\ wrote = [h \in Handlers |-> FALSE]
  /\ faults = 0
-----------------------------------------------------------------------------
Goto(h, l) == pc' = [pc EXCEPT ![h] = l]

\* The call is answered: a 2xx, or the exception goes up to Nest.
Answer(h, a) ==
  /\ Goto(h, a)
  /\ at' = [at EXCEPT ![h] = NoRequest]
  /\ gid' = [gid EXCEPT ![h] = NoId]

Fault == faults < MaxFaults /\ faults' = faults + 1

Txn(r) == IF form[r].txn = NoTxn THEN Latest ELSE form[r].txn

\* A CREDITS request never looks at its transaction.
Resolvable(r) == form[r].type = "CREDITS" \/ Txn(r) # NoTxn

\* createRefundRequest; the transaction defaults to the newest charge.
CreateRefundRequest(r) ==
  /\ status[r] = "none"
  /\ status' = [status EXCEPT ![r] = "PENDING"]
  /\ UNCHANGED <<form, paymentId, error, money, gateway, pc, local, faults>>

Start(h, r, l) ==
  /\ pc[h] \in Idle
  /\ Goto(h, l)
  /\ at' = [at EXCEPT ![h] = r]
  /\ UNCHANGED <<rows, money, gateway, gid, outer, wrote, faults>>

\* approveRefund and denyRefund up to their check; anything else is a 400.
ReadForReview(h, r) ==
  /\ status[r] = "PENDING"
  /\ \E l \in {"approve", "deny"} : Start(h, r, l)

\* Bug: the route's last segment is stored for the status.
ReviewRaw(h) ==
  /\ pc[h] \in {"approve", "deny"}
  /\ status' = [status EXCEPT ![at[h]] = pc[h]]
  /\ Answer(h, "ok")
  /\ UNCHANGED <<form, paymentId, error, money, gateway, outer, wrote, faults>>

\* approveRefund, denyRefund: the UPDATE is by id alone.
Review(h) ==
  /\ pc[h] \in {"approve", "deny"}
  /\ RowFree(at[h])
  /\ status' = [status EXCEPT ![at[h]] =
                  IF pc[h] = "approve" THEN "APPROVED" ELSE "DENIED"]
  /\ Answer(h, "ok")
  /\ UNCHANGED <<form, paymentId, error, money, gateway, outer, wrote, faults>>

\* Bug: a request with a paymentRefundId is refused instead of passed on.
DispatchRefusing(r) ==
  IF form[r].type = "CREDITS" THEN "lookup"
  ELSE IF paymentId[r] # NoId \/ Txn(r) = NoTxn THEN "record" ELSE "refund"

\* Bug: paymentRefundId is not looked at.
DispatchAgain(r) ==
  IF form[r].type = "CREDITS" THEN "lookup"
  ELSE IF Txn(r) = NoTxn THEN "record" ELSE "refund"

\* processRefund and processPaymentRefund up to the first await that writes.
Dispatch(r) ==
  IF form[r].type = "CREDITS" THEN "lookup"
  ELSE IF paymentId[r] # NoId THEN "mark"
  ELSE IF Txn(r) = NoTxn THEN "record" ELSE "refund"

\* Bug: only what is denied or processed is refused.
ReadAnyForProcess(h, r) ==
  /\ status[r] \in {"PENDING", "APPROVED"}
  /\ Start(h, r, Dispatch(r))

ReadForProcess(h, r) ==
  /\ status[r] = "APPROVED"
  /\ Start(h, r, Dispatch(r))

\* Bug: the gateway logs its keys but does not look them up.
RefundedAgain(h, r) ==
  /\ answers' = [answers EXCEPT ![r] = <<"fresh", r, paid[r] + 1>>]
  /\ paid' = [paid EXCEPT ![r] = @ + 1]
  /\ gid' = [gid EXCEPT ![h] = <<"fresh", r, paid[r] + 1>>]
  /\ UNCHANGED <<charge, restarts>>

\* adapter.refundCharge: a known key gives the logged answer; Authorize.net
\* pays no charge back that it has marked refunded (Solana marks its charges
\* too, and never looks at the mark).
Refunded(h, r) ==
  LET t == Txn(r)
      id == IF answers[r] # NoId THEN answers[r]
            ELSE IF form[r].gateway = "AUTHORIZE_NET" /\ charge[t] = "refunded"
                 THEN <<"existing", t>>
                 ELSE <<"fresh", r, paid[r] + 1>>
      pays == answers[r] = NoId /\ id[1] = "fresh"
  IN
  /\ answers' = [answers EXCEPT ![r] = id]
  /\ paid' = IF pays THEN [paid EXCEPT ![r] = @ + 1] ELSE paid
  /\ charge' = IF pays /\ form[r].gateway = "AUTHORIZE_NET" /\ charge[t] = "ok"
               THEN [charge EXCEPT ![t] = "refunded"] ELSE charge
  /\ gid' = [gid EXCEPT ![h] = id]
  /\ UNCHANGED restarts

RefundCharge(h) ==
  /\ pc[h] = "refund"
  /\ Refunded(h, at[h])
  /\ Goto(h, "ledger")
  /\ outer' = [outer EXCEPT ![h] = "open"]
  /\ UNCHANGED <<rows, reversed, credited, at, wrote, faults>>

\* recordTransaction's lookup of its idempotency key.
LookupKey(h) ==
  /\ pc[h] = "ledger"
  /\ Goto(h, IF reversed[at[h]] > 0 THEN "link" ELSE "insert")
  /\ UNCHANGED <<rows, money, gateway, local, faults>>

\* Bug: the ledger key is not unique.
InsertReversalAnyway(h) ==
  /\ pc[h] = "insert"
  /\ Goto(h, "link")
  /\ wrote' = [wrote EXCEPT ![h] = TRUE]
  /\ UNCHANGED <<rows, money, gateway, at, gid, outer, faults>>

\* The ledger transaction under its unique key: waits for another open one,
\* fails with P2002 when that one has committed.
InsertReversal(h) ==
  /\ pc[h] = "insert"
  /\ ~ \E g \in Handlers \ {h} : HoldsKey(g, at[h])
  /\ IF reversed[at[h]] > 0
     THEN /\ Goto(h, "record")
          /\ outer' = [outer EXCEPT ![h] = "none"]
          /\ UNCHANGED wrote
     ELSE /\ Goto(h, "link")
          /\ wrote' = [wrote EXCEPT ![h] = TRUE]
          /\ UNCHANGED outer
  /\ UNCHANGED <<rows, money, gateway, at, gid, faults>>

\* tx.refundRequest.update of paymentRefundId: takes the row lock.
Link(h) ==
  /\ pc[h] = "link"
  /\ RowFree(at[h])
  /\ Goto(h, "lookup")
  /\ UNCHANGED <<rows, money, gateway, local, faults>>

\* Where a handler goes on once credits have moved, and when they do not: a
\* failed deduction is caught, a failed refundCredits is not.
Moved(h) == IF form[at[h]].type = "CREDITS" THEN "mark" ELSE "commit"

\* Bug: a failed refundCredits is caught like a failed deduction.
NotMovedCaught(h) == Moved(h)

NotMoved(h) == IF form[at[h]].type = "CREDITS" THEN "record" ELSE "commit"

\* Bug: the credits key is not looked up.
LookupCreditsNever(h) ==
  /\ pc[h] = "lookup"
  /\ Goto(h, "credit")
  /\ UNCHANGED <<rows, money, gateway, local, faults>>

\* refundCredits, deductCredits: the lookup of refund_{id}.
LookupCredits(h) ==
  /\ pc[h] = "lookup"
  /\ Goto(h, IF credited[at[h]] > 0 THEN Moved(h) ELSE "credit")
  /\ UNCHANGED <<rows, money, gateway, local, faults>>

\* The inner transaction commits, or a deduction finds too few credits.
MoveCredits(h) ==
  /\ pc[h] = "credit"
  /\ \/ /\ credited' = [credited EXCEPT ![at[h]] = @ + 1]
        /\ Goto(h, Moved(h))
     \/ /\ form[at[h]].type = "PAYMENT"
        /\ Goto(h, NotMoved(h))
        /\ UNCHANGED credited
  /\ UNCHANGED <<rows, reversed, paid, gateway, local, faults>>

EndOuter(h) ==
  /\ outer' = [outer EXCEPT ![h] = "none"]
  /\ wrote' = [wrote EXCEPT ![h] = FALSE]

CommitOuter(h) ==
  /\ pc[h] = "commit" /\ outer[h] = "open"
  /\ paymentId' = [paymentId EXCEPT ![at[h]] = gid[h]]
  /\ reversed' = IF wrote[h] THEN [reversed EXCEPT ![at[h]] = @ + 1] ELSE reversed
  /\ EndOuter(h)
  /\ Goto(h, "mark")
  /\ UNCHANGED <<form, status, error, credited, paid, gateway, at, gid, faults>>

\* status = PROCESSED, lastProcessError = null.
MarkProcessed(h) ==
  /\ pc[h] = "mark"
  /\ RowFree(at[h])
  /\ status' = [status EXCEPT ![at[h]] = "PROCESSED"]
  /\ error' = [error EXCEPT ![at[h]] = FALSE]
  /\ Answer(h, "ok")
  /\ UNCHANGED <<form, paymentId, money, gateway, outer, wrote, faults>>

\* The catch block: processAttempts + 1, lastProcessError, throw again.
RecordError(h) ==
  /\ pc[h] = "record"
  /\ RowFree(at[h])
  /\ error' = [error EXCEPT ![at[h]] = TRUE]
  /\ Answer(h, "failed")
  /\ UNCHANGED <<form, status, paymentId, money, gateway, outer, wrote, faults>>

\* An expired transaction fails in its COMMIT.
ExpiredFails(h) ==
  /\ pc[h] = "commit" /\ outer[h] = "expired"
  /\ EndOuter(h)
  /\ Goto(h, "record")
  /\ UNCHANGED <<rows, money, gateway, at, gid, faults>>

Step(h) ==
  Review(h) \/ RefundCharge(h) \/ LookupKey(h) \/ InsertReversal(h) \/ Link(h)
    \/ LookupCredits(h) \/ MoveCredits(h) \/ CommitOuter(h)
    \/ MarkProcessed(h) \/ RecordError(h) \/ ExpiredFails(h)
-----------------------------------------------------------------------------
\* Bug: a gateway that throws is taken for one that refunded.
GatewayFailsCaught(h) ==
  /\ pc[h] = "refund"
  /\ Fault
  /\ Goto(h, "ledger")
  /\ gid' = [gid EXCEPT ![h] = <<"fresh", at[h], 0>>]
  /\ outer' = [outer EXCEPT ![h] = "open"]
  /\ UNCHANGED <<rows, money, gateway, at, wrote>>

\* The gateway call throws: declined, or made with the answer lost.
GatewayFails(h) ==
  /\ pc[h] = "refund"
  /\ Fault
  /\ \/ UNCHANGED <<gateway, paid, gid>>
     \/ Refunded(h, at[h])
  /\ Goto(h, "record")
  /\ UNCHANGED <<rows, reversed, credited, at, outer, wrote>>

\* A query of the outer transaction, or its COMMIT, fails.
OuterRollback(h) ==
  /\ outer[h] = "open" /\ pc[h] \notin {"lookup", "credit"}
  /\ Fault
  /\ EndOuter(h)
  /\ Goto(h, "record")
  /\ UNCHANGED <<rows, money, gateway, at, gid>>

\* The credits transaction fails or is rolled back.
InnerRollback(h) ==
  /\ pc[h] \in {"lookup", "credit"}
  /\ Fault
  /\ Goto(h, NotMoved(h))
  /\ UNCHANGED <<rows, money, gateway, local>>

\* Prisma rolls the outer transaction back while the inner one runs.
Expire(h) ==
  /\ Expiry /\ outer[h] = "open" /\ pc[h] \in {"lookup", "credit"}
  /\ Fault
  /\ outer' = [outer EXCEPT ![h] = "expired"]
  /\ wrote' = [wrote EXCEPT ![h] = FALSE]
  /\ UNCHANGED <<rows, money, gateway, pc, at, gid>>

\* A statement outside the transactions fails: no catch block is around the
\* review, the last status update or the catch block's own update.
StatementFails(h) ==
  /\ pc[h] \in {"approve", "deny", "mark", "record"}
  /\ Fault
  /\ Answer(h, "failed")
  /\ UNCHANGED <<rows, money, gateway, outer, wrote>>

\* The process dies: open transactions roll back, nothing is answered, and
\* the mock gateways, which live in its memory, forget everything.
Crash ==
  /\ Fault
  /\ pc' = [h \in Handlers |-> "idle"]
  /\ at' = [h \in Handlers |-> NoRequest]
  /\ gid' = [h \in Handlers |-> NoId]
  /\ outer' = [h \in Handlers |-> "none"]
  /\ wrote' = [h \in Handlers |-> FALSE]
  /\ answers' = [r \in Requests |-> NoId]
  /\ charge' = [t \in Txns |-> "unknown"]
  /\ restarts' = restarts + 1
  /\ UNCHANGED <<rows, money>>

Next ==
  \/ \E r \in Requests :
       \/ CreateRefundRequest(r)
       \/ \E h \in Handlers : ReadForReview(h, r) \/ ReadForProcess(h, r)
  \/ \E h \in Handlers :
       \/ Step(h)
       \/ GatewayFails(h) \/ OuterRollback(h) \/ InnerRollback(h)
       \/ Expire(h) \/ StatementFails(h)
  \/ Crash

Spec == Init /\ [][Next]_vars
-----------------------------------------------------------------------------
TypeOK ==
  /\ form \in [Requests -> Forms]
  /\ status \in [Requests -> Statuses]
  /\ paymentId \in [Requests -> GatewayIds \cup {NoId}]
  /\ error \in [Requests -> BOOLEAN]
  /\ reversed \in [Requests -> Nat]
  /\ credited \in [Requests -> Nat]
  /\ paid \in [Requests -> Nat]
  /\ answers \in [Requests -> GatewayIds \cup {NoId}]
  /\ charge \in [Txns -> {"unknown", "ok", "refunded"}]
  /\ restarts \in Nat
  /\ pc \in [Handlers -> Idle \cup InTransaction \cup
                         {"approve", "deny", "refund", "mark", "record"}]
  /\ at \in [Handlers -> Requests \cup {NoRequest}]
  /\ gid \in [Handlers -> GatewayIds \cup {NoId}]
  /\ outer \in [Handlers -> {"none", "open", "expired"}]
  /\ wrote \in [Handlers -> BOOLEAN]
  /\ faults \in 0 .. MaxFaults

\* paymentRefundId and the ledger reversal are one fact, told once, whatever
\* was retried, clicked twice or rolled back: the guard that skips a request
\* with a paymentRefundId never skips a reversal that is missing.
ReversedOnceWithId ==
  \A r \in Requests :
    reversed[r] \in {0, 1} /\ (paymentId[r] # NoId <=> reversed[r] = 1)

\* The money left the gateway before the ledger said so, for this request or
\* for another one on the same charge.
ReversedIsPaid ==
  \A r \in Requests : reversed[r] > 0 =>
    \E q \in Requests : paid[q] > 0 /\ Txn(q) = Txn(r)

\* Nothing moves for a request that nobody has reviewed.
NothingBeforeReview ==
  \A r \in Requests : status[r] \in {"none", "PENDING"} =>
    reversed[r] = 0 /\ credited[r] = 0 /\ paid[r] = 0

\* A PROCESSED request has been executed: reversed, or granted.
ProcessedIsDone ==
  \A r \in Requests : status[r] = "PROCESSED" =>
    IF form[r].type = "PAYMENT" THEN reversed[r] = 1 ELSE credited[r] > 0

\* What the documentation says of the idempotency key: a request is refunded
\* once, however often it is processed.  It is not so: the gateways' logs are
\* Maps in the memory of the process, and processing is retried after a crash.
PaidAtMostOnce == \A r \in Requests : paid[r] <= 1

\* What the keys do give: the payments of a request, by however many calls and
\* retries, are one more than the restarts at the most.
PaidOncePerLife == \A r \in Requests : paid[r] <= 1 + restarts

\* And no payment follows the paymentRefundId: once the link has committed, no
\* call that was under way, no retry and no restart makes the gateway pay.
PaidUnlinked ==
  [][\A r \in Requests : paid'[r] > paid[r] => paymentId[r] = NoId]_vars

\* A PAYMENT request takes its credits back once.
DeductedAtMostOnce ==
  \A r \in Requests : form[r].type = "PAYMENT" => credited[r] <= 1

\* No double-processing: a CREDITS request gives its credits once.
GrantedAtMostOnce ==
  \A r \in Requests : form[r].type = "CREDITS" => credited[r] <= 1
=============================================================================
