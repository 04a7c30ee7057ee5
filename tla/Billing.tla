------------------------------ MODULE Billing ------------------------------
(***************************************************************************)
(* The system around one user's payments, as the simulator                  *)
(* (apps/api/src/simulator) drives it: payments, chargebacks of any charge, *)
(* refund requests, the outcomes of disputes, and the reset of the user,    *)
(* over one set of books.                                                   *)
(*                                                                          *)
(* A database transaction is one step here: what happens inside and between *)
(* them is the subject of Webhooks, Ledger, Credits, Refunds and Disputes.  *)
(* An admin's call still reads a row, is overtaken by events, requests and  *)
(* resets, and writes what it decided on its read; admin calls follow each  *)
(* other (MCDisputesRace shows what overlapping ones do).  Credits commit   *)
(* apart from the transaction around them.  The ledger's amounts are cents, *)
(* and so is what a chargeback or a refund takes in credits; what a         *)
(* payment on chain grants is a number of credits.  A failed charge changes *)
(* a subscription's status, which nothing here looks at.                    *)
(***************************************************************************)
EXTENDS Integers, FiniteSets, Functions

CONSTANTS
  Charges,    \* gateway transactions of the user
  Buys,       \* how each is paid: by "card" for a plan, or on "chain"
  Pack,       \* the credits a payment on chain grants
  Notices,    \* chargeback events
  About,      \* the charge each of them is about
  Claimed,    \* the cents it claims back
  Requests,   \* PAYMENT rows of refund_requests
  Asked,      \* the cents each asks back
  Fee,        \* chargeback_fee_cents
  Opening,    \* the credits the seed gives
  NoCall,     \* no admin call is being handled
  MaxResets   \* bound on resets

ASSUME EventsAssumption ==
  /\ Buys \in [Charges -> {"card", "chain"}]
  /\ About \in [Notices -> Charges]
ASSUME AmountsAssumption ==
  /\ Claimed \in [Notices -> Nat \ {0}]
  /\ Asked \in [Requests -> Nat \ {0}]
  /\ Pack \in Nat \ {0}
  /\ Fee \in Nat \ {0}
  /\ Opening \in Nat
ASSUME MaxResetsAssumption == MaxResets \in Nat

VARIABLES
  processed,  \* payments and notices with a processed_webhooks row
  records,    \* charges with a charge_records row
  subscribed, \* whether the user has a subscriptions row
  dispute,    \* the disputes row of each charge
  request,    \* the refund_requests rows
  call,       \* the admin's call after its read
  credits,    \* balance of the credits row; 0 without a row
  log,        \* idempotency keys in credit_transactions
  posted,     \* idempotency keys in ledger_transactions
  book,       \* balances of the ledger accounts
  left,       \* what they were after the last reset, or at first
  resets

db == <<processed, records, subscribed, dispute, request>>
money == <<credits, log, posted, book>>
vars == <<processed, records, subscribed, dispute, request, call, credits, log,
          posted, book, left, resets>>

Open == {"OPEN", "EVIDENCE_SUBMITTED"}

Dispute ==
  [status : {"none", "WON", "LOST"} \cup Open, amount : Nat, birth : Nat]

NoDispute == [status |-> "none", amount |-> 0, birth |-> 0]

Request ==
  [status : {"none", "PENDING", "APPROVED", "DENIED", "PROCESSED", "deleted"},
   charged : BOOLEAN, linked : BOOLEAN]

NoRequest == [status |-> "none", charged |-> FALSE, linked |-> FALSE]

Call ==
  [op : {"WON", "LOST"}, on : Charges, amount : Nat, birth : Nat]
    \cup [op : {"book", "mark"}, on : Requests, amount : Nat, birth : {0}]

Book == [asset : Int, revenue : Int, expense : Int]

Zero == [asset |-> 0, revenue |-> 0, expense |-> 0]

\* The seed: a subscribed user with credits, and accounts that hold nothing.
Init ==
  /\ processed = {}
  /\ records = {}
  /\ subscribed = TRUE
  /\ dispute = [c \in Charges |-> NoDispute]
  /\ request = [r \in Requests |-> NoRequest]
  /\ call = NoCall
  /\ credits = Opening
  /\ log = {}
  /\ posted = {}
  /\ book = Zero
  /\ left = Zero
  /\ resets = 0
-----------------------------------------------------------------------------
(* Credits and postings. *)

Log(key, n) ==
  /\ key \notin log
  /\ log' = log \cup {key}
  /\ credits' = credits + n

Same == UNCHANGED <<credits, log>>

\* addCredits where the caller catches what it throws.
Give(key, n) == Log(key, n) \/ Same

\* Bug: the balance is not checked.
TakeAnyway(key, n) == Log(key, -n) \/ Same

\* deductCredits where the caller catches what it throws.
Take(key, n) == (credits >= n /\ Log(key, -n)) \/ Same

\* recordTransaction: a key that is there leaves the accounts alone.
Post(key, moves) ==
  /\ posted' = posted \cup {key}
  /\ book' = IF key \in posted THEN book
             ELSE [asset |-> book.asset + moves.asset,
                   revenue |-> book.revenue + moves.revenue,
                   expense |-> book.expense + moves.expense]

\* DEBIT revenue, CREDIT asset; its opposite; DEBIT expense, CREDIT asset.
Reversal(n) == [asset |-> -n, revenue |-> -n, expense |-> 0]
Recovery(n) == [asset |-> n, revenue |-> n, expense |-> 0]
FeeCharged == [asset |-> -Fee, revenue |-> 0, expense |-> Fee]
-----------------------------------------------------------------------------
(* The simulator: what it makes up is delivered to the webhook routes.      *)

\* A charge settles: its event and its charge are recorded.
Settled(c) ==
  /\ c \notin processed
  /\ processed' = processed \cup {c}
  /\ records' = records \cup {c}
  /\ UNCHANGED <<dispute, request, call, posted, book, left, resets>>

\* simulateCardRebill: subscription.renewed.
SimulateCardRebill(c) ==
  /\ Buys[c] = "card"
  /\ Settled(c)
  /\ subscribed' = TRUE
  /\ Same

\* simulateSolanaConfirmation, deep enough: credits, for a plan or without.
SimulateSolanaConfirmation(c) ==
  /\ Buys[c] = "chain"
  /\ Settled(c)
  /\ subscribed' \in {subscribed, TRUE}
  /\ Log(<<"purchase", c>>, Pack)

\* Bug: the dispute is looked up after the reversal.
ChargebackPosted(c, n) ==
  /\ Post(<<"chargeback", c, Cardinality(processed)>>, Reversal(n))
  /\ IF dispute[c].status # "none"
     THEN UNCHANGED <<dispute, credits, log>>
     ELSE /\ dispute' = [dispute EXCEPT ![c] =
               [status |-> "OPEN", amount |-> n, birth |-> resets]]
          /\ Take(<<"chargeback", c>>, n)

\* chargeback.received: a second one of a charge finds the first's dispute.
ChargebackReceived(c, n) ==
  IF dispute[c].status # "none"
  THEN UNCHANGED <<dispute, money>>
  ELSE /\ dispute' = [dispute EXCEPT ![c] =
            [status |-> "OPEN", amount |-> n, birth |-> resets]]
       /\ Post(<<"chargeback", c>>, Reversal(n))
       /\ Take(<<"chargeback", c>>, n)

\* simulateChargeback: an event of its own about any charge.
SimulateChargeback(n) ==
  /\ n \notin processed
  /\ processed' = processed \cup {n}
  /\ ChargebackReceived(About[n], Claimed[n])
  /\ UNCHANGED <<records, subscribed, request, call, left, resets>>

\* Bug: the accounts of the user are reset as well.
ResetUserAccounts ==
  /\ resets < MaxResets
  /\ resets' = resets + 1
  /\ credits' = 0
  /\ log' = {}
  /\ posted' = {}
  /\ subscribed' = FALSE
  /\ request' = [r \in Requests |->
       IF request[r].status = "none" THEN NoRequest
       ELSE [status |-> "deleted", charged |-> FALSE, linked |-> FALSE]]
  /\ dispute' = [c \in Charges |-> NoDispute]
  /\ left' = book
  /\ book' = [book EXCEPT !.asset = 0]
  /\ UNCHANGED <<processed, records, call>>

\* resetUser: one transaction, which leaves ledger_accounts, charge_records
\* and processed_webhooks as they are.
ResetUser ==
  /\ resets < MaxResets
  /\ resets' = resets + 1
  /\ credits' = 0
  /\ log' = {}
  /\ posted' = {}
  /\ subscribed' = FALSE
  /\ request' = [r \in Requests |->
       IF request[r].status = "none" THEN NoRequest
       ELSE [status |-> "deleted", charged |-> FALSE, linked |-> FALSE]]
  /\ dispute' = [c \in Charges |-> NoDispute]
  /\ left' = book
  /\ UNCHANGED <<processed, records, call, book>>
-----------------------------------------------------------------------------
(* Refund requests. *)

\* createRefundRequest of a PAYMENT: needs a subscription, and takes the
\* newest charge record where the user names no transaction.
CreateRefundRequest(r) ==
  /\ request[r].status = "none" /\ subscribed
  /\ \E named \in BOOLEAN :
       request' = [request EXCEPT ![r] =
         [status |-> "PENDING", charged |-> named \/ records # {},
          linked |-> FALSE]]
  /\ UNCHANGED <<processed, records, subscribed, dispute, call, money, left, resets>>

\* approveRefund, denyRefund.
Review(r) ==
  /\ call = NoCall /\ request[r].status = "PENDING"
  /\ \E s \in {"APPROVED", "DENIED"} :
       request' = [request EXCEPT ![r].status = s]
  /\ UNCHANGED <<processed, records, subscribed, dispute, call, money, left, resets>>

\* processRefund up to the end of the gateway's call; a request without a
\* charge goes no further.
ProcessRefund(r) ==
  /\ call = NoCall /\ request[r].status = "APPROVED"
  /\ request[r].linked \/ request[r].charged
  /\ call' = [op |-> IF request[r].linked THEN "mark" ELSE "book",
              on |-> r, amount |-> Asked[r], birth |-> 0]
  /\ UNCHANGED <<db, money, left, resets>>

\* The ledger reversal, paymentRefundId and the deduction; without the row
\* the transaction fails before the deduction.
BookRefund ==
  LET r == call.on
  IN
  /\ call # NoCall /\ call.op = "book"
  /\ IF request[r].status = "deleted"
     THEN call' = NoCall /\ UNCHANGED <<request, money>>
     ELSE /\ Post(<<"refund", r>>, Reversal(call.amount))
          /\ request' = [request EXCEPT ![r].linked = TRUE]
          /\ Take(<<"refund", r>>, call.amount)
          /\ call' = [call EXCEPT !.op = "mark"]
  /\ UNCHANGED <<processed, records, subscribed, dispute, left, resets>>

MarkProcessed ==
  LET r == call.on
  IN
  /\ call # NoCall /\ call.op = "mark"
  /\ request' = IF request[r].status = "deleted" THEN request
                ELSE [request EXCEPT ![r].status = "PROCESSED"]
  /\ call' = NoCall
  /\ UNCHANGED <<processed, records, subscribed, dispute, money, left, resets>>
-----------------------------------------------------------------------------
(* Disputes. *)

\* attachEvidence: changes the status of what is OPEN.
AttachEvidence(c) ==
  /\ call = NoCall /\ dispute[c].status = "OPEN"
  /\ dispute' = [dispute EXCEPT ![c].status = "EVIDENCE_SUBMITTED"]
  /\ UNCHANGED <<processed, records, subscribed, request, call, money, left, resets>>

\* setOutcome up to its transaction.
SetOutcome(c, o) ==
  /\ call = NoCall /\ dispute[c].status \in Open
  /\ call' = [op |-> o, on |-> c, amount |-> dispute[c].amount,
              birth |-> dispute[c].birth]
  /\ UNCHANGED <<db, money, left, resets>>

\* The row that the call read is still there.
Found == dispute[call.on].status # "none" /\ dispute[call.on].birth = call.birth

\* handleWon.  Where the row is gone its update fails: the posting goes, the
\* credits have been committed.
RecordWon ==
  LET c == call.on
  IN
  /\ call # NoCall /\ call.op = "WON"
  /\ IF Found
     THEN /\ Post(<<"won", c, call.birth>>, Recovery(call.amount))
          /\ dispute' = [dispute EXCEPT ![c].status = "WON"]
     ELSE UNCHANGED <<dispute, posted, book>>
  /\ Give(<<"won", c, call.birth>>, call.amount)
  /\ call' = NoCall
  /\ UNCHANGED <<processed, records, subscribed, request, left, resets>>

\* handleLost.
RecordLost ==
  LET c == call.on
  IN
  /\ call # NoCall /\ call.op = "LOST"
  /\ IF Found
     THEN /\ Post(<<"fee", c, call.birth>>, FeeCharged)
          /\ dispute' = [dispute EXCEPT ![c].status = "LOST"]
     ELSE UNCHANGED <<dispute, posted, book>>
  /\ Same
  /\ call' = NoCall
  /\ UNCHANGED <<processed, records, subscribed, request, left, resets>>

\* The call's transaction fails, before its credits have moved or after.
Abort ==
  /\ call # NoCall
  /\ call' = NoCall
  /\ \/ call.op = "WON" /\ Give(<<"won", call.on, call.birth>>, call.amount)
     \/ /\ call.op = "book" /\ request[call.on].status # "deleted"
        /\ Take(<<"refund", call.on>>, call.amount)
     \/ Same
  /\ UNCHANGED <<db, posted, book, left, resets>>
-----------------------------------------------------------------------------
Next ==
  \/ \E c \in Charges :
       \/ SimulateCardRebill(c) \/ SimulateSolanaConfirmation(c)
       \/ AttachEvidence(c)
       \/ \E o \in {"WON", "LOST"} : SetOutcome(c, o)
  \/ \E n \in Notices : SimulateChargeback(n)
  \/ \E r \in Requests : CreateRefundRequest(r) \/ Review(r) \/ ProcessRefund(r)
  \/ BookRefund \/ MarkProcessed \/ RecordWon \/ RecordLost \/ Abort
  \/ ResetUser

Spec == Init /\ [][Next]_vars
-----------------------------------------------------------------------------
TypeOK ==
  /\ processed \in SUBSET (Charges \cup Notices)
  /\ records \in SUBSET Charges
  /\ subscribed \in BOOLEAN
  /\ dispute \in [Charges -> Dispute]
  /\ request \in [Requests -> Request]
  /\ call \in Call \cup {NoCall}
  /\ credits \in Nat
  /\ book \in Book
  /\ left \in Book
  /\ resets \in 0 .. MaxResets

\* Over all accounts the books balance, through every chargeback, refund,
\* outcome and failure, and also after resets, which remove the entries and
\* keep the balances.
BooksBalance == book.asset + book.expense = book.revenue

\* Disputes whose chargeback stands.
Standing == {c \in Charges : dispute[c].status \in Open \cup {"LOST"}}

\* What the accounts hold beyond what the last reset left in them is told by
\* the rows: each dispute that is not WON and each request with a
\* paymentRefundId has reversed its amount once, also where both are about
\* one charge, and each LOST dispute has cost one fee.
RowsExplainBooks ==
  LET reversed ==
        SumFunctionOnSet([c \in Charges |-> dispute[c].amount], Standing)
          + SumFunctionOnSet(Asked, {r \in Requests : request[r].linked})
      fees == Fee * Cardinality({c \in Charges : dispute[c].status = "LOST"})
  IN
  /\ book.revenue = left.revenue - reversed
  /\ book.expense = left.expense + fees
  /\ book.asset = left.asset - reversed - fees
=============================================================================
