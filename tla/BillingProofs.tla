---------------------------- MODULE BillingProofs ----------------------------
(***************************************************************************)
(* Theorems about Billing.tla for any number of charges, chargebacks,       *)
(* refund requests and resets, and any amounts.                             *)
(*                                                                          *)
(* BillingInv, types and balanced books, is inductive as it stands.  That   *)
(* the rows explain the books needs RowsInv: a posted key has its row, and  *)
(* a call writes either on the row it read, as it read it, or after a reset *)
(* that the births of rows tell apart; so a posting whose row is about to   *)
(* change is a new one.  With it BooksInv, the sums themselves, is kept by  *)
(* every step.                                                              *)
(***************************************************************************)
EXTENDS Billing, SumFacts, TLAPS

BillingInv == TypeOK /\ BooksBalance

\* The types but for what money is: what the steps that move none keep.
RowTypes ==
  /\ processed \in SUBSET (Charges \cup Notices)
  /\ records \in SUBSET Charges
  /\ subscribed \in BOOLEAN
  /\ dispute \in [Charges -> Dispute]
  /\ request \in [Requests -> Request]
  /\ call \in Call \cup {NoCall}
  /\ left \in Book
  /\ resets \in 0 .. MaxResets

LEMMA BillingInit == Init => BillingInv
  BY AmountsAssumption, MaxResetsAssumption
  DEF Init, BillingInv, TypeOK, BooksBalance, Dispute, NoDispute, Request,
      NoRequest, Book, Zero

\* What an admin's call carries from its read.
LEMMA CallType ==
  ASSUME TypeOK, call # NoCall
  PROVE  /\ call.op \in {"WON", "LOST", "book", "mark"} /\ call.amount \in Nat
         /\ call.op \in {"WON", "LOST"} => call.on \in Charges
         /\ call.op \in {"book", "mark"} => call.on \in Requests
  BY DEF TypeOK, Call

\* Credits never go below zero, however the caller treats a failure.
LEMMA CreditTypes ==
  ASSUME credits \in Nat, NEW key, NEW n \in Nat,
         Log(key, n) \/ Give(key, n) \/ Take(key, n) \/ Same
  PROVE  credits' \in Nat
  BY DEF Log, Give, Take, Same

\* Each posting of the code moves the accounts by amounts that balance.
LEMMA PostStep ==
  ASSUME book \in Book, BooksBalance, NEW key, NEW n \in Nat,
         \/ Post(key, Reversal(n)) \/ Post(key, Recovery(n))
         \/ Post(key, FeeCharged) \/ book' = book
  PROVE  book' \in Book /\ BooksBalance'
  <1>1. /\ book.asset \in Int /\ book.revenue \in Int /\ book.expense \in Int
        /\ Fee \in Nat
    BY AmountsAssumption DEF Book
  <1>2. ASSUME NEW moves \in Book, Post(key, moves),
               moves.asset + moves.expense = moves.revenue
        PROVE  book' \in Book /\ BooksBalance'
    <2>1. moves.asset \in Int /\ moves.revenue \in Int /\ moves.expense \in Int
      BY DEF Book
    <2>2. CASE key \in posted
      BY <1>2, <2>2 DEF Post, BooksBalance
    <2>3. CASE key \notin posted
      <3>1. book' = [asset |-> book.asset + moves.asset,
                     revenue |-> book.revenue + moves.revenue,
                     expense |-> book.expense + moves.expense]
        BY <1>2, <2>3 DEF Post
      <3>. QED
        BY <1>1, <1>2, <2>1, <3>1 DEF BooksBalance, Book
    <2>. QED
      BY <2>2, <2>3
  <1>3. /\ Reversal(n) \in Book /\ Recovery(n) \in Book /\ FeeCharged \in Book
        /\ Reversal(n).asset + Reversal(n).expense = Reversal(n).revenue
        /\ Recovery(n).asset + Recovery(n).expense = Recovery(n).revenue
        /\ FeeCharged.asset + FeeCharged.expense = FeeCharged.revenue
    BY <1>1 DEF Reversal, Recovery, FeeCharged, Book
  <1>. QED
    BY <1>2, <1>3 DEF BooksBalance
-----------------------------------------------------------------------------
\* The rows keep their types, whatever becomes of the money.
LEMMA RowStep ==
  ASSUME TypeOK, Next
  PROVE  RowTypes'
  <1>1. RowTypes /\ book \in Book
    BY DEF TypeOK, RowTypes
  <1>2. ASSUME NEW c \in Charges, SimulateCardRebill(c) \/ SimulateSolanaConfirmation(c)
        PROVE  RowTypes'
    BY <1>1, <1>2
    DEF SimulateCardRebill, SimulateSolanaConfirmation, Settled, RowTypes
  <1>3. ASSUME NEW n \in Notices, SimulateChargeback(n)
        PROVE  RowTypes'
    <2>1. /\ processed' = processed \cup {n} /\ About[n] \in Charges
          /\ Claimed[n] \in Nat
          /\ UNCHANGED <<records, subscribed, request, call, left, resets>>
      BY <1>3, EventsAssumption, AmountsAssumption DEF SimulateChargeback
    <2>2. \/ dispute' = dispute
          \/ dispute' = [dispute EXCEPT ![About[n]] =
               [status |-> "OPEN", amount |-> Claimed[n], birth |-> resets]]
      BY <1>3 DEF SimulateChargeback, ChargebackReceived
    <2>3. [status |-> "OPEN", amount |-> Claimed[n], birth |-> resets] \in Dispute
      BY <1>1, <2>1, MaxResetsAssumption DEF RowTypes, Dispute, Open
    <2>4. dispute' \in [Charges -> Dispute]
      BY <1>1, <2>2, <2>3 DEF RowTypes
    <2>. QED
      BY <1>1, <2>1, <2>4 DEF RowTypes
  <1>4. CASE ResetUser
    <2>1. /\ resets' = resets + 1 /\ resets < MaxResets /\ subscribed' = FALSE
          /\ request' = [r \in Requests |->
               IF request[r].status = "none" THEN NoRequest
               ELSE [status |-> "deleted", charged |-> FALSE, linked |-> FALSE]]
          /\ dispute' = [c \in Charges |-> NoDispute]
          /\ left' = book /\ UNCHANGED <<processed, records, call>>
      BY <1>4 DEF ResetUser
    <2>2. request' \in [Requests -> Request] /\ dispute' \in [Charges -> Dispute]
      BY <2>1 DEF Request, NoRequest, Dispute, NoDispute
    <2>3. resets' \in 0 .. MaxResets
      BY <1>1, <2>1, MaxResetsAssumption DEF RowTypes
    <2>. QED
      BY <1>1, <2>1, <2>2, <2>3 DEF RowTypes
  <1>5. ASSUME NEW r \in Requests, NEW req \in Request,
               request' = [request EXCEPT ![r] = req],
               call' \in Call \cup {NoCall},
               UNCHANGED <<processed, records, subscribed, dispute, left, resets>>
        PROVE  RowTypes'
    BY <1>1, <1>5 DEF RowTypes
  <1>6. ASSUME NEW c \in Charges, NEW d \in Dispute,
               dispute' = [dispute EXCEPT ![c] = d],
               call' \in Call \cup {NoCall},
               UNCHANGED <<processed, records, subscribed, request, left, resets>>
        PROVE  RowTypes'
    BY <1>1, <1>6 DEF RowTypes
  <1>7. ASSUME call' \in Call \cup {NoCall},
               UNCHANGED <<processed, records, subscribed, dispute, request, left,
                           resets>>
        PROVE  RowTypes'
    BY <1>1, <1>7 DEF RowTypes
  <1>8. ASSUME NEW r \in Requests,
               CreateRefundRequest(r) \/ Review(r) \/ ProcessRefund(r)
        PROVE  RowTypes'
    <2>1. request[r] \in Request /\ call \in Call \cup {NoCall}
      BY <1>1 DEF RowTypes
    <2>2. CASE CreateRefundRequest(r)
      BY <1>5, <2>1, <2>2 DEF CreateRefundRequest, Request
    <2>3. CASE Review(r)
      BY <1>5, <2>1, <2>3 DEF Review, Request
    <2>4. CASE ProcessRefund(r)
      <3>1. call' \in Call
        BY <2>4, AmountsAssumption DEF ProcessRefund, Call
      <3>. QED
        BY <1>7, <2>4, <3>1 DEF ProcessRefund, db
    <2>. QED
      BY <1>8, <2>2, <2>3, <2>4
  <1>9. CASE BookRefund \/ MarkProcessed
    <2>1. /\ call # NoCall /\ call.op \in {"book", "mark"} /\ call \in Call
          /\ call.on \in Requests /\ call.amount \in Nat
      BY <1>1, <1>9, CallType DEF BookRefund, MarkProcessed, RowTypes
    <2>2. request[call.on] \in Request
      BY <1>1, <2>1 DEF RowTypes
    <2>3. CASE BookRefund
      <3>1. [call EXCEPT !.op = "mark"] \in Call
        BY <2>1, <2>3 DEF BookRefund, Call
      <3>2. [request[call.on] EXCEPT !.linked = TRUE] \in Request
        BY <2>2 DEF Request
      <3>3. \/ UNCHANGED request /\ call' = NoCall
            \/ /\ request' = [request EXCEPT ![call.on] =
                                [request[call.on] EXCEPT !.linked = TRUE]]
               /\ call' = [call EXCEPT !.op = "mark"]
        BY <2>3 DEF BookRefund
      <3>. QED
        BY <1>5, <1>7, <2>1, <2>3, <3>1, <3>2, <3>3 DEF BookRefund
    <2>4. CASE MarkProcessed
      <3>1. [request[call.on] EXCEPT !.status = "PROCESSED"] \in Request
        BY <2>2 DEF Request
      <3>2. \/ request' = request
            \/ request' = [request EXCEPT ![call.on] =
                             [request[call.on] EXCEPT !.status = "PROCESSED"]]
        BY <2>4 DEF MarkProcessed
      <3>. QED
        BY <1>5, <1>7, <2>1, <2>4, <3>1, <3>2 DEF MarkProcessed
    <2>. QED
      BY <1>9, <2>3, <2>4
  <1>10. ASSUME NEW c \in Charges,
                AttachEvidence(c) \/ \E o \in {"WON", "LOST"} : SetOutcome(c, o)
         PROVE  RowTypes'
    <2>1. dispute[c] \in Dispute /\ call \in Call \cup {NoCall}
      BY <1>1 DEF RowTypes
    <2>2. CASE AttachEvidence(c)
      <3>1. [dispute[c] EXCEPT !.status = "EVIDENCE_SUBMITTED"] \in Dispute
        BY <2>1 DEF Dispute, Open
      <3>. QED
        BY <1>6, <2>1, <2>2, <3>1 DEF AttachEvidence
    <2>3. ASSUME NEW o \in {"WON", "LOST"}, SetOutcome(c, o)
          PROVE  RowTypes'
      <3>1. call' \in Call
        BY <2>1, <2>3 DEF SetOutcome, Call, Dispute
      <3>. QED
        BY <1>7, <2>3, <3>1 DEF SetOutcome, db
    <2>. QED
      BY <1>10, <2>2, <2>3
  <1>11. CASE RecordWon \/ RecordLost
    <2>1. call # NoCall /\ call.on \in Charges
      BY <1>11, CallType DEF RecordWon, RecordLost
    <2>2. dispute[call.on] \in Dispute
      BY <1>1, <2>1 DEF RowTypes
    <2>3. /\ [dispute[call.on] EXCEPT !.status = "WON"] \in Dispute
          /\ [dispute[call.on] EXCEPT !.status = "LOST"] \in Dispute
      BY <2>2 DEF Dispute
    <2>4. /\ \/ dispute' = dispute
             \/ dispute' = [dispute EXCEPT ![call.on] =
                              [dispute[call.on] EXCEPT !.status = "WON"]]
             \/ dispute' = [dispute EXCEPT ![call.on] =
                              [dispute[call.on] EXCEPT !.status = "LOST"]]
          /\ call' = NoCall
          /\ UNCHANGED <<processed, records, subscribed, request, left, resets>>
      BY <1>11 DEF RecordWon, RecordLost
    <2>. QED
      BY <1>6, <1>7, <2>1, <2>3, <2>4
  <1>12. CASE Abort
    BY <1>7, <1>12 DEF Abort, db
  <1>. QED
    BY <1>2, <1>3, <1>4, <1>8, <1>9, <1>10, <1>11, <1>12 DEF Next

\* Every step moves credits and accounts by one of the ways above.
LEMMA MoneyStep ==
  ASSUME BillingInv, Next
  PROVE  credits' \in Nat /\ book' \in Book /\ BooksBalance'
  <1>1. /\ TypeOK /\ BooksBalance /\ credits \in Nat /\ book \in Book
        /\ 0 \in Nat
    BY DEF BillingInv, TypeOK
  <1>2. CASE UNCHANGED <<credits, book>>
    BY <1>1, <1>2 DEF BooksBalance
  <1>3. ASSUME NEW c \in Charges, SimulateCardRebill(c) \/ SimulateSolanaConfirmation(c)
        PROVE  credits' \in Nat /\ book' \in Book /\ BooksBalance'
    <2>1. book' = book /\ (Same \/ Log(<<"purchase", c>>, Pack))
      BY <1>3 DEF SimulateCardRebill, SimulateSolanaConfirmation, Settled
    <2>2. Pack \in Nat
      BY AmountsAssumption
    <2>. QED
      BY <1>1, <2>1, <2>2, CreditTypes DEF BooksBalance
  <1>4. ASSUME NEW n \in Notices, SimulateChargeback(n)
        PROVE  credits' \in Nat /\ book' \in Book /\ BooksBalance'
    <2>1. Claimed[n] \in Nat
      BY AmountsAssumption
    <2>2. \/ UNCHANGED <<credits, book>>
          \/ /\ Post(<<"chargeback", About[n]>>, Reversal(Claimed[n]))
             /\ Take(<<"chargeback", About[n]>>, Claimed[n])
      BY <1>4 DEF SimulateChargeback, ChargebackReceived, money
    <2>. QED
      BY <1>1, <1>2, <2>1, <2>2, CreditTypes, PostStep
  <1>5. CASE ResetUser
    BY <1>1, <1>5 DEF ResetUser, BooksBalance
  <1>6. CASE BookRefund
    <2>1. call.amount \in Nat
      BY <1>1, <1>6, CallType DEF BookRefund
    <2>2. \/ UNCHANGED <<credits, book>>
          \/ /\ Post(<<"refund", call.on>>, Reversal(call.amount))
             /\ Take(<<"refund", call.on>>, call.amount)
      BY <1>6 DEF BookRefund, money
    <2>. QED
      BY <1>1, <1>2, <2>1, <2>2, CreditTypes, PostStep
  <1>7. CASE RecordWon
    <2>1. call.amount \in Nat
      BY <1>1, <1>7, CallType DEF RecordWon
    <2>2. /\ Give(<<"won", call.on, call.birth>>, call.amount)
          /\ \/ book' = book
             \/ Post(<<"won", call.on, call.birth>>, Recovery(call.amount))
      BY <1>7 DEF RecordWon
    <2>. QED
      BY <1>1, <2>1, <2>2, CreditTypes, PostStep
  <1>8. CASE RecordLost
    <2>1. /\ Same
          /\ book' = book \/ Post(<<"fee", call.on, call.birth>>, FeeCharged)
      BY <1>8 DEF RecordLost
    <2>. QED
      BY <1>1, <2>1, CreditTypes, PostStep
  <1>9. CASE Abort
    <2>1. call.amount \in Nat
      BY <1>1, <1>9, CallType DEF Abort
    <2>2. /\ book' = book
          /\ \/ Give(<<"won", call.on, call.birth>>, call.amount)
             \/ Take(<<"refund", call.on>>, call.amount)
             \/ Same
      BY <1>9 DEF Abort
    <2>. QED
      BY <1>1, <2>1, <2>2, CreditTypes DEF BooksBalance
  <1>. QED
    BY <1>2, <1>3, <1>4, <1>5, <1>6, <1>7, <1>8, <1>9
    DEF Next, AttachEvidence, SetOutcome, CreateRefundRequest, Review,
        ProcessRefund, MarkProcessed, money

LEMMA BillingInvariant == Spec => []BillingInv
  <1>1. BillingInv /\ [Next]_vars => BillingInv'
    <2>1. SUFFICES ASSUME BillingInv, [Next]_vars PROVE BillingInv'
      OBVIOUS
    <2>2. CASE Next
      <3>1. RowTypes' /\ credits' \in Nat /\ book' \in Book /\ BooksBalance'
        BY <2>1, <2>2, RowStep, MoneyStep DEF BillingInv
      <3>. QED
        BY <3>1 DEF BillingInv, TypeOK, RowTypes
    <2>3. CASE UNCHANGED vars
      BY <2>1, <2>3 DEF vars, BillingInv, TypeOK, BooksBalance
    <2>. QED
      BY <2>1, <2>2, <2>3
  <1>. QED
    BY <1>1, BillingInit, PTL DEF Spec

\* The rows keep their types, and no step overdraws the user's credits.
THEOREM BillingTypes == Spec => []TypeOK
  BY BillingInvariant, PTL DEF BillingInv

\* Whatever the simulator, the users and the admins do, in whatever amounts,
\* what the assets and the expenses hold is what the revenue shows.
THEOREM BooksStayBalanced == Spec => []BooksBalance
  BY BillingInvariant, PTL DEF BillingInv
-----------------------------------------------------------------------------
(* The rows explain the books. *)

Status(c) == dispute[c].status

Linked == {r \in Requests : request[r].linked}

Lost == {c \in Charges : Status(c) = "LOST"}

Disputed == {c \in Charges : Status(c) # "none"}

\* A key is posted together with what its row says of it.
KeysMatchRows ==
  /\ \A c \in Charges :
       /\ <<"chargeback", c>> \in posted => Status(c) # "none"
       /\ \A b \in Nat :
            /\ <<"won", c, b>> \in posted => Status(c) = "WON"
            /\ <<"fee", c, b>> \in posted => Status(c) = "LOST"
  /\ \A r \in Requests : <<"refund", r>> \in posted => request[r].linked

\* The row that an admin's call has read: if it is still there, it is as it
\* was read; and a reset since then shows in its birth.
CallIsCurrent ==
  call # NoCall =>
    /\ call.op \in {"WON", "LOST"} =>
         /\ call.birth <= resets
         /\ Status(call.on) = "none" => call.birth < resets
         /\ Found => Status(call.on) \in Open /\ dispute[call.on].amount = call.amount
    /\ call.op = "book" =>
         /\ call.amount = Asked[call.on]
         /\ request[call.on].status # "none"
         /\ request[call.on].status # "deleted" => ~ request[call.on].linked

RowsInv ==
  /\ KeysMatchRows
  /\ CallIsCurrent
  /\ \A c \in Charges : dispute[c].birth <= resets
  /\ \A r \in Requests : request[r].linked => request[r].status # "none"

Amounts == [c \in Charges |-> dispute[c].amount]

Reversed == SumFunctionOnSet(Amounts, Standing) + SumFunctionOnSet(Asked, Linked)

BooksInv ==
  /\ left.asset + left.expense = left.revenue
  /\ IsFiniteSet(Disputed) /\ IsFiniteSet(Linked)
  /\ book.revenue = left.revenue - Reversed
  /\ book.expense = left.expense + Fee * Cardinality(Lost)

\* The fields of the rows.
LEMMA RowFields ==
  ASSUME TypeOK
  PROVE  /\ \A c \in Charges : /\ dispute[c] \in Dispute
                               /\ dispute[c].amount \in Nat /\ dispute[c].birth \in Nat
                               /\ Status(c) \in {"none", "WON", "LOST"} \cup Open
         /\ \A r \in Requests : request[r] \in Request /\ request[r].linked \in BOOLEAN
         /\ resets \in Nat
         /\ book.asset \in Int /\ book.revenue \in Int /\ book.expense \in Int
         /\ left.asset \in Int /\ left.revenue \in Int /\ left.expense \in Int
  <1>1. \A c \in Charges : /\ dispute[c] \in Dispute
                           /\ dispute[c].amount \in Nat /\ dispute[c].birth \in Nat
                           /\ Status(c) \in {"none", "WON", "LOST"} \cup Open
    BY DEF TypeOK, Dispute, Status
  <1>2. \A r \in Requests : request[r] \in Request /\ request[r].linked \in BOOLEAN
    BY DEF TypeOK, Request
  <1>3. resets \in Nat
    BY MaxResetsAssumption DEF TypeOK
  <1>. QED
    BY <1>1, <1>2, <1>3 DEF TypeOK, Book
\* Keys of different kinds differ.
LEMMA KeysDiffer ==
  \A c, d, b, e :
    /\ <<"chargeback", c>> # <<"refund", d>>
    /\ <<"chargeback", c>> # <<"won", d, b>>
    /\ <<"chargeback", c>> # <<"fee", d, b>>
    /\ <<"refund", c>> # <<"won", d, b>>
    /\ <<"refund", c>> # <<"fee", d, b>>
    /\ <<"won", c, b>> # <<"fee", d, e>>
    /\ <<"chargeback", c>> = <<"chargeback", d>> => c = d
    /\ <<"refund", c>> = <<"refund", d>> => c = d
    /\ <<"won", c, b>> = <<"won", d, e>> => c = d
    /\ <<"fee", c, b>> = <<"fee", d, e>> => c = d
  OBVIOUS

\* A chargeback of a charge without a dispute opens one under a new key.
LEMMA ChargebackRows ==
  ASSUME TypeOK, RowsInv, NEW n \in Notices, SimulateChargeback(n)
  PROVE  RowsInv'
  <1> DEFINE c == About[n]
  <1>1. /\ c \in Charges /\ resets \in Nat
        /\ UNCHANGED <<request, call, resets>>
    BY RowFields, EventsAssumption DEF SimulateChargeback
  <1>2. CASE Status(c) # "none"
    <2>1. UNCHANGED <<dispute, posted>>
      BY <1>2 DEF SimulateChargeback, ChargebackReceived, Status, money
    <2>. QED
      BY <1>1, <2>1
      DEF RowsInv, KeysMatchRows, CallIsCurrent, Found, Status
  <1>3. CASE Status(c) = "none"
    <2>1. /\ dispute' = [dispute EXCEPT ![c] =
               [status |-> "OPEN", amount |-> Claimed[n], birth |-> resets]]
          /\ posted' = posted \cup {<<"chargeback", c>>}
      BY <1>3 DEF SimulateChargeback, ChargebackReceived, Status, Post
    <2> HIDE DEF c
    <2>2. /\ \A d \in Charges : d # c => dispute'[d] = dispute[d]
          /\ dispute'[c].status = "OPEN" /\ dispute'[c].birth = resets
      BY <1>1, <2>1 DEF TypeOK
    <2>3. KeysMatchRows'
      BY <1>1, <1>3, <2>1, <2>2, KeysDiffer DEF RowsInv, KeysMatchRows, Status
    <2>4. CallIsCurrent'
      <3>1. SUFFICES ASSUME call # NoCall PROVE CallIsCurrent'
        BY <1>1 DEF CallIsCurrent
      <3>2. CASE call.op \in {"WON", "LOST"} /\ call.on = c
        <4>1. call.birth < resets /\ call.birth \in Nat
          BY <1>3, <3>1, <3>2 DEF RowsInv, CallIsCurrent, TypeOK, Call
        <4>2. ~ Found'
          BY <1>1, <2>2, <3>2, <4>1 DEF Found
        <4>. QED
          BY <1>1, <2>2, <3>1, <3>2, <4>1, <4>2 DEF CallIsCurrent, Status
      <3>3. CASE call.op \in {"WON", "LOST"} /\ call.on # c
        <4>1. call.on \in Charges
          BY <3>1, <3>3, CallType
        <4>. QED
          BY <1>1, <2>2, <3>1, <3>3, <4>1
          DEF RowsInv, CallIsCurrent, Status, Found
      <3>4. CASE call.op \notin {"WON", "LOST"}
        BY <1>1, <3>1, <3>4 DEF RowsInv, CallIsCurrent
      <3>. QED
        BY <3>2, <3>3, <3>4
    <2>5. \A d \in Charges : dispute'[d].birth <= resets'
      BY <1>1, <2>2 DEF RowsInv
    <2>. QED
      BY <1>1, <2>3, <2>4, <2>5 DEF RowsInv
  <1>. QED
    BY <1>2, <1>3

\* A reset takes the keys with the rows, and leaves a call without its row.
LEMMA ResetRows ==
  ASSUME TypeOK, RowsInv, ResetUser
  PROVE  RowsInv'
  <1>1. /\ posted' = {} /\ resets' = resets + 1 /\ resets \in Nat
        /\ UNCHANGED call
        /\ \A c \in Charges : dispute'[c] = NoDispute
        /\ \A r \in Requests :
             /\ request'[r].linked = FALSE
             /\ request[r].status # "none" => request'[r].status # "none"
    BY RowFields DEF ResetUser, NoRequest
  <1>2. KeysMatchRows'
    BY <1>1 DEF KeysMatchRows
  <1>3. CallIsCurrent'
    <2>1. SUFFICES ASSUME call # NoCall PROVE CallIsCurrent'
      BY <1>1 DEF CallIsCurrent
    <2>2. CASE call.op \in {"WON", "LOST"}
      <3>1. call.on \in Charges /\ call.birth <= resets /\ call.birth \in Nat
        BY <2>1, <2>2, CallType DEF RowsInv, CallIsCurrent, TypeOK, Call
      <3>2. dispute'[call.on].status = "none" /\ call.birth < resets'
        BY <1>1, <3>1 DEF NoDispute
      <3>. QED
        BY <1>1, <2>1, <2>2, <3>1, <3>2 DEF CallIsCurrent, Status, Found
    <2>3. CASE call.op = "book"
      <3>1. call.on \in Requests
        BY <2>1, <2>3, CallType
      <3>. QED
        BY <1>1, <2>1, <2>3, <3>1 DEF RowsInv, CallIsCurrent
    <2>4. CASE call.op \notin {"WON", "LOST", "book"}
      BY <1>1, <2>1, <2>4 DEF CallIsCurrent
    <2>. QED
      BY <2>2, <2>3, <2>4
  <1>4. \A c \in Charges : dispute'[c].birth <= resets'
    BY <1>1 DEF NoDispute
  <1>. QED
    BY <1>1, <1>2, <1>3, <1>4 DEF RowsInv

\* Steps on one request: only BookRefund posts.
LEMMA RequestRows ==
  ASSUME TypeOK, RowsInv,
         \/ \E r \in Requests :
              CreateRefundRequest(r) \/ Review(r) \/ ProcessRefund(r)
         \/ BookRefund \/ MarkProcessed
  PROVE  RowsInv'
  <1>1. UNCHANGED <<dispute, resets>>
    BY DEF CreateRefundRequest, Review, ProcessRefund, BookRefund,
           MarkProcessed, db
  <1>2. \A c \in Charges : dispute'[c].birth <= resets'
    BY <1>1 DEF RowsInv
  <1>3. ASSUME NEW r \in Requests, CreateRefundRequest(r)
        PROVE  RowsInv'
    <2>1. /\ request'[r].linked = FALSE
          /\ request[r].status = "none" /\ request'[r].status = "PENDING"
          /\ \A q \in Requests : q # r => request'[q] = request[q]
          /\ UNCHANGED <<posted, call>>
      BY <1>3 DEF CreateRefundRequest, TypeOK, money
    <2>2. /\ KeysMatchRows'
          /\ \A q \in Requests : request'[q].linked => request'[q].status # "none"
      BY <1>1, <2>1 DEF RowsInv, KeysMatchRows, Status
    <2>3. CallIsCurrent'
      <3>1. call # NoCall /\ call.op = "book" => call.on \in Requests /\ call.on # r
        BY <2>1, CallType DEF RowsInv, CallIsCurrent
      <3>. QED
        BY <1>1, <2>1, <3>1 DEF RowsInv, CallIsCurrent, Status, Found
    <2>. QED
      BY <1>2, <2>2, <2>3 DEF RowsInv
  <1>4. ASSUME NEW r \in Requests, Review(r) \/ ProcessRefund(r)
        PROVE  RowsInv'
    <2>1. /\ \A q \in Requests : /\ request'[q].linked = request[q].linked
                                 /\ request[q].status # "none" => request'[q].status # "none"
          /\ UNCHANGED posted
      BY <1>4 DEF Review, ProcessRefund, TypeOK, Request, money, db
    <2>2. /\ KeysMatchRows'
          /\ \A q \in Requests : request'[q].linked => request'[q].status # "none"
      BY <1>1, <2>1 DEF RowsInv, KeysMatchRows, Status
    <2>3. CallIsCurrent'
      <3>1. CASE Review(r)
        BY <3>1 DEF Review, CallIsCurrent
      <3>2. CASE ProcessRefund(r)
        <4>1. /\ call'.op \in {"mark", "book"} /\ call'.on = r /\ call'.amount = Asked[r]
              /\ call'.op = "book" => ~ request[r].linked
              /\ request'[r] = request[r] /\ request[r].status = "APPROVED"
          BY <3>2 DEF ProcessRefund, db
        <4>. QED
          BY <4>1 DEF CallIsCurrent
      <3>. QED
        BY <1>4, <3>1, <3>2
    <2>. QED
      BY <1>2, <2>2, <2>3 DEF RowsInv
  <1>5. CASE BookRefund
    <2> DEFINE r == call.on
    <2>1. r \in Requests /\ call # NoCall /\ call.op = "book"
      BY <1>5, CallType DEF BookRefund
    <2>2. /\ call' = NoCall \/ call'.op = "mark"
          /\ \/ UNCHANGED <<posted, request>>
             \/ /\ posted' = posted \cup {<<"refund", r>>}
                /\ request' = [request EXCEPT ![r].linked = TRUE]
      <3>1. call \in Call
        BY <2>1 DEF TypeOK
      <3>2. [call EXCEPT !.op = "mark"].op = "mark"
        BY <3>1 DEF Call
      <3>. QED
        BY <1>5, <3>2 DEF BookRefund, Post, money
    <2>3. request[r].status # "none"
      BY <2>1 DEF RowsInv, CallIsCurrent
    <2> HIDE DEF r
    <2>4. /\ KeysMatchRows'
          /\ \A q \in Requests : request'[q].linked => request'[q].status # "none"
      <3>1. CASE UNCHANGED <<posted, request>>
        BY <1>1, <3>1 DEF RowsInv, KeysMatchRows, Status
      <3>2. CASE /\ posted' = posted \cup {<<"refund", r>>}
                 /\ request' = [request EXCEPT ![r].linked = TRUE]
        <4>1. /\ request'[r].linked /\ request'[r].status # "none"
              /\ \A q \in Requests : q # r => request'[q] = request[q]
          BY <2>1, <2>3, <3>2 DEF TypeOK, Request
        <4>. QED
          BY <1>1, <2>1, <3>2, <4>1, KeysDiffer DEF RowsInv, KeysMatchRows, Status
      <3>. QED
        BY <2>2, <3>1, <3>2
    <2>5. CallIsCurrent'
      BY <2>2 DEF CallIsCurrent
    <2>. QED
      BY <1>2, <2>4, <2>5 DEF RowsInv
  <1>6. CASE MarkProcessed
    <2> DEFINE r == call.on
    <2>1. r \in Requests /\ UNCHANGED posted /\ call' = NoCall
      BY <1>6, CallType DEF MarkProcessed, money
    <2>2. \/ request' = request
          \/ request' = [request EXCEPT ![r].status = "PROCESSED"]
      BY <1>6 DEF MarkProcessed
    <2> HIDE DEF r
    <2>3. \A q \in Requests : /\ request'[q].linked = request[q].linked
                              /\ request[q].status # "none" => request'[q].status # "none"
      BY <2>1, <2>2 DEF TypeOK, Request
    <2>4. /\ KeysMatchRows'
          /\ \A q \in Requests : request'[q].linked => request'[q].status # "none"
      BY <1>1, <2>1, <2>3 DEF RowsInv, KeysMatchRows, Status
    <2>. QED
      BY <1>2, <2>1, <2>4 DEF RowsInv, CallIsCurrent
  <1>. QED
    BY <1>3, <1>4, <1>5, <1>6

\* Steps on one dispute: an outcome is posted on an open row only.
LEMMA DisputeRows ==
  ASSUME TypeOK, RowsInv,
         \/ \E c \in Charges :
              AttachEvidence(c) \/ \E o \in {"WON", "LOST"} : SetOutcome(c, o)
         \/ RecordWon \/ RecordLost
  PROVE  RowsInv'
  <1>1. UNCHANGED <<request, resets>>
    BY DEF AttachEvidence, SetOutcome, RecordWon, RecordLost, db
  <1>2. ASSUME NEW c \in Charges, AttachEvidence(c)
        PROVE  RowsInv'
    <2>1. /\ \A d \in Charges : d # c => dispute'[d] = dispute[d]
          /\ dispute[c].status = "OPEN" /\ dispute'[c].status = "EVIDENCE_SUBMITTED"
          /\ dispute'[c].birth = dispute[c].birth
          /\ UNCHANGED <<posted, call>> /\ call = NoCall
      BY <1>2 DEF AttachEvidence, TypeOK, Dispute, money
    <2>2. KeysMatchRows'
      BY <1>1, <2>1 DEF RowsInv, KeysMatchRows, Status
    <2>3. CallIsCurrent' /\ \A d \in Charges : dispute'[d].birth <= resets'
      BY <1>1, <2>1 DEF RowsInv, CallIsCurrent
    <2>. QED
      BY <1>1, <2>2, <2>3 DEF RowsInv
  <1>3. ASSUME NEW c \in Charges, NEW o \in {"WON", "LOST"}, SetOutcome(c, o)
        PROVE  RowsInv'
    <2>1. /\ UNCHANGED <<posted, dispute>>
          /\ dispute[c].status \in Open
          /\ call' = [op |-> o, on |-> c, amount |-> dispute[c].amount,
                      birth |-> dispute[c].birth]
      BY <1>3 DEF SetOutcome, db, money
    <2>2. CallIsCurrent'
      BY <1>1, <2>1 DEF RowsInv, CallIsCurrent, Status, Found, Open
    <2>. QED
      BY <1>1, <2>1, <2>2 DEF RowsInv, KeysMatchRows, Status
  <1>4. CASE RecordWon \/ RecordLost
    <2> DEFINE c == call.on
               b == call.birth
    <2>1. /\ c \in Charges /\ call' = NoCall /\ call # NoCall
          /\ call.op \in {"WON", "LOST"}
      BY <1>4, CallType DEF RecordWon, RecordLost
    <2>2. \/ UNCHANGED <<posted, dispute>>
          \/ /\ Found
             /\ \/ /\ posted' = posted \cup {<<"won", c, b>>}
                   /\ dispute' = [dispute EXCEPT ![c].status = "WON"]
                \/ /\ posted' = posted \cup {<<"fee", c, b>>}
                   /\ dispute' = [dispute EXCEPT ![c].status = "LOST"]
      BY <1>4 DEF RecordWon, RecordLost, Post
    <2>3. Found => Status(c) \in Open
      BY <2>1 DEF RowsInv, CallIsCurrent
    <2> HIDE DEF c, b
    <2>4. CallIsCurrent'
      BY <2>1 DEF CallIsCurrent
    <2>5. /\ KeysMatchRows'
          /\ \A d \in Charges : dispute'[d].birth <= resets'
      <3>1. CASE UNCHANGED <<posted, dispute>>
        BY <1>1, <3>1 DEF RowsInv, KeysMatchRows, Status
      <3>2. CASE /\ Found /\ posted' = posted \cup {<<"won", c, b>>}
                 /\ dispute' = [dispute EXCEPT ![c].status = "WON"]
        <4>1. /\ dispute'[c].status = "WON" /\ dispute'[c].birth = dispute[c].birth
              /\ \A d \in Charges : d # c => dispute'[d] = dispute[d]
              /\ Status(c) # "LOST"
          BY <2>1, <2>3, <3>2 DEF TypeOK, Dispute, Open
        <4>. QED
          BY <1>1, <2>1, <3>2, <4>1, KeysDiffer DEF RowsInv, KeysMatchRows, Status
      <3>3. CASE /\ Found /\ posted' = posted \cup {<<"fee", c, b>>}
                 /\ dispute' = [dispute EXCEPT ![c].status = "LOST"]
        <4>1. /\ dispute'[c].status = "LOST" /\ dispute'[c].birth = dispute[c].birth
              /\ \A d \in Charges : d # c => dispute'[d] = dispute[d]
              /\ Status(c) # "WON"
          BY <2>1, <2>3, <3>3 DEF TypeOK, Dispute, Open
        <4>. QED
          BY <1>1, <2>1, <3>3, <4>1, KeysDiffer DEF RowsInv, KeysMatchRows, Status
      <3>. QED
        BY <2>2, <3>1, <3>2, <3>3
    <2>. QED
      BY <1>1, <2>4, <2>5 DEF RowsInv
  <1>. QED
    BY <1>2, <1>3, <1>4

\* The other steps leave the rows alone, and at most end the call.
LEMMA RowsStep ==
  ASSUME TypeOK, RowsInv, [Next]_vars
  PROVE  RowsInv'
  <1>1. CASE UNCHANGED <<dispute, request, posted, resets>> /\ call' \in {call, NoCall}
    BY <1>1 DEF RowsInv, KeysMatchRows, CallIsCurrent, Found, Status
  <1>2. ASSUME NEW c \in Charges, SimulateCardRebill(c) \/ SimulateSolanaConfirmation(c)
        PROVE  RowsInv'
    BY <1>1, <1>2 DEF SimulateCardRebill, SimulateSolanaConfirmation, Settled
  <1>3. CASE Abort
    BY <1>1, <1>3 DEF Abort, db
  <1>4. CASE UNCHANGED vars
    BY <1>1, <1>4 DEF vars
  <1>. QED
    BY <1>2, <1>3, <1>4, ChargebackRows, ResetRows, RequestRows, DisputeRows
    DEF Next-----------------------------------------------------------------------------
\* What the sums are taken over is finite, and they are integers.
LEMMA SumsOfRows ==
  ASSUME TypeOK, IsFiniteSet(Disputed), IsFiniteSet(Linked)
  PROVE  /\ IsFiniteSet(Standing) /\ IsFiniteSet(Lost) /\ Cardinality(Lost) \in Nat
         /\ \A c \in Standing : Amounts[c] \in Int
         /\ \A r \in Linked : Asked[r] \in Int
         /\ SumFunctionOnSet(Amounts, Standing) \in Int
         /\ SumFunctionOnSet(Asked, Linked) \in Int
  <1>1. Standing \subseteq Disputed /\ Lost \subseteq Disputed
    BY DEF Standing, Lost, Disputed, Status, Open
  <1>2. IsFiniteSet(Standing) /\ IsFiniteSet(Lost) /\ Cardinality(Lost) \in Nat
    BY <1>1, FS_Subset, FS_CardinalityType
  <1>3. \A c \in Standing : Amounts[c] \in Int
    BY RowFields DEF Standing, Amounts
  <1>4. \A r \in Linked : Asked[r] \in Int
    BY AmountsAssumption DEF Linked
  <1>5. SumFunctionOnSet(Amounts, Standing) \in Int
    BY <1>2, <1>3, SumType
  <1>6. SumFunctionOnSet(Asked, Linked) \in Int
    BY <1>4, SumType
  <1>. QED
    BY <1>2, <1>3, <1>4, <1>5, <1>6

\* A step that adds an amount to what the rows have reversed, and perhaps a
\* fee, and takes as much from the accounts.
LEMMA BooksMove ==
  ASSUME TypeOK, BooksInv, NEW d \in Int, NEW e \in {0, 1},
         UNCHANGED left,
         IsFiniteSet(Disputed)', IsFiniteSet(Linked)',
         Reversed' = Reversed + d,
         Cardinality(Lost)' = Cardinality(Lost) + e,
         book'.revenue = book.revenue - d,
         book'.expense = book.expense + Fee * e
  PROVE  BooksInv'
  <1>1. /\ Reversed \in Int /\ Cardinality(Lost) \in Nat /\ Fee \in Nat
        /\ left.revenue \in Int /\ left.expense \in Int
    BY SumsOfRows, RowFields, AmountsAssumption DEF BooksInv, Reversed
  <1>2. book'.revenue = left'.revenue - Reversed'
    BY <1>1 DEF BooksInv
  <1>3. Fee * (Cardinality(Lost) + e) = Fee * Cardinality(Lost) + Fee * e
    <2>1. CASE e = 0
      BY <1>1, <2>1
    <2>2. CASE e = 1
      BY <1>1, <2>2
    <2>. QED
      BY <2>1, <2>2
  <1>4. Fee * Cardinality(Lost) \in Int /\ Fee * e \in Int
    BY <1>1
  <1>5. book'.expense = left'.expense + Fee * Cardinality(Lost)'
    BY <1>1, <1>3, <1>4 DEF BooksInv
  <1>. QED
    BY <1>2, <1>5 DEF BooksInv

\* The rows that count, and what they count for, stay as they are.
LEMMA QuietBooks ==
  ASSUME TypeOK, BooksInv, UNCHANGED <<book, left>>,
         \A c \in Charges : /\ dispute'[c].amount = dispute[c].amount
                            /\ \/ dispute'[c].status = dispute[c].status
                               \/ /\ dispute[c].status = "OPEN"
                                  /\ dispute'[c].status = "EVIDENCE_SUBMITTED",
         \A r \in Requests : request'[r].linked = request[r].linked
  PROVE  BooksInv'
  <1> DEFINE f == Amounts
             g == Amounts'
             S == Standing
  <1>1. /\ Disputed' = Disputed /\ Lost' = Lost /\ Standing' = S /\ Linked' = Linked
    BY DEF Disputed, Lost, Standing, Linked, Status, Open
  <1>2. \A c \in S : f[c] = g[c]
    BY DEF Amounts, Standing
  <1>3. IsFiniteSet(S)
    BY SumsOfRows DEF BooksInv
  <1> HIDE DEF f, g, S
  <1>4. SumFunctionOnSet(f, S) = SumFunctionOnSet(g, S)
    BY <1>2, <1>3, SumSame
  <1>5. Reversed' = Reversed
    BY <1>1, <1>4 DEF f, g, S, Reversed
  <1>6. Cardinality(Lost)' = Cardinality(Lost) /\ IsFiniteSet(Disputed)' /\ IsFiniteSet(Linked)'
    BY <1>1 DEF BooksInv
  <1>. QED
    BY <1>5, <1>6 DEF BooksInv

\* An opened dispute reverses what is claimed.
LEMMA ChargebackBooks ==
  ASSUME TypeOK, RowsInv, BooksInv, NEW n \in Notices, SimulateChargeback(n)
  PROVE  BooksInv'
  <1> DEFINE c == About[n]
             k == Claimed[n]
  <1>1. c \in Charges /\ k \in Int /\ UNCHANGED <<request, left>>
    BY EventsAssumption, AmountsAssumption DEF SimulateChargeback
  <1>2. CASE Status(c) # "none"
    BY <1>1, <1>2, QuietBooks
    DEF SimulateChargeback, ChargebackReceived, Status, money
  <1>3. CASE Status(c) = "none"
    <2>1. /\ dispute' = [dispute EXCEPT ![c] =
               [status |-> "OPEN", amount |-> k, birth |-> resets]]
          /\ Post(<<"chargeback", c>>, Reversal(k))
      BY <1>3 DEF SimulateChargeback, ChargebackReceived, Status
    <2>2. <<"chargeback", c>> \notin posted
      BY <1>1, <1>3 DEF RowsInv, KeysMatchRows
    <2> HIDE DEF c, k
    <2>3. /\ book'.revenue = book.revenue - k
          /\ book'.expense = book.expense + Fee * 0
      BY <1>1, <2>1, <2>2, RowFields, AmountsAssumption DEF Post, Reversal
    <2>4. /\ \A d \in Charges : d # c => dispute'[d] = dispute[d]
          /\ dispute'[c].status = "OPEN" /\ dispute'[c].amount = k
      BY <1>1, <2>1 DEF TypeOK
    <2>5. /\ Disputed' = Disputed \cup {c} /\ Lost' = Lost
          /\ Standing' = Standing \cup {c} /\ c \notin Standing /\ Linked' = Linked
      BY <1>1, <1>3, <2>4 DEF Disputed, Lost, Standing, Linked, Status, Open
    <2>6. IsFiniteSet(Disputed)' /\ IsFiniteSet(Linked)'
      BY <2>5, FS_AddElement DEF BooksInv
    <2> DEFINE f == Amounts
               g == Amounts'
               S == Standing
    <2>7. g[c] = k /\ \A d \in S : f[d] \in Int /\ g[d] = f[d]
      BY <1>1, <2>4, <2>5, RowFields DEF Amounts, Standing
    <2>8. IsFiniteSet(S) /\ c \notin S
      BY <2>5, SumsOfRows DEF BooksInv
    <2> HIDE DEF f, g, S
    <2>9. SumFunctionOnSet(g, S \cup {c}) = SumFunctionOnSet(f, S) + g[c]
      BY <1>1, <2>7, <2>8, SumGrows
    <2>10. SumFunctionOnSet(f, S) \in Int /\ SumFunctionOnSet(Asked, Linked) \in Int
      BY SumsOfRows DEF f, S, BooksInv
    <2>11. Reversed' = SumFunctionOnSet(g, S \cup {c}) + SumFunctionOnSet(Asked, Linked)
      BY <2>5 DEF g, S, Reversed
    <2>12. Reversed' = Reversed + k
      BY <1>1, <2>7, <2>9, <2>10, <2>11 DEF f, S, Reversed
    <2>13. Cardinality(Lost)' = Cardinality(Lost) + 0
      BY <2>5, SumsOfRows DEF BooksInv
    <2>. QED
      BY <1>1, <2>3, <2>6, <2>12, <2>13, BooksMove
  <1>. QED
    BY <1>2, <1>3

\* A refund that gets its paymentRefundId reverses what was asked.
LEMMA RefundBooks ==
  ASSUME TypeOK, RowsInv, BooksInv, BookRefund
  PROVE  BooksInv'
  <1> DEFINE r == call.on
  <1>1. /\ r \in Requests /\ call # NoCall /\ call.op = "book"
        /\ UNCHANGED <<dispute, left>>
    BY CallType DEF BookRefund
  <1>2. CASE request[r].status = "deleted"
    BY <1>1, <1>2, QuietBooks DEF BookRefund, money
  <1>3. CASE request[r].status # "deleted"
    <2> DEFINE k == Asked[r]
    <2>1. /\ ~ request[r].linked /\ k \in Int
          /\ Post(<<"refund", r>>, Reversal(k))
          /\ request' = [request EXCEPT ![r].linked = TRUE]
      BY <1>1, <1>3, AmountsAssumption DEF BookRefund, RowsInv, CallIsCurrent
    <2>2. <<"refund", r>> \notin posted
      BY <1>1, <2>1 DEF RowsInv, KeysMatchRows
    <2> HIDE DEF r, k
    <2>3. /\ book'.revenue = book.revenue - k
          /\ book'.expense = book.expense + Fee * 0
      BY <2>1, <2>2, RowFields, AmountsAssumption DEF Post, Reversal
    <2>4. /\ \A q \in Requests : q # r => request'[q] = request[q]
          /\ request'[r].linked
      BY <1>1, <2>1 DEF TypeOK, Request
    <2>5. Linked' = Linked \cup {r} /\ r \notin Linked
      BY <1>1, <2>1, <2>4 DEF Linked
    <2>6. /\ Disputed' = Disputed /\ Lost' = Lost /\ Standing' = Standing
          /\ Amounts' = Amounts
      BY <1>1 DEF Disputed, Lost, Standing, Status, Amounts
    <2>7. IsFiniteSet(Disputed)' /\ IsFiniteSet(Linked)'
      BY <2>5, <2>6, FS_AddElement DEF BooksInv
    <2>8. SumFunctionOnSet(Asked, Linked \cup {r}) = SumFunctionOnSet(Asked, Linked) + k
      BY <2>1, <2>5, SumsOfRows, SumGrows DEF k, BooksInv
    <2>9. /\ SumFunctionOnSet(Amounts, Standing) \in Int
          /\ SumFunctionOnSet(Asked, Linked) \in Int
      BY SumsOfRows DEF BooksInv
    <2>10. Reversed' = SumFunctionOnSet(Amounts, Standing)
                         + SumFunctionOnSet(Asked, Linked \cup {r})
      BY <2>5, <2>6 DEF Reversed
    <2>11. Reversed' = Reversed + k
      BY <2>1, <2>8, <2>9, <2>10 DEF Reversed
    <2>12. Cardinality(Lost)' = Cardinality(Lost) + 0
      BY <2>6, SumsOfRows DEF BooksInv
    <2>. QED
      BY <1>1, <2>1, <2>3, <2>7, <2>11, <2>12, BooksMove
  <1>. QED
    BY <1>2, <1>3

\* A dispute that is won gives back what its chargeback took.
LEMMA WonBooks ==
  ASSUME TypeOK, RowsInv, BooksInv, RecordWon
  PROVE  BooksInv'
  <1> DEFINE c == call.on
             k == call.amount
  <1>1. /\ c \in Charges /\ k \in Int /\ call # NoCall /\ call.op = "WON"
        /\ call.birth \in Nat
        /\ UNCHANGED <<request, left>>
    BY CallType DEF RecordWon, TypeOK, Call
  <1>2. CASE ~ Found
    BY <1>1, <1>2, QuietBooks DEF RecordWon
  <1>3. CASE Found
    <2>1. /\ Status(c) \in Open /\ dispute[c].amount = k
          /\ Post(<<"won", c, call.birth>>, Recovery(k))
          /\ dispute' = [dispute EXCEPT ![c].status = "WON"]
      BY <1>1, <1>3 DEF RecordWon, RowsInv, CallIsCurrent
    <2>2. <<"won", c, call.birth>> \notin posted
      BY <1>1, <2>1 DEF RowsInv, KeysMatchRows, Open
    <2> HIDE DEF c, k
    <2>3. /\ book'.revenue = book.revenue - (-k)
          /\ book'.expense = book.expense + Fee * 0
      BY <1>1, <2>1, <2>2, RowFields, AmountsAssumption DEF Post, Recovery
    <2>4. /\ \A d \in Charges : d # c => dispute'[d] = dispute[d]
          /\ dispute'[c].status = "WON"
      BY <1>1, <2>1 DEF TypeOK, Dispute
    <2>5. /\ Disputed' = Disputed /\ Lost' = Lost
          /\ Standing' = Standing \ {c} /\ c \in Standing /\ Linked' = Linked
      BY <1>1, <2>1, <2>4 DEF Disputed, Lost, Standing, Linked, Status, Open
    <2>6. IsFiniteSet(Disputed)' /\ IsFiniteSet(Linked)'
      BY <2>5 DEF BooksInv
    <2> DEFINE f == Amounts
               g == Amounts'
               S == Standing
    <2>7. /\ f[c] = k /\ \A d \in S : f[d] \in Int
          /\ \A d \in S \ {c} : g[d] = f[d]
      BY <1>1, <2>1, <2>4, RowFields DEF Amounts, Standing
    <2>8. IsFiniteSet(S) /\ c \in S
      BY <2>5, SumsOfRows DEF BooksInv
    <2> HIDE DEF f, g, S
    <2>9. SumFunctionOnSet(g, S \ {c}) = SumFunctionOnSet(f, S) - f[c]
      BY <2>7, <2>8, SumShrinks
    <2>10. SumFunctionOnSet(f, S) \in Int /\ SumFunctionOnSet(Asked, Linked) \in Int
      BY SumsOfRows DEF f, S, BooksInv
    <2>11. Reversed' = SumFunctionOnSet(g, S \ {c}) + SumFunctionOnSet(Asked, Linked)
      BY <2>5 DEF g, S, Reversed
    <2>12. Reversed' = Reversed + (-k)
      BY <1>1, <2>7, <2>9, <2>10, <2>11 DEF f, S, Reversed
    <2>13. Cardinality(Lost)' = Cardinality(Lost) + 0
      BY <2>5, SumsOfRows DEF BooksInv
    <2>14. -k \in Int
      BY <1>1
    <2>. QED
      BY <1>1, <2>3, <2>6, <2>12, <2>13, <2>14, BooksMove
  <1>. QED
    BY <1>2, <1>3

\* A dispute that is lost costs a fee, and its chargeback stands.
LEMMA LostBooks ==
  ASSUME TypeOK, RowsInv, BooksInv, RecordLost
  PROVE  BooksInv'
  <1> DEFINE c == call.on
  <1>1. /\ c \in Charges /\ call # NoCall /\ call.op = "LOST"
        /\ call.birth \in Nat
        /\ UNCHANGED <<request, left>>
    BY CallType DEF RecordLost, TypeOK, Call
  <1>2. CASE ~ Found
    BY <1>1, <1>2, QuietBooks DEF RecordLost
  <1>3. CASE Found
    <2>1. /\ Status(c) \in Open
          /\ Post(<<"fee", c, call.birth>>, FeeCharged)
          /\ dispute' = [dispute EXCEPT ![c].status = "LOST"]
      BY <1>1, <1>3 DEF RecordLost, RowsInv, CallIsCurrent
    <2>2. <<"fee", c, call.birth>> \notin posted
      BY <1>1, <2>1 DEF RowsInv, KeysMatchRows, Open
    <2> HIDE DEF c
    <2>3. /\ book'.revenue = book.revenue - 0
          /\ book'.expense = book.expense + Fee * 1
      BY <2>1, <2>2, RowFields, AmountsAssumption DEF Post, FeeCharged
    <2>4. /\ \A d \in Charges : d # c => dispute'[d] = dispute[d]
          /\ dispute'[c].status = "LOST" /\ dispute'[c].amount = dispute[c].amount
      BY <1>1, <2>1 DEF TypeOK, Dispute
    <2>5. /\ Disputed' = Disputed /\ Lost' = Lost \cup {c} /\ c \notin Lost
          /\ Standing' = Standing /\ Linked' = Linked
      BY <1>1, <2>1, <2>4 DEF Disputed, Lost, Standing, Linked, Status, Open
    <2>6. IsFiniteSet(Disputed)' /\ IsFiniteSet(Linked)'
      BY <2>5 DEF BooksInv
    <2>7. IsFiniteSet(Lost) /\ Cardinality(Lost)' = Cardinality(Lost \cup {c})
      BY <2>5, SumsOfRows DEF BooksInv
    <2>8. Cardinality(Lost)' = Cardinality(Lost) + 1
      BY <2>5, <2>7, FS_AddElement
    <2> DEFINE f == Amounts
               g == Amounts'
               S == Standing
    <2>9. IsFiniteSet(S) /\ \A d \in S : f[d] = g[d]
      BY <2>4, SumsOfRows DEF Amounts, Standing, BooksInv
    <2> HIDE DEF f, g, S
    <2>10. SumFunctionOnSet(f, S) = SumFunctionOnSet(g, S)
      BY <2>9, SumSame
    <2>11. Reversed' = Reversed
      BY <2>5, <2>10 DEF f, g, S, Reversed
    <2>12. Reversed \in Int
      BY SumsOfRows DEF BooksInv, Reversed
    <2>13. Reversed' = Reversed + 0
      BY <2>11, <2>12
    <2>. QED
      BY <1>1, <2>3, <2>6, <2>8, <2>13, BooksMove
  <1>. QED
    BY <1>2, <1>3

\* A reset removes every row, and what the accounts hold is what it leaves.
LEMMA ResetBooks ==
  ASSUME TypeOK, BooksBalance, ResetUser
  PROVE  BooksInv'
  <1>1. /\ left' = book /\ book' = book
        /\ \A c \in Charges : dispute'[c] = NoDispute
        /\ \A r \in Requests : request'[r].linked = FALSE
    BY DEF ResetUser, NoRequest
  <1>2. Disputed' = {} /\ Lost' = {} /\ Standing' = {} /\ Linked' = {}
    BY <1>1 DEF Disputed, Lost, Standing, Linked, Status, NoDispute, Open
  <1> DEFINE g == Amounts'
  <1> HIDE DEF g
  <1>3. SumFunctionOnSet(g, {}) = 0 /\ SumFunctionOnSet(Asked, {}) = 0
    BY SumOfNothing
  <1>4. Reversed' = SumFunctionOnSet(g, {}) + SumFunctionOnSet(Asked, {})
    BY <1>2 DEF g, Reversed
  <1>5. Reversed' = 0
    BY <1>3, <1>4
  <1>6. /\ Cardinality(Lost)' = 0
        /\ IsFiniteSet(Disputed)' /\ IsFiniteSet(Linked)'
    BY <1>2, FS_EmptySet
  <1>7. /\ book.revenue \in Int /\ book.expense \in Int /\ Fee \in Int
        /\ book.asset + book.expense = book.revenue
    BY RowFields, AmountsAssumption DEF BooksBalance
  <1>8. /\ book'.revenue = left'.revenue - Reversed'
        /\ book'.expense = left'.expense + Fee * Cardinality(Lost)'
        /\ left'.asset + left'.expense = left'.revenue
    BY <1>1, <1>5, <1>6, <1>7
  <1>. QED
    BY <1>6, <1>8 DEF BooksInv

\* Every step moves the accounts by what it changes in the rows.
LEMMA BooksStep ==
  ASSUME BillingInv, RowsInv, BooksInv, [Next]_vars
  PROVE  BooksInv'
  <1>1. TypeOK /\ BooksBalance
    BY DEF BillingInv
  <1>2. CASE UNCHANGED <<dispute, request, book, left>>
    BY <1>1, <1>2, QuietBooks
  <1>3. ASSUME NEW c \in Charges,
               SimulateCardRebill(c) \/ SimulateSolanaConfirmation(c)
        PROVE  BooksInv'
    BY <1>2, <1>3 DEF SimulateCardRebill, SimulateSolanaConfirmation, Settled
  <1>4. ASSUME NEW c \in Charges, AttachEvidence(c)
        PROVE  BooksInv'
    <2>1. \A d \in Charges :
            /\ dispute'[d].amount = dispute[d].amount
            /\ \/ dispute'[d].status = dispute[d].status
               \/ /\ dispute[d].status = "OPEN"
                  /\ dispute'[d].status = "EVIDENCE_SUBMITTED"
      BY <1>1, <1>4 DEF AttachEvidence, TypeOK, Dispute
    <2>2. UNCHANGED <<request, book, left>>
      BY <1>4 DEF AttachEvidence, money
    <2>. QED
      BY <1>1, <2>1, <2>2, QuietBooks
  <1>5. ASSUME NEW c \in Charges, NEW o \in {"WON", "LOST"}, SetOutcome(c, o)
        PROVE  BooksInv'
    BY <1>2, <1>5 DEF SetOutcome, db, money
  <1>6. ASSUME NEW r \in Requests,
               CreateRefundRequest(r) \/ Review(r) \/ ProcessRefund(r)
        PROVE  BooksInv'
    <2>1. UNCHANGED <<dispute, book, left>>
      BY <1>6 DEF CreateRefundRequest, Review, ProcessRefund, money, db
    <2>2. CASE CreateRefundRequest(r)
      <3>1. /\ request[r].status = "none" /\ request'[r].linked = FALSE
            /\ \A q \in Requests : q # r => request'[q] = request[q]
        BY <1>1, <2>2 DEF CreateRefundRequest, TypeOK
      <3>2. request[r].linked = FALSE
        BY <1>1, <3>1, RowFields DEF RowsInv
      <3>. QED
        BY <1>1, <2>1, <3>1, <3>2, QuietBooks
    <2>3. CASE Review(r) \/ ProcessRefund(r)
      <3>1. \A q \in Requests : request'[q].linked = request[q].linked
        BY <1>1, <2>3 DEF Review, ProcessRefund, TypeOK, Request, db
      <3>. QED
        BY <1>1, <2>1, <3>1, QuietBooks
    <2>. QED
      BY <1>6, <2>2, <2>3
  <1>7. CASE MarkProcessed
    <2>1. call.on \in Requests /\ UNCHANGED <<dispute, book, left>>
      BY <1>1, <1>7, CallType DEF MarkProcessed, money
    <2>2. \A q \in Requests : request'[q].linked = request[q].linked
      BY <1>1, <1>7, <2>1 DEF MarkProcessed, TypeOK, Request
    <2>. QED
      BY <1>1, <2>1, <2>2, QuietBooks
  <1>8. CASE Abort
    BY <1>2, <1>8 DEF Abort, db
  <1>9. CASE UNCHANGED vars
    BY <1>2, <1>9 DEF vars
  <1>. QED
    BY <1>1, <1>3, <1>4, <1>5, <1>6, <1>7, <1>8, <1>9, ChargebackBooks,
       RefundBooks, WonBooks, LostBooks, ResetBooks
    DEF Next

LEMMA BooksInit == Init => RowsInv /\ BooksInv
  <1> SUFFICES ASSUME Init PROVE RowsInv /\ BooksInv
    OBVIOUS
  <1>1. RowsInv
    BY DEF Init, RowsInv, KeysMatchRows, CallIsCurrent, NoDispute, NoRequest
  <1>2. Disputed = {} /\ Lost = {} /\ Standing = {} /\ Linked = {}
    BY DEF Init, Disputed, Lost, Standing, Linked, Status, NoDispute, NoRequest,
           Open
  <1> DEFINE f == Amounts
  <1> HIDE DEF f
  <1>3. SumFunctionOnSet(f, {}) = 0 /\ SumFunctionOnSet(Asked, {}) = 0
    BY SumOfNothing
  <1>4. Reversed = SumFunctionOnSet(f, {}) + SumFunctionOnSet(Asked, {})
    BY <1>2 DEF f, Reversed
  <1>5. Reversed = 0
    BY <1>3, <1>4
  <1>6. Cardinality(Lost) = 0 /\ IsFiniteSet(Disputed) /\ IsFiniteSet(Linked)
    BY <1>2, FS_EmptySet
  <1>7. book = Zero /\ left = Zero /\ Fee \in Int
    BY AmountsAssumption DEF Init
  <1>. QED
    BY <1>1, <1>5, <1>6, <1>7 DEF BooksInv, Zero

\* What the last reset left balances, as do the accounts: the assets follow
\* from the revenue and the expenses.
LEMMA AssetsFollow ==
  ASSUME BillingInv, BooksInv
  PROVE  RowsExplainBooks
  <1>1. /\ TypeOK /\ book.asset + book.expense = book.revenue
        /\ left.asset + left.expense = left.revenue
        /\ book.revenue = left.revenue - Reversed
        /\ book.expense = left.expense + Fee * Cardinality(Lost)
    BY DEF BillingInv, BooksBalance, BooksInv
  <1>2. /\ book.asset \in Int /\ book.revenue \in Int /\ book.expense \in Int
        /\ left.asset \in Int /\ left.revenue \in Int /\ left.expense \in Int
    BY <1>1, RowFields
  <1>3. Reversed \in Int /\ Fee * Cardinality(Lost) \in Int
    BY <1>1, SumsOfRows, AmountsAssumption DEF BooksInv, Reversed
  <1>4. book.asset = left.asset - Reversed - Fee * Cardinality(Lost)
    BY <1>1, <1>2, <1>3
  <1>. QED
    BY <1>1, <1>4 DEF RowsExplainBooks, Reversed, Amounts, Linked, Lost, Status

\* Whatever has been charged back, refunded, won and lost since the last
\* reset, and however often calls have failed or met a reset: the accounts
\* hold what it left in them but for one reversal of each standing
\* chargeback and of each booked refund, and one fee of each LOST dispute.
THEOREM RowsExplainTheBooks == Spec => []RowsExplainBooks
  <1>1. RowsInv /\ BooksInv /\ BillingInv /\ [Next]_vars => (RowsInv /\ BooksInv)'
    BY RowsStep, BooksStep DEF BillingInv
  <1>2. BillingInv /\ BooksInv => RowsExplainBooks
    BY AssetsFollow
  <1>. QED
    BY <1>1, <1>2, BooksInit, BillingInvariant, PTL DEF Spec
=============================================================================
