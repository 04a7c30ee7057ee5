---------------------------- MODULE RefundsProofs ----------------------------
(***************************************************************************)
(* Theorems about Refunds.tla for any number of requests, admin calls and   *)
(* faults, with transactions that expire or do not.                         *)
(*                                                                          *)
(* What a call writes last rests on what it saw and did at its earlier      *)
(* awaits.  StageOf says what a handler has behind it where it is, KeysHeld *)
(* that a reversal it has inserted is its alone, and GatewayPaid that the   *)
(* gateway's answers stand for money that went out.                         *)
(*                                                                          *)
(* The second part is about RefundsPage.tla: Waiting says which of the      *)
(* page's calls are about a row, and SerialInv what a page used one call at *)
(* a time has to show.                                                      *)
(***************************************************************************)
EXTENDS RefundsPage, TLAPS

\* What PROCESSED claims of a request.
Done(r) == IF form[r].type = "PAYMENT" THEN reversed[r] = 1 ELSE credited[r] > 0

\* Some refund of the charge t was paid out.
PaidFor(t) == \E q \in Requests : paid[q] > 0 /\ Txn(q) = t

Reviewed(r) == status[r] \notin {"none", "PENDING"}

StageOf(h) ==
  /\ pc[h] \notin Idle => at[h] \in Requests
  /\ pc[h] \notin Idle \cup {"approve", "deny"} => Reviewed(at[h])
  /\ pc[h] = "refund" => form[at[h]].type = "PAYMENT" /\ Txn(at[h]) \in Txns
  /\ pc[h] \in {"ledger", "insert", "link"} => outer[h] = "open"
  /\ pc[h] \in {"ledger", "insert"} => ~ wrote[h]
  /\ pc[h] \in {"lookup", "credit"} =>
       outer[h] # "none" \/ form[at[h]].type = "CREDITS"
  /\ pc[h] = "commit" => outer[h] # "none"
  /\ pc[h] = "mark" => Done(at[h])
  /\ outer[h] # "none" =>
       /\ pc[h] \in InTransaction
       /\ form[at[h]].type = "PAYMENT" /\ PaidFor(Txn(at[h]))
  /\ outer[h] = "open" => gid[h] \in GatewayIds
  /\ outer[h] = "open" /\ pc[h] \in {"link", "lookup", "credit", "commit"} =>
       wrote[h] \/ reversed[at[h]] > 0
  /\ wrote[h] => outer[h] = "open"

Stages == \A h \in Handlers : StageOf(h)

KeysHeld ==
  \A h \in Handlers : wrote[h] =>
    /\ reversed[at[h]] = 0
    /\ \A g \in Handlers : wrote[g] /\ at[g] = at[h] => g = h

GatewayPaid ==
  /\ \A r \in Requests : answers[r] # NoId => PaidFor(Txn(r))
  /\ \A t \in Txns : charge[t] = "refunded" => PaidFor(t)

RefundsInv ==
  /\ TypeOK /\ Stages /\ KeysHeld /\ GatewayPaid /\ ReversedOnceWithId
  /\ ReversedIsPaid /\ NothingBeforeReview /\ ProcessedIsDone
-----------------------------------------------------------------------------
LEMMA RefundsInit == Init => RefundsInv
  <1>. SUFFICES ASSUME Init PROVE RefundsInv
    OBVIOUS
  <1>1. TypeOK
    BY MaxFaultsAssumption DEF Init, TypeOK, Statuses, Idle
  <1>2. Stages /\ KeysHeld /\ GatewayPaid
    BY DEF Init, Stages, StageOf, KeysHeld, GatewayPaid, Idle
  <1>. QED
    BY <1>1, <1>2
    DEF Init, RefundsInv, ReversedOnceWithId, ReversedIsPaid,
        NothingBeforeReview, ProcessedIsDone

\* A form names a charge, or the user's newest, or none.
LEMMA TxnType ==
  ASSUME TypeOK, NEW r \in Requests
  PROVE  /\ form[r].type \in {"CREDITS", "PAYMENT"}
         /\ Txn(r) \in Txns \cup {NoTxn}
  BY FormsAssumption, LatestAssumption DEF TypeOK, Form, Txn

\* A step of one handler that leaves statuses and reversals alone, takes no
\* credits or payments back, and puts the handler where it may be.
LEMMA HandlerStep ==
  ASSUME RefundsInv, NEW h \in Handlers, TypeOK',
         UNCHANGED <<form, status, paymentId, reversed>>,
         \A r \in Requests : credited[r] > 0 => credited'[r] > 0,
         \A r \in Requests : paid[r] > 0 => paid'[r] > 0,
         NothingBeforeReview', GatewayPaid', StageOf(h)',
         \A g \in Handlers \ {h} :
           /\ pc'[g] = pc[g] /\ at'[g] = at[g] /\ gid'[g] = gid[g]
           /\ outer'[g] = outer[g] /\ wrote'[g] = wrote[g],
         wrote'[h] =>
           /\ reversed[at'[h]] = 0
           /\ \A g \in Handlers \ {h} : ~ (wrote[g] /\ at[g] = at'[h])
  PROVE  RefundsInv'
  <1>1. /\ TypeOK /\ Stages /\ KeysHeld /\ ReversedOnceWithId
        /\ ReversedIsPaid /\ ProcessedIsDone
    BY DEF RefundsInv
  <1>2. \A r \in Requests : Txn(r)' = Txn(r)
    BY DEF Txn
  <1>3. ASSUME NEW t, PaidFor(t)
        PROVE  PaidFor(t)'
    BY <1>2, <1>3 DEF PaidFor
  <1>4. ASSUME NEW r \in Requests, Done(r)
        PROVE  Done(r)'
    BY <1>1, <1>4 DEF Done, TypeOK
  <1>5. Stages'
    <2>1. SUFFICES ASSUME NEW g \in Handlers, g # h
                   PROVE  StageOf(g)'
      BY DEF Stages
    <2>2. StageOf(g)
      BY <1>1 DEF Stages
    <2>3. /\ pc'[g] = pc[g] /\ at'[g] = at[g] /\ gid'[g] = gid[g]
          /\ outer'[g] = outer[g] /\ wrote'[g] = wrote[g]
      BY <2>1
    <2>4. outer[g] # "none" => at[g] \in Requests
      BY <2>2 DEF StageOf, InTransaction, Idle
    <2>5. pc[g] = "mark" => at[g] \in Requests
      BY <2>2 DEF StageOf, Idle
    <2>6. outer[g] # "none" => PaidFor(Txn(at[g]))'
      BY <1>2, <1>3, <2>2, <2>3, <2>4 DEF StageOf
    <2>7. pc[g] = "mark" => Done(at[g])'
      BY <1>4, <2>2, <2>3, <2>5 DEF StageOf
    <2>9. pc[g] = "refund" => Txn(at[g])' \in Txns
      BY <1>2, <2>2, <2>3 DEF StageOf, Idle
    <2>. QED
      BY <2>2, <2>3, <2>6, <2>7, <2>9 DEF StageOf, Reviewed
  <1>6. KeysHeld'
    BY <1>1 DEF KeysHeld
  <1>7. ReversedIsPaid'
    BY <1>1, <1>2, <1>3 DEF ReversedIsPaid, PaidFor
  <1>8. ReversedOnceWithId' /\ ProcessedIsDone'
    BY <1>1, <1>4 DEF ReversedOnceWithId, ProcessedIsDone, Done
  <1>. QED
    BY <1>5, <1>6, <1>7, <1>8 DEF RefundsInv

\* A step of one handler that leaves the rows, the money and the gateway alone.
LEMMA LocalStep ==
  ASSUME RefundsInv, NEW h \in Handlers, TypeOK', StageOf(h)',
         UNCHANGED <<form, status, paymentId, money, gateway>>,
         \A g \in Handlers \ {h} :
           /\ pc'[g] = pc[g] /\ at'[g] = at[g] /\ gid'[g] = gid[g]
           /\ outer'[g] = outer[g] /\ wrote'[g] = wrote[g],
         wrote'[h] =>
           /\ reversed[at'[h]] = 0
           /\ \A g \in Handlers \ {h} : ~ (wrote[g] /\ at[g] = at'[h])
  PROVE  RefundsInv'
  <1>1. NothingBeforeReview' /\ GatewayPaid'
    BY DEF RefundsInv, NothingBeforeReview, GatewayPaid, PaidFor, Txn, money,
           gateway
  <1>. QED
    BY <1>1, HandlerStep DEF money

\* A call that is answered, or goes where it only answers, holds no
\* transaction: after OuterRollback, an expiry's failure, a P2002.
LEMMA EndStep ==
  ASSUME RefundsInv, NEW h \in Handlers, TypeOK',
         UNCHANGED <<form, status, paymentId, money, gateway>>,
         \A g \in Handlers \ {h} :
           /\ pc'[g] = pc[g] /\ at'[g] = at[g] /\ gid'[g] = gid[g]
           /\ outer'[g] = outer[g] /\ wrote'[g] = wrote[g],
         outer'[h] = "none", ~ wrote'[h],
         pc'[h] \in Idle \/
           (pc'[h] = "record" /\ at'[h] = at[h] /\ pc[h] \notin Idle
              /\ pc[h] \notin {"approve", "deny"})
  PROVE  RefundsInv'
  <1>1. StageOf(h)
    BY DEF RefundsInv, Stages
  <1>2. StageOf(h)'
    BY <1>1 DEF StageOf, Idle, InTransaction, Reviewed
  <1>. QED
    BY <1>2, LocalStep

\* Every call begins with a read of the row and a check of what it read.
LEMMA StartStep ==
  ASSUME RefundsInv, NEW h \in Handlers, NEW r \in Requests,
         ReadForReview(h, r) \/ ReadForProcess(h, r)
  PROVE  RefundsInv'
  <1>1. TypeOK /\ StageOf(h) /\ ReversedOnceWithId
    BY DEF RefundsInv, Stages
  <1>2. PICK l \in {"approve", "deny", "lookup", "mark", "record", "refund"} :
          /\ Start(h, r, l)
          /\ l \notin {"approve", "deny"} =>
               status[r] = "APPROVED" /\ l = Dispatch(r)
    BY DEF ReadForReview, ReadForProcess, Dispatch
  <1>3. /\ pc' = [pc EXCEPT ![h] = l] /\ pc[h] \in Idle
        /\ at' = [at EXCEPT ![h] = r]
        /\ UNCHANGED <<rows, money, gateway, gid, outer, wrote, faults>>
    BY <1>2 DEF Start, Goto
  <1>4. outer[h] = "none" /\ ~ wrote[h]
    BY <1>1, <1>3 DEF StageOf, Idle, InTransaction
  <1>5. TypeOK'
    BY <1>1, <1>2, <1>3
    DEF TypeOK, rows, money, gateway, Idle, InTransaction
  <1>6. /\ pc'[h] = l /\ at'[h] = r /\ outer'[h] = "none" /\ ~ wrote'[h]
        /\ \A g \in Handlers \ {h} :
             /\ pc'[g] = pc[g] /\ at'[g] = at[g] /\ gid'[g] = gid[g]
             /\ outer'[g] = outer[g] /\ wrote'[g] = wrote[g]
    BY <1>1, <1>3, <1>4 DEF TypeOK
  <1>7. StageOf(h)'
    <2>1. form[r].type \in {"CREDITS", "PAYMENT"} /\ Txn(r) \in Txns \cup {NoTxn}
      BY <1>1, TxnType
    <2>2. l = "refund" => form[r].type = "PAYMENT" /\ Txn(r) \in Txns
      BY <1>2, <2>1 DEF Dispatch
    <2>3. l = "lookup" => form[r].type = "CREDITS"
      BY <1>2 DEF Dispatch
    <2>4. l = "mark" => Done(r)
      BY <1>1, <1>2, <2>1 DEF Dispatch, Done, ReversedOnceWithId
    <2>5. l \notin {"approve", "deny"} => Reviewed(r)
      BY <1>2 DEF Reviewed
    <2>6. Txn(r)' = Txn(r) /\ Done(r)' = Done(r) /\ Reviewed(r)' = Reviewed(r)
      BY <1>3 DEF Txn, Done, Reviewed, rows, money
    <2>7. l = "refund" => (form[r].type = "PAYMENT" /\ Txn(r) \in Txns)'
      BY <1>3, <2>2, <2>6 DEF rows
    <2>8. l = "lookup" => (form[r].type = "CREDITS")'
      BY <1>3, <2>3 DEF rows
    <2>. QED
      BY <1>2, <1>6, <2>4, <2>5, <2>6, <2>7, <2>8
      DEF StageOf, Idle, InTransaction
  <1>8. UNCHANGED <<form, status, paymentId, money, gateway>>
    BY <1>3 DEF rows
  <1>. QED
    BY <1>5, <1>6, <1>7, <1>8, LocalStep

\* Calls that fail before they have committed anything of their own.
LEMMA FailStep ==
  ASSUME RefundsInv, NEW h \in Handlers,
         RecordError(h) \/ ExpiredFails(h) \/ OuterRollback(h) \/ StatementFails(h)
  PROVE  RefundsInv'
  <1>1. TypeOK /\ StageOf(h)
    BY DEF RefundsInv, Stages
  <1>a. UNCHANGED <<form, status, paymentId, money, gateway>>
    BY DEF RecordError, ExpiredFails, OuterRollback, StatementFails, rows
  <1>b. \/ error' = [error EXCEPT ![at[h]] = TRUE]
        \/ error' = error
    BY DEF RecordError, ExpiredFails, OuterRollback, StatementFails, rows
  <1>c. faults' \in 0 .. MaxFaults
    BY <1>1, MaxFaultsAssumption
    DEF RecordError, ExpiredFails, OuterRollback, StatementFails, Fault, TypeOK
  <1>d. pc' = [pc EXCEPT ![h] = "record"] \/ pc' = [pc EXCEPT ![h] = "failed"]
    BY DEF RecordError, ExpiredFails, OuterRollback, StatementFails, Answer, Goto
  <1>2. /\ UNCHANGED <<form, status, paymentId, money, gateway>>
        /\ pc' = [pc EXCEPT ![h] = pc'[h]]
        /\ error' \in [Requests -> BOOLEAN] /\ faults' \in 0 .. MaxFaults
    BY <1>1, <1>a, <1>b, <1>c, <1>d DEF TypeOK
  <1>3. CASE RecordError(h) \/ StatementFails(h)
    <2>1. /\ pc'[h] = "failed" /\ pc[h] \in {"approve", "deny", "mark", "record"}
          /\ at' = [at EXCEPT ![h] = NoRequest]
          /\ gid' = [gid EXCEPT ![h] = NoId] /\ UNCHANGED <<outer, wrote>>
      BY <1>1, <1>3 DEF RecordError, StatementFails, Answer, Goto, TypeOK
    <2>2. outer[h] = "none" /\ ~ wrote[h]
      BY <1>1, <2>1 DEF StageOf, InTransaction
    <2>3. TypeOK'
      BY <1>1, <1>2, <2>1 DEF TypeOK, money, gateway, Idle
    <2>4. \A g \in Handlers \ {h} :
            /\ pc'[g] = pc[g] /\ at'[g] = at[g] /\ gid'[g] = gid[g]
            /\ outer'[g] = outer[g] /\ wrote'[g] = wrote[g]
      BY <1>1, <1>2, <2>1 DEF TypeOK
    <2>. QED
      BY <1>2, <2>1, <2>2, <2>3, <2>4, EndStep DEF Idle
  <1>4. CASE ExpiredFails(h) \/ OuterRollback(h)
    <2>1. /\ pc'[h] = "record" /\ outer[h] # "none"
          /\ outer' = [outer EXCEPT ![h] = "none"]
          /\ wrote' = [wrote EXCEPT ![h] = FALSE] /\ UNCHANGED <<at, gid>>
      BY <1>1, <1>4 DEF ExpiredFails, OuterRollback, EndOuter, Goto, TypeOK
    <2>2. pc[h] \notin Idle /\ pc[h] \notin {"approve", "deny"}
      BY <1>1, <2>1 DEF StageOf, InTransaction, Idle
    <2>3. TypeOK'
      BY <1>1, <1>2, <2>1 DEF TypeOK, money, gateway
    <2>4. /\ outer'[h] = "none" /\ ~ wrote'[h]
          /\ \A g \in Handlers \ {h} :
            /\ pc'[g] = pc[g] /\ at'[g] = at[g] /\ gid'[g] = gid[g]
            /\ outer'[g] = outer[g] /\ wrote'[g] = wrote[g]
      BY <1>1, <1>2, <2>1 DEF TypeOK
    <2>. QED
      BY <1>2, <2>1, <2>2, <2>3, <2>4, EndStep
  <1>. QED
    BY <1>3, <1>4

\* The awaits of an outer transaction, and the credits' lookup.
LEMMA OuterStep ==
  ASSUME RefundsInv, NEW h \in Handlers,
         \/ LookupKey(h) \/ InsertReversal(h) \/ Link(h) \/ LookupCredits(h)
         \/ InnerRollback(h) \/ Expire(h)
  PROVE  RefundsInv'
  <1>1. TypeOK /\ StageOf(h) /\ KeysHeld /\ Stages /\ ReversedOnceWithId
    BY DEF RefundsInv, Stages
  <1>2. UNCHANGED <<rows, money, gateway, at, gid>>
    BY DEF LookupKey, InsertReversal, Link, LookupCredits, InnerRollback, Expire,
           local
  <1>3. UNCHANGED <<form, status, paymentId, error, reversed, credited, paid,
                    money, gateway, answers, charge, restarts, at, gid>>
    BY <1>2 DEF rows, money, gateway
  <1>4. /\ pc[h] \in {"ledger", "insert", "link", "lookup", "credit"}
        /\ at[h] \in Requests /\ Reviewed(at[h])
    BY <1>1
    DEF LookupKey, InsertReversal, Link, LookupCredits, InnerRollback, Expire,
        StageOf, Idle
  <1>5. /\ form[at[h]].type \in {"CREDITS", "PAYMENT"}
        /\ reversed[at[h]] \in {0, 1}
    BY <1>1, <1>4, TxnType DEF ReversedOnceWithId
  <1>6. /\ \A t : PaidFor(t)' <=> PaidFor(t)
        /\ \A r : (Txn(r))' = Txn(r)
        /\ \A r : Done(r)' <=> Done(r)
        /\ \A r : Reviewed(r)' <=> Reviewed(r)
    BY <1>3 DEF PaidFor, Txn, Done, Reviewed
  <1>7. ASSUME pc' = [pc EXCEPT ![h] = pc'[h]],
               outer' = [outer EXCEPT ![h] = outer'[h]],
               wrote' = [wrote EXCEPT ![h] = wrote'[h]],
               TypeOK', StageOf(h)',
               wrote'[h] =>
                 \/ wrote[h]
                 \/ /\ reversed[at[h]] = 0
                    /\ \A g \in Handlers \ {h} : ~ (wrote[g] /\ at[g] = at[h])
        PROVE  RefundsInv'
    <2>1. \A g \in Handlers \ {h} :
            /\ pc'[g] = pc[g] /\ at'[g] = at[g] /\ gid'[g] = gid[g]
            /\ outer'[g] = outer[g] /\ wrote'[g] = wrote[g]
      BY <1>1, <1>3, <1>7 DEF TypeOK
    <2>2. wrote'[h] =>
            /\ reversed[at'[h]] = 0
            /\ \A g \in Handlers \ {h} : ~ (wrote[g] /\ at[g] = at'[h])
      BY <1>1, <1>3, <1>7 DEF KeysHeld
    <2>. QED
      BY <1>3, <1>7, <2>1, <2>2, LocalStep
  <1>8. CASE LookupKey(h)
    <2>1. /\ pc[h] = "ledger" /\ pc' = [pc EXCEPT ![h] = pc'[h]]
          /\ pc'[h] \in {"link", "insert"}
          /\ pc'[h] = "link" => reversed[at[h]] > 0
          /\ UNCHANGED <<outer, wrote, faults>>
      BY <1>1, <1>8 DEF LookupKey, Goto, local, TypeOK
    <2>2. TypeOK'
      BY <1>1, <1>3, <2>1 DEF TypeOK, InTransaction
    <2>3. StageOf(h)'
      BY <1>1, <1>3, <1>4, <1>6, <2>1 DEF StageOf, Idle, InTransaction
    <2>. QED
      BY <1>1, <1>7, <2>1, <2>2, <2>3 DEF TypeOK
  <1>9. CASE InsertReversal(h)
    <2>1. pc[h] = "insert" /\ outer[h] = "open" /\ ~ wrote[h] /\ faults' = faults
      BY <1>1, <1>9 DEF InsertReversal, StageOf
    <2>2. CASE reversed[at[h]] > 0
      <3>1. /\ pc' = [pc EXCEPT ![h] = "record"]
            /\ outer' = [outer EXCEPT ![h] = "none"] /\ wrote' = wrote
        BY <1>9, <2>2 DEF InsertReversal, Goto
      <3>2. TypeOK'
        BY <1>1, <1>3, <2>1, <3>1 DEF TypeOK
      <3>3. pc'[h] = "record" /\ outer'[h] = "none" /\ ~ wrote'[h]
        BY <1>1, <2>1, <3>1 DEF TypeOK
      <3>4. StageOf(h)'
        BY <1>1, <1>3, <1>4, <1>6, <2>1, <3>3 DEF StageOf, Idle, InTransaction
      <3>. QED
        BY <1>1, <1>7, <3>1, <3>2, <3>3, <3>4 DEF TypeOK
    <2>3. CASE ~ reversed[at[h]] > 0
      <3>1. /\ pc' = [pc EXCEPT ![h] = "link"]
            /\ wrote' = [wrote EXCEPT ![h] = TRUE] /\ outer' = outer
            /\ \A g \in Handlers \ {h} : ~ HoldsKey(g, at[h])
        BY <1>9, <2>3 DEF InsertReversal, Goto
      <3>2. TypeOK'
        BY <1>1, <1>3, <2>1, <3>1 DEF TypeOK, InTransaction
      <3>3. pc'[h] = "link" /\ wrote'[h] /\ outer'[h] = "open"
        BY <1>1, <2>1, <3>1 DEF TypeOK
      <3>4. StageOf(h)'
        BY <1>1, <1>3, <1>4, <1>6, <2>1, <3>1, <3>3
        DEF StageOf, Idle, InTransaction
      <3>5. \A g \in Handlers \ {h} : ~ (wrote[g] /\ at[g] = at[h])
        BY <1>1, <3>1 DEF HoldsKey, Stages, StageOf
      <3>. QED
        BY <1>1, <1>5, <1>7, <2>3, <3>1, <3>2, <3>4, <3>5 DEF TypeOK
    <2>. QED
      BY <2>2, <2>3
  <1>10. CASE Link(h)
    <2>1. /\ pc[h] = "link" /\ pc' = [pc EXCEPT ![h] = "lookup"]
          /\ UNCHANGED <<outer, wrote, faults>>
      BY <1>10 DEF Link, Goto, local
    <2>2. TypeOK' /\ pc'[h] = "lookup"
      BY <1>1, <1>3, <2>1 DEF TypeOK, InTransaction
    <2>3. StageOf(h)'
      BY <1>1, <1>3, <1>4, <1>6, <2>1, <2>2 DEF StageOf, Idle, InTransaction
    <2>. QED
      BY <1>1, <1>7, <2>1, <2>2, <2>3 DEF TypeOK
  <1>11. CASE LookupCredits(h) \/ InnerRollback(h)
    <2>1. /\ pc[h] \in {"lookup", "credit"} /\ pc' = [pc EXCEPT ![h] = pc'[h]]
          /\ UNCHANGED <<outer, wrote>> /\ faults' \in 0 .. MaxFaults
          /\ pc'[h] \in {"credit", "mark", "record", "commit"}
          /\ pc'[h] \in {"mark", "record"} => form[at[h]].type = "CREDITS"
          /\ pc'[h] = "commit" => form[at[h]].type # "CREDITS"
          /\ pc'[h] = "mark" => credited[at[h]] > 0
      BY <1>1, <1>11, MaxFaultsAssumption
      DEF LookupCredits, InnerRollback, Moved, NotMoved, Goto, Fault, local, TypeOK
    <2>2. TypeOK'
      BY <1>1, <1>3, <2>1 DEF TypeOK, InTransaction
    <2>3. pc'[h] = "mark" => Done(at[h])
      BY <2>1 DEF Done
    <2>4. StageOf(h)'
      BY <1>1, <1>3, <1>4, <1>5, <1>6, <2>1, <2>3
      DEF StageOf, Idle, InTransaction
    <2>. QED
      BY <1>1, <1>7, <2>1, <2>2, <2>4 DEF TypeOK
  <1>12. CASE Expire(h)
    <2>1. /\ pc[h] \in {"lookup", "credit"} /\ pc' = pc /\ outer[h] = "open"
          /\ outer' = [outer EXCEPT ![h] = "expired"]
          /\ wrote' = [wrote EXCEPT ![h] = FALSE] /\ faults' \in 0 .. MaxFaults
      BY <1>1, <1>12, MaxFaultsAssumption DEF Expire, Fault, TypeOK
    <2>2. TypeOK' /\ outer'[h] = "expired" /\ ~ wrote'[h]
      BY <1>1, <1>3, <2>1 DEF TypeOK
    <2>3. StageOf(h)'
      BY <1>1, <1>3, <1>4, <1>6, <2>1, <2>2 DEF StageOf, Idle, InTransaction
    <2>. QED
      BY <1>1, <1>7, <2>1, <2>2, <2>3 DEF TypeOK
  <1>. QED
    BY <1>8, <1>9, <1>10, <1>11, <1>12
-----------------------------------------------------------------------------
LEMMA IdTypes ==
  /\ \A r \in Requests, n \in Nat : <<"fresh", r, n>> \in GatewayIds
  /\ \A t \in Txns : <<"existing", t>> \in GatewayIds
  BY DEF GatewayIds

\* Whatever the gateway answers, money for that charge has gone out by then;
\* it pays once more only where it has logged no answer, and logs this one.
LEMMA RefundedEffect ==
  ASSUME RefundsInv, NEW h \in Handlers, NEW r \in Requests,
         Txn(r) \in Txns, Refunded(h, r), form' = form
  PROVE  /\ answers' = [answers EXCEPT ![r] = answers'[r]]
         /\ answers'[r] \in GatewayIds
         /\ answers[r] # NoId => answers'[r] = answers[r] /\ paid' = paid
         /\ gid' = [gid EXCEPT ![h] = answers'[r]]
         /\ \/ paid' = paid
            \/ paid' = [paid EXCEPT ![r] = paid[r] + 1]
         /\ charge' \in [Txns -> {"unknown", "ok", "refunded"}]
         /\ PaidFor(Txn(r))'
         /\ GatewayPaid'
         /\ restarts' = restarts
  <1> DEFINE id == IF answers[r] # NoId THEN answers[r]
                   ELSE IF form[r].gateway = "AUTHORIZE_NET"
                             /\ charge[Txn(r)] = "refunded"
                        THEN <<"existing", Txn(r)>>
                        ELSE <<"fresh", r, paid[r] + 1>>
             pays == answers[r] = NoId /\ id[1] = "fresh"
  <1>1. TypeOK /\ GatewayPaid
    BY DEF RefundsInv
  <1>2. id \in GatewayIds
    BY <1>1, IdTypes DEF TypeOK
  <1>3. /\ answers' = [answers EXCEPT ![r] = id] /\ gid' = [gid EXCEPT ![h] = id]
        /\ paid' = IF pays THEN [paid EXCEPT ![r] = paid[r] + 1] ELSE paid
        /\ charge' = IF pays /\ form[r].gateway = "AUTHORIZE_NET"
                          /\ charge[Txn(r)] = "ok"
                     THEN [charge EXCEPT ![Txn(r)] = "refunded"] ELSE charge
        /\ restarts' = restarts
    BY DEF Refunded
  <1>4. answers'[r] = id
    BY <1>1, <1>3 DEF TypeOK
  <1>5. ~ pays => PaidFor(Txn(r))
    <2>1. answers[r] = NoId /\ ~ pays => charge[Txn(r)] = "refunded"
      OBVIOUS
    <2>. QED
      BY <1>1, <2>1 DEF GatewayPaid
  <1>6. \A q \in Requests : Txn(q)' = Txn(q)
    BY DEF Txn
  <1>7. \A q \in Requests : paid[q] > 0 => paid'[q] > 0
    BY <1>1, <1>3 DEF TypeOK
  <1>8. ASSUME NEW t, PaidFor(t)
        PROVE  PaidFor(t)'
    BY <1>6, <1>7, <1>8 DEF PaidFor
  <1>9. PaidFor(Txn(r))'
    <2>1. CASE pays
      <3>1. paid'[r] > 0
        BY <1>1, <1>3, <2>1 DEF TypeOK
      <3>. QED
        BY <1>6, <3>1 DEF PaidFor
    <2>2. CASE ~ pays
      <3>1. PaidFor(Txn(r))
        BY <1>5, <2>2
      <3>. QED
        BY <1>6, <1>7, <3>1 DEF PaidFor
    <2>. QED
      BY <2>1, <2>2
  <1>10. \E q \in Requests : paid'[q] > 0 /\ Txn(q) = Txn(r)
    BY <1>6, <1>9 DEF PaidFor
  <1>11. GatewayPaid'
    <2>1. ASSUME NEW q \in Requests, answers'[q] # NoId
          PROVE  \E p \in Requests : paid'[p] > 0 /\ Txn(p) = Txn(q)
      <3>1. CASE q = r
        BY <1>10, <3>1
      <3>2. CASE q # r
        <4>1. answers[q] # NoId
          BY <1>1, <1>3, <2>1, <3>2 DEF TypeOK
        <4>. QED
          BY <1>1, <1>7, <4>1 DEF GatewayPaid, PaidFor
      <3>. QED
        BY <3>1, <3>2
    <2>2. ASSUME NEW t \in Txns, charge'[t] = "refunded"
          PROVE  \E p \in Requests : paid'[p] > 0 /\ Txn(p) = t
      <3>1. CASE t = Txn(r)
        BY <1>10, <3>1
      <3>2. CASE t # Txn(r)
        <4>1. charge[t] = "refunded"
          BY <1>1, <1>3, <2>2, <3>2 DEF TypeOK
        <4>. QED
          BY <1>1, <1>7, <4>1 DEF GatewayPaid, PaidFor
      <3>. QED
        BY <3>1, <3>2
    <2>. QED
      BY <1>6, <2>1, <2>2 DEF GatewayPaid, PaidFor
  <1>12. charge' \in [Txns -> {"unknown", "ok", "refunded"}]
    BY <1>1, <1>3 DEF TypeOK
  <1>13. answers[r] # NoId => answers'[r] = answers[r] /\ paid' = paid
    BY <1>3, <1>4
  <1>14. \/ paid' = paid
         \/ paid' = [paid EXCEPT ![r] = paid[r] + 1]
    BY <1>3
  <1>. HIDE DEF id, pays
  <1>15. restarts' = restarts
    BY <1>3
  <1>. QED
    BY <1>2, <1>3, <1>4, <1>9, <1>11, <1>12, <1>13, <1>14, <1>15

LEMMA GatewayStep ==
  ASSUME RefundsInv, NEW h \in Handlers, RefundCharge(h) \/ GatewayFails(h)
  PROVE  RefundsInv'
  <1>1. TypeOK /\ StageOf(h) /\ NothingBeforeReview /\ GatewayPaid
    BY DEF RefundsInv, Stages
  <1>2. /\ pc[h] = "refund" /\ at[h] \in Requests /\ Txn(at[h]) \in Txns
        /\ form[at[h]].type = "PAYMENT" /\ Reviewed(at[h])
        /\ outer[h] = "none" /\ ~ wrote[h]
    BY <1>1 DEF RefundCharge, GatewayFails, StageOf, Idle, InTransaction
  <1>3. UNCHANGED <<rows, reversed, credited, at, wrote>>
    BY DEF RefundCharge, GatewayFails
  <1>4. UNCHANGED <<form, status, paymentId, error, reversed, credited, at, wrote>>
    BY <1>3 DEF rows
  <1>5. /\ \A r : (Txn(r))' = Txn(r)
        /\ \A r : Done(r)' <=> Done(r)
        /\ \A r : Reviewed(r)' <=> Reviewed(r)
    BY <1>4 DEF Txn, Done, Reviewed
  <1>6. ASSUME Refunded(h, at[h]), faults' \in 0 .. MaxFaults,
               \/ pc' = [pc EXCEPT ![h] = "ledger"]
                  /\ outer' = [outer EXCEPT ![h] = "open"]
               \/ pc' = [pc EXCEPT ![h] = "record"] /\ outer' = outer
        PROVE  RefundsInv'
    <2>1. /\ answers' = [answers EXCEPT ![at[h]] = answers'[at[h]]]
          /\ answers'[at[h]] \in GatewayIds
          /\ gid' = [gid EXCEPT ![h] = answers'[at[h]]]
          /\ \/ paid' = paid
             \/ paid' = [paid EXCEPT ![at[h]] = paid[at[h]] + 1]
          /\ charge' \in [Txns -> {"unknown", "ok", "refunded"}]
          /\ PaidFor(Txn(at[h]))' /\ GatewayPaid' /\ restarts' = restarts
      BY <1>2, <1>4, <1>6, RefundedEffect
    <2>2. TypeOK'
      BY <1>1, <1>2, <1>4, <1>6, <2>1 DEF TypeOK, InTransaction
    <2>3. /\ \A g \in Handlers \ {h} :
            /\ pc'[g] = pc[g] /\ at'[g] = at[g] /\ gid'[g] = gid[g]
            /\ outer'[g] = outer[g] /\ wrote'[g] = wrote[g]
          /\ gid'[h] \in GatewayIds
          /\ \/ pc'[h] = "ledger" /\ outer'[h] = "open"
             \/ pc'[h] = "record" /\ outer'[h] = "none"
      BY <1>1, <1>2, <1>4, <1>6, <2>1 DEF TypeOK
    <2>4. StageOf(h)'
      BY <1>2, <1>4, <1>5, <2>1, <2>3 DEF StageOf, Idle, InTransaction
    <2>5. \A r \in Requests : paid[r] > 0 => paid'[r] > 0
      BY <1>1, <2>1 DEF TypeOK
    <2>6. \A r \in Requests : r # at[h] => paid'[r] = paid[r]
      BY <1>1, <2>1 DEF TypeOK
    <2>7. NothingBeforeReview'
      BY <1>1, <1>2, <1>4, <2>6 DEF NothingBeforeReview, Reviewed
    <2>. QED
      BY <1>2, <1>4, <2>1, <2>2, <2>3, <2>4, <2>5, <2>7, HandlerStep
  <1>7. CASE RefundCharge(h)
    BY <1>1, <1>6, <1>7 DEF RefundCharge, Goto, TypeOK
  <1>8. CASE GatewayFails(h)
    <2>1. /\ pc' = [pc EXCEPT ![h] = "record"] /\ outer' = outer
          /\ faults' \in 0 .. MaxFaults
      BY <1>1, <1>8, MaxFaultsAssumption DEF GatewayFails, Goto, Fault, TypeOK
    <2>2. CASE Refunded(h, at[h])
      BY <1>6, <2>1, <2>2
    <2>3. CASE UNCHANGED <<answers, charge, restarts, paid, gid>>
      <3>1. TypeOK'
        BY <1>1, <1>4, <2>1, <2>3 DEF TypeOK
      <3>2. /\ pc'[h] = "record" /\ outer'[h] = "none" /\ ~ wrote'[h]
            /\ \A g \in Handlers \ {h} :
                 /\ pc'[g] = pc[g] /\ at'[g] = at[g] /\ gid'[g] = gid[g]
                 /\ outer'[g] = outer[g] /\ wrote'[g] = wrote[g]
        BY <1>1, <1>2, <1>4, <2>1, <2>3 DEF TypeOK
      <3>. QED
        BY <1>2, <1>4, <2>3, <3>1, <3>2, EndStep DEF Idle, money, gateway
    <2>. QED
      BY <1>8, <2>2, <2>3 DEF GatewayFails, gateway
  <1>. QED
    BY <1>7, <1>8

\* The inner transaction counts at once, whatever becomes of the outer one.
LEMMA MoveStep ==
  ASSUME RefundsInv, NEW h \in Handlers, MoveCredits(h)
  PROVE  RefundsInv'
  <1>1. /\ TypeOK /\ StageOf(h) /\ NothingBeforeReview /\ GatewayPaid
        /\ KeysHeld
    BY DEF RefundsInv, Stages
  <1>2. /\ pc[h] = "credit" /\ at[h] \in Requests /\ Reviewed(at[h])
        /\ form[at[h]].type \in {"CREDITS", "PAYMENT"}
    BY <1>1, TxnType DEF MoveCredits, StageOf, Idle
  <1>3. /\ pc' = [pc EXCEPT ![h] = pc'[h]]
        /\ pc'[h] = IF form[at[h]].type = "CREDITS" THEN "mark" ELSE "commit"
        /\ \/ credited' = [credited EXCEPT ![at[h]] = credited[at[h]] + 1]
           \/ credited' = credited /\ form[at[h]].type = "PAYMENT"
    BY <1>1, <1>2 DEF MoveCredits, Goto, Moved, NotMoved, TypeOK
  <1>4. UNCHANGED <<form, status, paymentId, error, reversed, paid, answers,
                    charge, restarts, at, gid, outer, wrote, faults>>
    BY DEF MoveCredits, rows, gateway, local
  <1>5. TypeOK'
    BY <1>1, <1>2, <1>3, <1>4 DEF TypeOK, InTransaction
  <1>6. \A g \in Handlers \ {h} :
          /\ pc'[g] = pc[g] /\ at'[g] = at[g] /\ gid'[g] = gid[g]
          /\ outer'[g] = outer[g] /\ wrote'[g] = wrote[g]
    BY <1>1, <1>3, <1>4 DEF TypeOK
  <1>7. /\ \A r \in Requests : credited[r] > 0 => credited'[r] > 0
        /\ \A r \in Requests : r # at[h] => credited'[r] = credited[r]
        /\ form[at[h]].type = "CREDITS" => credited'[at[h]] > 0
    BY <1>1, <1>2, <1>3 DEF TypeOK
  <1>8. NothingBeforeReview'
    BY <1>1, <1>2, <1>4, <1>7 DEF NothingBeforeReview, Reviewed
  <1>9. GatewayPaid'
    BY <1>1, <1>4 DEF GatewayPaid, PaidFor, Txn
  <1>10. /\ \A t : PaidFor(t)' <=> PaidFor(t)
         /\ \A r : (Txn(r))' = Txn(r)
         /\ \A r : Reviewed(r)' <=> Reviewed(r)
    BY <1>4 DEF PaidFor, Txn, Reviewed
  <1>11. form[at[h]].type = "CREDITS" => Done(at[h])'
    BY <1>4, <1>7 DEF Done
  <1>12. StageOf(h)'
    BY <1>1, <1>2, <1>3, <1>4, <1>10, <1>11 DEF StageOf, Idle, InTransaction
  <1>13. wrote'[h] =>
           /\ reversed[at'[h]] = 0
           /\ \A g \in Handlers \ {h} : ~ (wrote[g] /\ at[g] = at'[h])
    BY <1>1, <1>4 DEF KeysHeld
  <1>. QED
    BY <1>4, <1>5, <1>6, <1>7, <1>8, <1>9, <1>12, <1>13, HandlerStep
-----------------------------------------------------------------------------
\* A status is set by id alone, whatever it has become since it was read; no
\* request returns to where it was before its review.
LEMMA StatusStep ==
  ASSUME RefundsInv, NEW r \in Requests, TypeOK',
         status' = [status EXCEPT ![r] = status'[r]],
         UNCHANGED <<form, paymentId, money, gateway>>,
         Reviewed(r) => Reviewed(r)',
         status'[r] = "PROCESSED" => Done(r),
         \A g \in Handlers :
           \/ pc'[g] \in Idle /\ outer'[g] = "none" /\ ~ wrote'[g]
           \/ /\ pc'[g] = pc[g] /\ at'[g] = at[g] /\ gid'[g] = gid[g]
              /\ outer'[g] = outer[g] /\ wrote'[g] = wrote[g]
  PROVE  RefundsInv'
  <1>1. /\ TypeOK /\ Stages /\ KeysHeld /\ GatewayPaid /\ ReversedOnceWithId
        /\ ReversedIsPaid /\ NothingBeforeReview /\ ProcessedIsDone
    BY DEF RefundsInv
  <1>2. UNCHANGED <<form, paymentId, reversed, credited, paid, answers, charge,
                    restarts>>
    BY DEF money, gateway
  <1>3. /\ \A t : PaidFor(t)' <=> PaidFor(t)
        /\ \A q : (Txn(q))' = Txn(q)
        /\ \A q : Done(q)' <=> Done(q)
    BY <1>2 DEF PaidFor, Txn, Done
  <1>4. \A q \in Requests : q # r => status'[q] = status[q]
    BY <1>1 DEF TypeOK
  <1>5. \A q \in Requests : Reviewed(q) => Reviewed(q)'
    BY <1>4 DEF Reviewed
  <1>6. Stages'
    <2>1. SUFFICES ASSUME NEW g \in Handlers PROVE StageOf(g)'
      BY DEF Stages
    <2>2. StageOf(g)
      BY <1>1 DEF Stages
    <2>3. CASE pc'[g] \in Idle /\ outer'[g] = "none" /\ ~ wrote'[g]
      BY <2>3 DEF StageOf, Idle, InTransaction
    <2>4. CASE /\ pc'[g] = pc[g] /\ at'[g] = at[g] /\ gid'[g] = gid[g]
               /\ outer'[g] = outer[g] /\ wrote'[g] = wrote[g]
      BY <1>2, <1>3, <1>5, <2>2, <2>4 DEF StageOf
    <2>. QED
      BY <2>3, <2>4
  <1>7. KeysHeld'
    BY <1>1, <1>2 DEF KeysHeld
  <1>8. GatewayPaid' /\ ReversedOnceWithId' /\ ReversedIsPaid'
    BY <1>1, <1>2
    DEF GatewayPaid, ReversedOnceWithId, ReversedIsPaid, PaidFor, Txn
  <1>9. NothingBeforeReview'
    BY <1>1, <1>2, <1>5 DEF NothingBeforeReview, Reviewed
  <1>10. ProcessedIsDone'
    BY <1>1, <1>2, <1>4 DEF ProcessedIsDone, Done
  <1>. QED
    BY <1>6, <1>7, <1>8, <1>9, <1>10 DEF RefundsInv

LEMMA RowStep ==
  ASSUME RefundsInv,
         \/ \E r \in Requests : CreateRefundRequest(r)
         \/ \E h \in Handlers : Review(h) \/ MarkProcessed(h)
  PROVE  RefundsInv'
  <1>1. TypeOK /\ Stages
    BY DEF RefundsInv
  <1>2. ASSUME NEW r \in Requests, CreateRefundRequest(r)
        PROVE  RefundsInv'
    <2>1. /\ status' = [status EXCEPT ![r] = "PENDING"] /\ status[r] = "none"
          /\ UNCHANGED <<form, paymentId, error, money, gateway, pc, local, faults>>
      BY <1>2 DEF CreateRefundRequest
    <2>2. status'[r] = "PENDING"
      BY <1>1, <2>1 DEF TypeOK
    <2>3. TypeOK'
      BY <1>1, <2>1 DEF TypeOK, Statuses, money, gateway, local
    <2>. QED
      BY <2>1, <2>2, <2>3, StatusStep DEF Reviewed, local
  <1>3. ASSUME NEW h \in Handlers, Review(h) \/ MarkProcessed(h)
        PROVE  RefundsInv'
    <2>1. StageOf(h) /\ pc[h] \in {"approve", "deny", "mark"}
      BY <1>1, <1>3 DEF Stages, Review, MarkProcessed
    <2>2. at[h] \in Requests /\ outer[h] = "none" /\ ~ wrote[h]
      BY <1>1, <2>1 DEF StageOf, Idle, InTransaction, TypeOK
    <2>3. /\ UNCHANGED <<form, paymentId, money, gateway, outer, wrote, faults>>
          /\ pc' = [pc EXCEPT ![h] = "ok"]
          /\ at' = [at EXCEPT ![h] = NoRequest]
          /\ gid' = [gid EXCEPT ![h] = NoId]
      BY <1>3 DEF Review, MarkProcessed, Answer, Goto
    <2>4. \/ status' = [status EXCEPT ![at[h]] = "APPROVED"]
          \/ status' = [status EXCEPT ![at[h]] = "DENIED"]
          \/ status' = [status EXCEPT ![at[h]] = "PROCESSED"] /\ pc[h] = "mark"
      BY <1>3 DEF Review, MarkProcessed
    <2>5. error' = error \/ error' = [error EXCEPT ![at[h]] = FALSE]
      BY <1>3 DEF Review, MarkProcessed
    <2>6. /\ status'[at[h]] \in {"APPROVED", "DENIED", "PROCESSED"}
          /\ status' = [status EXCEPT ![at[h]] = status'[at[h]]]
          /\ status'[at[h]] = "PROCESSED" => pc[h] = "mark"
      BY <1>1, <2>2, <2>4 DEF TypeOK
    <2>7. TypeOK'
      BY <1>1, <2>2, <2>3, <2>4, <2>5
      DEF TypeOK, Statuses, Idle, money, gateway
    <2>8. \A g \in Handlers :
            \/ pc'[g] \in Idle /\ outer'[g] = "none" /\ ~ wrote'[g]
            \/ /\ pc'[g] = pc[g] /\ at'[g] = at[g] /\ gid'[g] = gid[g]
               /\ outer'[g] = outer[g] /\ wrote'[g] = wrote[g]
      BY <1>1, <2>2, <2>3 DEF TypeOK, Idle
    <2>9. Reviewed(at[h]) => status'[at[h]] \notin {"none", "PENDING"}
      BY <2>6
    <2>10. status'[at[h]] = "PROCESSED" => Done(at[h])
      BY <2>1, <2>6 DEF StageOf
    <2>11. ASSUME NEW r \in Requests, r = at[h]
           PROVE  RefundsInv'
      <3>1. Reviewed(r) => Reviewed(r)'
        BY <2>6, <2>11 DEF Reviewed
      <3>2. status' = [status EXCEPT ![r] = status'[r]]
        BY <2>6, <2>11
      <3>3. status'[r] = "PROCESSED" => Done(r)
        BY <2>10, <2>11
      <3>. QED
        BY <2>3, <2>7, <2>8, <3>1, <3>2, <3>3, StatusStep
    <2>. QED
      BY <2>2, <2>11
  <1>. QED
    BY <1>2, <1>3

\* The reversal and paymentRefundId appear together.
LEMMA CommitStep ==
  ASSUME RefundsInv, NEW h \in Handlers, CommitOuter(h)
  PROVE  RefundsInv'
  <1>1. /\ TypeOK /\ Stages /\ KeysHeld /\ GatewayPaid /\ ReversedOnceWithId
        /\ ReversedIsPaid /\ NothingBeforeReview /\ ProcessedIsDone /\ StageOf(h)
    BY DEF RefundsInv, Stages
  <1>2. /\ pc[h] = "commit" /\ outer[h] = "open" /\ at[h] \in Requests
        /\ Reviewed(at[h]) /\ gid[h] \in GatewayIds
        /\ form[at[h]].type = "PAYMENT" /\ PaidFor(Txn(at[h]))
        /\ wrote[h] \/ reversed[at[h]] > 0
    BY <1>1 DEF CommitOuter, StageOf, Idle
  <1>3. /\ paymentId' = [paymentId EXCEPT ![at[h]] = gid[h]]
        /\ pc' = [pc EXCEPT ![h] = "mark"]
        /\ outer' = [outer EXCEPT ![h] = "none"]
        /\ wrote' = [wrote EXCEPT ![h] = FALSE]
        /\ UNCHANGED <<form, status, error, credited, paid, answers, charge,
                       restarts, at, gid, faults>>
    BY DEF CommitOuter, EndOuter, Goto, gateway
  <1>4. /\ reversed'[at[h]] = 1
        /\ \A r \in Requests : r # at[h] => reversed'[r] = reversed[r]
        /\ reversed' \in [Requests -> Nat]
    <2>1. CASE wrote[h]
      <3>1. /\ reversed' = [reversed EXCEPT ![at[h]] = reversed[at[h]] + 1]
            /\ reversed[at[h]] = 0
        BY <1>1, <2>1 DEF CommitOuter, KeysHeld
      <3>2. reversed' = [reversed EXCEPT ![at[h]] = 1]
        BY <3>1
      <3>. QED
        BY <1>1, <1>2, <3>2 DEF TypeOK
    <2>2. CASE ~ wrote[h]
      BY <1>1, <1>2, <2>2 DEF CommitOuter, ReversedOnceWithId, TypeOK
    <2>. QED
      BY <2>1, <2>2
  <1>5. /\ pc'[h] = "mark" /\ outer'[h] = "none" /\ ~ wrote'[h]
        /\ \A g \in Handlers \ {h} :
             /\ pc'[g] = pc[g] /\ at'[g] = at[g] /\ gid'[g] = gid[g]
             /\ outer'[g] = outer[g] /\ wrote'[g] = wrote[g]
    BY <1>1, <1>3 DEF TypeOK
  <1>6. TypeOK'
    BY <1>1, <1>2, <1>3, <1>4 DEF TypeOK
  <1>7. /\ \A t : PaidFor(t)' <=> PaidFor(t)
        /\ \A q : (Txn(q))' = Txn(q)
        /\ \A q : Reviewed(q)' <=> Reviewed(q)
    BY <1>3 DEF PaidFor, Txn, Reviewed
  <1>8. \A r \in Requests : reversed[r] > 0 => reversed'[r] > 0
    BY <1>4
  <1>9. \A r \in Requests : Done(r) => Done(r)'
    BY <1>3, <1>4 DEF Done
  <1>10. Stages'
    <2>1. SUFFICES ASSUME NEW g \in Handlers PROVE StageOf(g)'
      BY DEF Stages
    <2>2. StageOf(g)
      BY <1>1 DEF Stages
    <2>3. CASE g = h
      <3>1. Done(at[h])'
        BY <1>2, <1>3, <1>4 DEF Done
      <3>. QED
        BY <1>2, <1>3, <1>5, <1>7, <2>3, <3>1 DEF StageOf, Idle, InTransaction
    <2>4. CASE g # h
      <3>1. pc[g] \in InTransaction \cup {"mark"} => at[g] \in Requests
        BY <2>2 DEF StageOf, Idle, InTransaction
      <3>2. pc[g] = "mark" => Done(at[g])'
        BY <1>3, <1>5, <1>9, <2>2, <2>4, <3>1 DEF StageOf
      <3>. QED
        BY <1>3, <1>5, <1>7, <1>8, <2>2, <2>4, <3>1, <3>2
        DEF StageOf, InTransaction
    <2>. QED
      BY <2>3, <2>4
  <1>11. KeysHeld'
    <2>1. SUFFICES ASSUME NEW g \in Handlers \ {h}, wrote[g]
                   PROVE  /\ reversed'[at[g]] = 0
                          /\ \A f \in Handlers : wrote'[f] /\ at[f] = at[g] => f = g
      BY <1>3, <1>5 DEF KeysHeld
    <2>2. /\ reversed[at[g]] = 0 /\ at[g] # at[h]
          /\ \A f \in Handlers : wrote[f] /\ at[f] = at[g] => f = g
      BY <1>1, <1>2, <2>1 DEF KeysHeld
    <2>3. at[g] \in Requests
      BY <1>1, <2>1 DEF Stages, StageOf, InTransaction, Idle
    <2>. QED
      BY <1>4, <1>5, <2>2, <2>3
  <1>12. GatewayPaid' /\ ProcessedIsDone'
    BY <1>1, <1>3, <1>7, <1>9 DEF GatewayPaid, ProcessedIsDone, Done
  <1>13. ReversedOnceWithId'
    BY <1>1, <1>2, <1>3, <1>4, NoIdAssumption DEF ReversedOnceWithId, TypeOK
  <1>14. ReversedIsPaid'
    <2>1. \A r \in Requests : reversed'[r] > 0 => PaidFor(Txn(r))
      BY <1>1, <1>2, <1>4 DEF ReversedIsPaid, PaidFor
    <2>. QED
      BY <1>3, <2>1 DEF ReversedIsPaid, PaidFor, Txn
  <1>15. NothingBeforeReview'
    BY <1>1, <1>2, <1>3, <1>4 DEF NothingBeforeReview, Reviewed
  <1>. QED
    BY <1>6, <1>10, <1>11, <1>12, <1>13, <1>14, <1>15 DEF RefundsInv

\* A crash takes the handlers and the gateway's memory with it.
LEMMA CrashStep ==
  ASSUME RefundsInv, Crash
  PROVE  RefundsInv'
  <1>1. TypeOK /\ GatewayPaid
    BY DEF RefundsInv
  <1>2. /\ pc' = [h \in Handlers |-> "idle"]
        /\ at' = [h \in Handlers |-> NoRequest]
        /\ gid' = [h \in Handlers |-> NoId]
        /\ outer' = [h \in Handlers |-> "none"]
        /\ wrote' = [h \in Handlers |-> FALSE]
        /\ UNCHANGED <<form, status, paymentId, error, reversed, credited, paid>>
        /\ answers' = [r \in Requests |-> NoId]
        /\ charge' = [t \in Txns |-> "unknown"]
        /\ restarts' = restarts + 1
        /\ faults' \in 0 .. MaxFaults
    BY <1>1, MaxFaultsAssumption
    DEF Crash, rows, money, gateway, Fault, TypeOK
  <1>3. TypeOK'
    BY <1>1, <1>2 DEF TypeOK, Idle
  <1>4. Stages' /\ KeysHeld'
    BY <1>2 DEF Stages, StageOf, KeysHeld, Idle
  <1>5. GatewayPaid'
    BY <1>1, <1>2 DEF GatewayPaid, PaidFor, Txn
  <1>6. /\ ReversedOnceWithId' /\ ReversedIsPaid' /\ NothingBeforeReview'
        /\ ProcessedIsDone'
    BY <1>2
    DEF RefundsInv, ReversedOnceWithId, ReversedIsPaid, NothingBeforeReview,
        ProcessedIsDone, Txn
  <1>. QED
    BY <1>3, <1>4, <1>5, <1>6 DEF RefundsInv

LEMMA RefundsNext ==
  ASSUME RefundsInv, [Next]_vars
  PROVE  RefundsInv'
  <1>1. CASE UNCHANGED vars
    BY <1>1
    DEF vars, RefundsInv, TypeOK, Stages, StageOf, KeysHeld, GatewayPaid,
        PaidFor, Done, Reviewed, Txn, ReversedOnceWithId, ReversedIsPaid,
        NothingBeforeReview, ProcessedIsDone
  <1>2. ASSUME NEW h \in Handlers, Step(h)
        PROVE  RefundsInv'
    BY <1>2, RowStep, GatewayStep, OuterStep, MoveStep, CommitStep, FailStep
    DEF Step
  <1>3. ASSUME NEW h \in Handlers,
               \/ GatewayFails(h) \/ OuterRollback(h) \/ InnerRollback(h)
               \/ Expire(h) \/ StatementFails(h)
        PROVE  RefundsInv'
    BY <1>3, GatewayStep, FailStep, OuterStep
  <1>4. ASSUME NEW r \in Requests, NEW h \in Handlers,
               ReadForReview(h, r) \/ ReadForProcess(h, r)
        PROVE  RefundsInv'
    BY <1>4, StartStep
  <1>. QED
    BY <1>1, <1>2, <1>3, <1>4, RowStep, CrashStep DEF Next

LEMMA RefundsInvariant == Spec => []RefundsInv
  <1>1. Init => RefundsInv
    BY RefundsInit
  <1>2. RefundsInv /\ [Next]_vars => RefundsInv'
    BY RefundsNext
  <1>. QED
    BY <1>1, <1>2, PTL DEF Spec

\* Every variable of refunds.service.ts's model keeps its type.
THEOREM RefundsTypes == Spec => []TypeOK
  BY RefundsInvariant, PTL DEF RefundsInv

\* However often, and by however many at once, processRefund is called and
\* fails: one reversal per request, and there exactly when paymentRefundId is.
THEOREM ReversalsGoWithIds == Spec => []ReversedOnceWithId
  BY RefundsInvariant, PTL DEF RefundsInv

\* No payment is reversed in the ledger that the gateway has not paid back.
THEOREM ReversalsArePaid == Spec => []ReversedIsPaid
  BY RefundsInvariant, PTL DEF RefundsInv

\* No credit, payment or booking moves for a request before its review.
THEOREM ReviewComesFirst == Spec => []NothingBeforeReview
  BY RefundsInvariant, PTL DEF RefundsInv

\* What the row calls PROCESSED has been executed.
THEOREM ProcessedIsExecuted == Spec => []ProcessedIsDone
  BY RefundsInvariant, PTL DEF RefundsInv
-----------------------------------------------------------------------------
\* What the gateway has paid in this life of the process it has logged.
Logged ==
  \A r \in Requests : paid[r] <= restarts + (IF answers[r] = NoId THEN 0 ELSE 1)

\* A call that is past the gateway, or about to call it for a request whose
\* link has committed meanwhile, has the answer in the log.
AnswerKnown(h) ==
  outer[h] = "open" \/ (pc[h] = "refund" /\ paymentId[at[h]] # NoId) =>
    answers[at[h]] # NoId

LogInv == Logged /\ \A h \in Handlers : AnswerKnown(h)

\* A step of h that leaves the gateway alone.
LEMMA LogStays ==
  ASSUME LogInv, NEW h \in Handlers, UNCHANGED <<paid, answers, restarts>>,
         UNCHANGED paymentId \/
           (/\ outer[h] = "open" /\ at[h] \in Requests
            /\ \E id : paymentId' = [paymentId EXCEPT ![at[h]] = id]),
         RefundsInv,
         \A g \in Handlers \ {h} :
           pc'[g] = pc[g] /\ at'[g] = at[g] /\ outer'[g] = outer[g],
         AnswerKnown(h)'
  PROVE  LogInv'
  <1>1. Logged'
    BY DEF LogInv, Logged
  <1>a. /\ TypeOK
        /\ \A g \in Handlers : pc[g] = "refund" => at[g] \in Requests
    BY DEF RefundsInv, Stages, StageOf, Idle
  <1>2. ASSUME NEW g \in Handlers \ {h}
        PROVE  AnswerKnown(g)'
    <2>1. AnswerKnown(g) /\ AnswerKnown(h)
      BY DEF LogInv
    <2>2. CASE UNCHANGED paymentId
      BY <2>1, <2>2 DEF AnswerKnown
    <2>3. ASSUME NEW id, outer[h] = "open", at[h] \in Requests,
                 paymentId' = [paymentId EXCEPT ![at[h]] = id]
          PROVE  AnswerKnown(g)'
      <3>1. CASE at[g] = at[h]
        BY <2>1, <2>3, <3>1 DEF AnswerKnown
      <3>2. CASE at[g] # at[h]
        <4>1. pc[g] = "refund" => paymentId'[at[g]] = paymentId[at[g]]
          BY <1>a, <2>3, <3>2 DEF TypeOK
        <4>. QED
          BY <2>1, <4>1 DEF AnswerKnown
      <3>. QED
        BY <3>1, <3>2
    <2>. QED
      BY <2>2, <2>3
  <1>. QED
    BY <1>1, <1>2 DEF LogInv

\* The gateway answers h: what it pays, it had not paid in this life, and the
\* request is not linked.
LEMMA LogRefunded ==
  ASSUME RefundsInv, LogInv, NEW h \in Handlers,
         RefundCharge(h) \/ GatewayFails(h)
  PROVE  /\ LogInv'
         /\ \A r \in Requests : paid'[r] > paid[r] => paymentId[r] = NoId
  <1>1. TypeOK /\ StageOf(h) /\ Logged /\ AnswerKnown(h)
    BY DEF RefundsInv, Stages, LogInv
  <1>2. /\ pc[h] = "refund" /\ UNCHANGED <<form, paymentId, at>>
        /\ \A g \in Handlers \ {h} :
             pc'[g] = pc[g] /\ at'[g] = at[g] /\ outer'[g] = outer[g]
        /\ pc'[h] # "refund"
    BY <1>1 DEF RefundCharge, GatewayFails, Goto, rows, TypeOK
  <1>3. at[h] \in Requests /\ Txn(at[h]) \in Txns /\ outer[h] = "none"
    BY <1>1, <1>2 DEF StageOf, Idle, InTransaction, TypeOK
  <1>4. CASE Refunded(h, at[h])
    <2>1. /\ answers' = [answers EXCEPT ![at[h]] = answers'[at[h]]]
          /\ answers'[at[h]] \in GatewayIds
          /\ answers[at[h]] # NoId => paid' = paid
          /\ \/ paid' = paid
             \/ paid' = [paid EXCEPT ![at[h]] = paid[at[h]] + 1]
          /\ restarts' = restarts
      BY <1>2, <1>3, <1>4, RefundedEffect
    <2>2. answers'[at[h]] # NoId
      BY <2>1, NoIdAssumption
    <2>3. \A q \in Requests : answers[q] # NoId => answers'[q] # NoId
      BY <1>1, <2>1, <2>2 DEF TypeOK
    <2>4. Logged'
      <3>1. SUFFICES ASSUME NEW q \in Requests
                     PROVE  paid'[q] <= restarts + (IF answers'[q] = NoId THEN 0 ELSE 1)
        BY <2>1 DEF Logged
      <3>2. /\ paid[q] <= restarts + (IF answers[q] = NoId THEN 0 ELSE 1)
            /\ paid[q] \in Nat /\ restarts \in Nat
        BY <1>1 DEF Logged, TypeOK
      <3>3. CASE paid'[q] = paid[q]
        BY <2>3, <3>2, <3>3
      <3>4. CASE paid'[q] # paid[q]
        <4>1. q = at[h] /\ answers[q] = NoId /\ paid'[q] = paid[q] + 1
          BY <1>1, <1>3, <2>1, <3>4 DEF TypeOK
        <4>. QED
          BY <2>2, <3>2, <4>1
      <3>. QED
        BY <3>3, <3>4
    <2>5. ASSUME NEW g \in Handlers
          PROVE  AnswerKnown(g)'
      <3>1. CASE g = h
        BY <1>2, <2>2, <3>1 DEF AnswerKnown
      <3>2. CASE g # h
        <4>1. AnswerKnown(g) /\ StageOf(g) /\ pc'[g] = pc[g] /\ outer'[g] = outer[g]
          BY <1>2, <3>2 DEF LogInv, RefundsInv, Stages
        <4>2. outer[g] = "open" \/ pc[g] = "refund" => at[g] \in Requests
          BY <4>1 DEF StageOf, InTransaction, Idle
        <4>. QED
          BY <1>2, <2>3, <4>1, <4>2 DEF AnswerKnown
      <3>. QED
        BY <3>1, <3>2
    <2>6. ASSUME NEW r \in Requests, paid'[r] > paid[r]
          PROVE  paymentId[r] = NoId
      <3>1. r = at[h] /\ answers[r] = NoId
        BY <1>1, <1>3, <2>1, <2>6 DEF TypeOK
      <3>. QED
        BY <1>1, <1>2, <3>1 DEF AnswerKnown
    <2>. QED
      BY <2>4, <2>5, <2>6 DEF LogInv
  <1>5. CASE GatewayFails(h) /\ UNCHANGED <<gateway, paid, gid>>
    <2>1. UNCHANGED <<paid, answers, restarts>> /\ outer' = outer
      BY <1>5 DEF gateway, GatewayFails
    <2>2. AnswerKnown(h)'
      BY <1>2, <1>3, <2>1 DEF AnswerKnown
    <2>4. LogInv'
      BY <1>2, <2>1, <2>2, LogStays
    <2>5. \A r \in Requests : ~ (paid'[r] > paid[r])
      BY <1>1, <2>1 DEF TypeOK
    <2>. QED
      BY <2>4, <2>5
  <1>. QED
    BY <1>4, <1>5 DEF RefundCharge, GatewayFails

LEMMA LogNext ==
  ASSUME RefundsInv, LogInv, [Next]_vars
  PROVE  /\ LogInv'
         /\ \A r \in Requests : paid'[r] > paid[r] => paymentId[r] = NoId
  <1>1. TypeOK /\ Stages
    BY DEF RefundsInv
  <1>2. CASE \E h \in Handlers : RefundCharge(h) \/ GatewayFails(h)
    BY <1>2, LogRefunded
  <1>3. ASSUME UNCHANGED paid
        PROVE  \A r \in Requests : ~ (paid'[r] > paid[r])
    BY <1>1, <1>3 DEF TypeOK
  <1>4. CASE UNCHANGED <<paid, answers, restarts, paymentId, pc, at, outer>>
    BY <1>3, <1>4 DEF LogInv, Logged, AnswerKnown
  <1>5. CASE Crash
    <2>1. /\ UNCHANGED paid /\ restarts' = restarts + 1
          /\ answers' = [r \in Requests |-> NoId]
          /\ \A h \in Handlers : pc'[h] = "idle" /\ outer'[h] = "none"
      BY <1>5 DEF Crash, money
    <2>2. ASSUME NEW r \in Requests
          PROVE  paid'[r] <= restarts' + (IF answers'[r] = NoId THEN 0 ELSE 1)
      BY <1>1, <2>1 DEF LogInv, Logged, TypeOK
    <2>3. Logged'
      BY <2>2 DEF Logged
    <2>. QED
      BY <1>3, <2>1, <2>3 DEF LogInv, AnswerKnown
  <1>6. ASSUME NEW h \in Handlers, NEW r \in Requests,
               ReadForReview(h, r) \/ ReadForProcess(h, r)
        PROVE  LogInv' /\ UNCHANGED paid
    <2>1. /\ UNCHANGED <<paid, answers, restarts, paymentId, outer>>
          /\ \A g \in Handlers \ {h} :
               pc'[g] = pc[g] /\ at'[g] = at[g] /\ outer'[g] = outer[g]
          /\ at'[h] = r /\ pc[h] \in Idle
          /\ pc'[h] = "refund" => paymentId[r] = NoId
      BY <1>1, <1>6
      DEF ReadForReview, ReadForProcess, Start, Goto, Dispatch, rows, money,
          gateway, TypeOK
    <2>2. outer[h] = "none"
      BY <1>1, <2>1 DEF Stages, StageOf, Idle, InTransaction
    <2>3. AnswerKnown(h)'
      BY <2>1, <2>2 DEF AnswerKnown
    <2>. QED
      BY <1>1, <2>1, <2>3, LogStays
  <1>7. ASSUME NEW h \in Handlers,
               \/ Review(h) \/ LookupKey(h) \/ InsertReversal(h) \/ Link(h)
               \/ LookupCredits(h) \/ MoveCredits(h) \/ MarkProcessed(h)
               \/ RecordError(h) \/ ExpiredFails(h) \/ OuterRollback(h)
               \/ InnerRollback(h) \/ Expire(h) \/ StatementFails(h)
        PROVE  LogInv' /\ UNCHANGED paid
    <2>1. /\ UNCHANGED <<paid, answers, restarts, paymentId>>
          /\ \A g \in Handlers \ {h} :
               pc'[g] = pc[g] /\ at'[g] = at[g] /\ outer'[g] = outer[g]
          /\ pc'[h] # "refund"
      BY <1>1, <1>7
      DEF Review, LookupKey, InsertReversal, Link, LookupCredits, MoveCredits,
          MarkProcessed, RecordError, ExpiredFails, OuterRollback, InnerRollback,
          Expire, StatementFails, Answer, Goto, EndOuter, Moved, NotMoved, rows,
          money, gateway, local, TypeOK
    <2>2. outer'[h] = "open" => outer[h] = "open" /\ at'[h] = at[h]
      <3>1. StageOf(h)
        BY <1>1 DEF Stages
      <3>. QED
        BY <1>1, <1>7, <3>1
        DEF Review, LookupKey, InsertReversal, Link, LookupCredits, MoveCredits,
            MarkProcessed, RecordError, ExpiredFails, OuterRollback,
            InnerRollback, Expire, StatementFails, Answer, EndOuter, rows, local,
            TypeOK, StageOf, InTransaction
    <2>3. AnswerKnown(h)'
      BY <2>1, <2>2 DEF LogInv, AnswerKnown
    <2>. QED
      BY <1>1, <2>1, <2>3, LogStays
  <1>8. ASSUME NEW h \in Handlers, CommitOuter(h)
        PROVE  LogInv' /\ UNCHANGED paid
    <2>1. /\ UNCHANGED <<paid, answers, restarts>> /\ outer[h] = "open"
          /\ paymentId' = [paymentId EXCEPT ![at[h]] = gid[h]]
          /\ \A g \in Handlers \ {h} :
               pc'[g] = pc[g] /\ at'[g] = at[g] /\ outer'[g] = outer[g]
          /\ pc'[h] = "mark" /\ outer'[h] = "none"
      BY <1>1, <1>8 DEF CommitOuter, EndOuter, Goto, gateway, TypeOK
    <2>2. at[h] \in Requests
      BY <1>1, <2>1 DEF Stages, StageOf, InTransaction, Idle
    <2>3. AnswerKnown(h)'
      BY <2>1 DEF AnswerKnown
    <2>. QED
      BY <1>1, <2>1, <2>2, <2>3, LogStays
  <1>9. CASE \E r \in Requests : CreateRefundRequest(r)
    BY <1>4, <1>9 DEF CreateRefundRequest, money, gateway, local
  <1>. QED
    BY <1>2, <1>3, <1>4, <1>5, <1>6, <1>7, <1>8, <1>9
    DEF Next, Step, vars

LEMMA LoggedSuffices ==
  ASSUME RefundsInv, LogInv
  PROVE  PaidOncePerLife
  <1>1. SUFFICES ASSUME NEW r \in Requests PROVE paid[r] <= 1 + restarts
    BY DEF PaidOncePerLife
  <1>2. paid[r] <= restarts + (IF answers[r] = NoId THEN 0 ELSE 1)
    BY DEF LogInv, Logged
  <1>. QED
    BY <1>2 DEF RefundsInv, TypeOK

\* A request is paid back at most once in each life of the process, however
\* many calls, retries and lost answers there are: a restart empties the
\* gateway's log, and nothing else makes it pay again.
THEOREM RefundsPaidOncePerLife == Spec => []PaidOncePerLife
  <1>1. Init => LogInv
    BY DEF Init, LogInv, Logged, AnswerKnown
  <1>2. RefundsInv /\ LogInv /\ [Next]_vars => LogInv'
    BY LogNext
  <1>3. RefundsInv /\ LogInv => PaidOncePerLife
    BY LoggedSuffices
  <1>. QED
    BY <1>1, <1>2, <1>3, RefundsInvariant, PTL DEF Spec

\* No restart, retry or call under way makes the gateway pay for a request
\* whose paymentRefundId has been committed.
THEOREM LinkedRefundsStayPaid == Spec => PaidUnlinked
  <1>1. Init => LogInv
    BY DEF Init, LogInv, Logged, AnswerKnown
  <1>2. RefundsInv /\ LogInv /\ [Next]_vars => LogInv'
    BY LogNext
  <1>3. RefundsInv /\ LogInv /\ [Next]_vars =>
          [\A r \in Requests : paid'[r] > paid[r] => paymentId[r] = NoId]_vars
    BY LogNext
  <1>. QED
    BY <1>1, <1>2, <1>3, RefundsInvariant, PTL DEF Spec, PaidUnlinked
-----------------------------------------------------------------------------
(* Without the expiry of outer transactions a deduction is made under the   *)
(* row lock of Link.                                                        *)

RowsHeld ==
  \A g, h \in Handlers :
    HoldsRow(g, at[h]) /\ HoldsRow(h, at[h]) => g = h

Undeducted ==
  \A h \in Handlers :
    pc[h] = "credit" /\ form[at[h]].type = "PAYMENT" => credited[at[h]] = 0

DeductInv ==
  /\ \A h \in Handlers : outer[h] # "expired"
  /\ RowsHeld /\ Undeducted /\ DeductedAtMostOnce

\* A step of h that moves no credits.
LEMMA QuietDeduct ==
  ASSUME DeductInv, NEW h \in Handlers, UNCHANGED <<form, credited>>,
         outer'[h] # "expired",
         \A g \in Handlers \ {h} :
           pc'[g] = pc[g] /\ at'[g] = at[g] /\ outer'[g] = outer[g],
         \/ ~ HoldsRow(h, at[h])'
         \/ at'[h] = at[h] /\ (HoldsRow(h, at[h]) \/ RowFree(at[h])),
         pc'[h] = "credit" => at'[h] = at[h] /\ credited[at[h]] = 0
  PROVE  DeductInv'
  <1>1. RowsHeld /\ Undeducted /\ DeductedAtMostOnce
    BY DEF DeductInv
  <1>2. \A r : \A g \in Handlers \ {h} : HoldsRow(g, r)' <=> HoldsRow(g, r)
    BY DEF HoldsRow
  <1>3. RowsHeld'
    BY <1>1, <1>2 DEF RowsHeld, HoldsRow, RowFree
  <1>4. Undeducted' /\ DeductedAtMostOnce'
    BY <1>1 DEF Undeducted, DeductedAtMostOnce
  <1>. QED
    BY <1>3, <1>4 DEF DeductInv

\* The deduction itself: no other call on the request is in its own.
LEMMA MoveDeduct ==
  ASSUME RefundsInv, DeductInv, NEW h \in Handlers, MoveCredits(h),
         credited' = [credited EXCEPT ![at[h]] = @ + 1], Goto(h, Moved(h))
  PROVE  DeductInv'
  <1>1. /\ TypeOK /\ Stages /\ StageOf(h)
        /\ RowsHeld /\ Undeducted /\ DeductedAtMostOnce
    BY DEF RefundsInv, DeductInv, Stages
  <1>2. /\ UNCHANGED <<form, at, outer>> /\ pc[h] = "credit"
        /\ pc'[h] \in {"mark", "commit"}
        /\ \A g \in Handlers \ {h} : pc'[g] = pc[g]
    BY <1>1 DEF MoveCredits, Moved, Goto, TypeOK, rows, local
  <1>3. at[h] \in Requests
    BY <1>1, <1>2 DEF StageOf, Idle
  <1>4. \A g \in Handlers : HoldsRow(g, at[h])' => HoldsRow(g, at[h])
    BY <1>2 DEF HoldsRow
  <1>5. RowsHeld'
    BY <1>1, <1>2 DEF RowsHeld, HoldsRow
  <1>6. ASSUME NEW g \in Handlers \ {h}, pc[g] = "credit",
               form[at[h]].type = "PAYMENT", at[g] = at[h]
        PROVE  FALSE
    <2>1. StageOf(g)
      BY <1>1 DEF Stages
    <2>2. outer[g] = "open" /\ outer[h] = "open"
      BY <1>1, <1>2, <1>6, <2>1 DEF StageOf, DeductInv, TypeOK
    <2>3. HoldsRow(g, at[h]) /\ HoldsRow(h, at[h])
      BY <1>2, <1>6, <2>2 DEF HoldsRow
    <2>. QED
      BY <1>1, <1>6, <2>3 DEF RowsHeld
  <1>7. Undeducted'
    <2>1. SUFFICES ASSUME NEW g \in Handlers \ {h}, pc[g] = "credit",
                          form[at[g]].type = "PAYMENT"
                   PROVE  credited'[at[g]] = 0
      BY <1>2 DEF Undeducted
    <2>2. at[g] \in Requests /\ at[g] # at[h]
      BY <1>1, <1>6, <2>1 DEF Stages, StageOf, Idle
    <2>. QED
      BY <1>1, <2>1, <2>2 DEF Undeducted, TypeOK
  <1>8. DeductedAtMostOnce'
    BY <1>1, <1>2, <1>3 DEF DeductedAtMostOnce, Undeducted, TypeOK
  <1>. QED
    BY <1>2, <1>5, <1>7, <1>8 DEF DeductInv

LEMMA DeductNext ==
  ASSUME ~ Expiry, RefundsInv, DeductInv, [Next]_vars
  PROVE  DeductInv'
  <1>1. TypeOK /\ Stages /\ \A h \in Handlers : outer[h] # "expired"
    BY DEF RefundsInv, DeductInv
  <1>2. CASE UNCHANGED vars
    BY <1>2
    DEF vars, DeductInv, RowsHeld, Undeducted, DeductedAtMostOnce, HoldsRow
  <1>3. CASE Crash
    BY <1>3
    DEF Crash, rows, money, DeductInv, RowsHeld, Undeducted,
        DeductedAtMostOnce, HoldsRow
  <1>4. ASSUME NEW r \in Requests, CreateRefundRequest(r)
        PROVE  DeductInv'
    BY <1>4
    DEF CreateRefundRequest, money, local, DeductInv, RowsHeld, Undeducted,
        DeductedAtMostOnce, HoldsRow
  <1>5. ASSUME NEW h \in Handlers, NEW r \in Requests,
               ReadForReview(h, r) \/ ReadForProcess(h, r)
        PROVE  DeductInv'
    <2>1. PICK l \in {"approve", "deny", "lookup", "mark", "record", "refund"} :
            Start(h, r, l)
      BY <1>5 DEF ReadForReview, ReadForProcess, Dispatch
    <2>2. StageOf(h)
      BY <1>1 DEF Stages
    <2>3. /\ UNCHANGED <<form, credited, outer>> /\ outer[h] = "none"
          /\ pc'[h] = l
          /\ \A g \in Handlers \ {h} : pc'[g] = pc[g] /\ at'[g] = at[g]
      BY <1>1, <2>1, <2>2
      DEF Start, Goto, rows, money, TypeOK, StageOf, Idle, InTransaction
    <2>. QED
      BY <1>1, <2>3, QuietDeduct DEF HoldsRow
  <1>6. ASSUME NEW h \in Handlers,
               \/ Review(h) \/ RefundCharge(h) \/ LookupKey(h)
               \/ InsertReversal(h) \/ CommitOuter(h) \/ MarkProcessed(h)
               \/ RecordError(h) \/ ExpiredFails(h) \/ GatewayFails(h)
               \/ OuterRollback(h) \/ StatementFails(h)
        PROVE  DeductInv'
    <2>1. UNCHANGED <<form, credited>>
      BY <1>6
      DEF Review, RefundCharge, LookupKey, InsertReversal, CommitOuter,
          MarkProcessed, RecordError, ExpiredFails, GatewayFails, OuterRollback,
          StatementFails, rows, money
    <2>2. PICK l \in {"ok", "failed", "ledger", "link", "insert", "record", "mark"} :
            Goto(h, l)
      BY <1>6
      DEF Review, RefundCharge, LookupKey, InsertReversal, CommitOuter,
          MarkProcessed, RecordError, ExpiredFails, GatewayFails, OuterRollback,
          StatementFails, Answer
    <2>3. outer' = outer \/ \E o \in {"open", "none"} : outer' = [outer EXCEPT ![h] = o]
      BY <1>6
      DEF Review, RefundCharge, LookupKey, InsertReversal, CommitOuter,
          MarkProcessed, RecordError, ExpiredFails, GatewayFails, OuterRollback,
          StatementFails, EndOuter, local
    <2>4. at' = at \/ at' = [at EXCEPT ![h] = NoRequest]
      BY <1>6
      DEF Review, RefundCharge, LookupKey, InsertReversal, CommitOuter,
          MarkProcessed, RecordError, ExpiredFails, GatewayFails, OuterRollback,
          StatementFails, Answer, local
    <2>5. /\ pc'[h] = l /\ outer'[h] # "expired"
          /\ \A g \in Handlers \ {h} :
               pc'[g] = pc[g] /\ at'[g] = at[g] /\ outer'[g] = outer[g]
      BY <1>1, <2>2, <2>3, <2>4 DEF Goto, TypeOK
    <2>. QED
      BY <2>1, <2>5, QuietDeduct DEF HoldsRow
  <1>7. ASSUME NEW h \in Handlers,
               Link(h) \/ LookupCredits(h) \/ InnerRollback(h)
        PROVE  DeductInv'
    <2>1. UNCHANGED <<form, credited, at, outer>>
      BY <1>7 DEF Link, LookupCredits, InnerRollback, rows, money, local
    <2>2. \A g \in Handlers \ {h} : pc'[g] = pc[g]
      BY <1>1, <1>7 DEF Link, LookupCredits, InnerRollback, Goto, TypeOK
    <2>3. CASE Link(h)
      BY <1>1, <2>1, <2>2, <2>3, QuietDeduct DEF Link, Goto, TypeOK
    <2>4. CASE LookupCredits(h) \/ InnerRollback(h)
      <3>1. HoldsRow(h, at[h])' => HoldsRow(h, at[h])
        BY <2>1, <2>4 DEF LookupCredits, InnerRollback, HoldsRow
      <3>2. at[h] \in Requests
        BY <1>1, <2>4 DEF LookupCredits, InnerRollback, Stages, StageOf, Idle
      <3>3. pc'[h] = "credit" => credited[at[h]] = 0
        <4>1. credited[at[h]] \in Nat
          BY <1>1, <3>2 DEF TypeOK
        <4>2. CASE InnerRollback(h)
          BY <1>1, <4>2 DEF InnerRollback, NotMoved, Goto, TypeOK
        <4>3. CASE LookupCredits(h)
          <5>1. CASE credited[at[h]] > 0
            BY <1>1, <4>3, <5>1 DEF LookupCredits, Moved, Goto, TypeOK
          <5>. QED
            BY <4>1, <5>1
        <4>. QED
          BY <2>4, <4>2, <4>3
      <3>. QED
        BY <1>1, <2>1, <2>2, <3>1, <3>3, QuietDeduct
    <2>. QED
      BY <1>7, <2>3, <2>4
  <1>8. ASSUME NEW h \in Handlers, MoveCredits(h)
        PROVE  DeductInv'
    <2>1. CASE credited' = credited
      <3>1. UNCHANGED <<form, at, outer>>
        BY <1>8 DEF MoveCredits, rows, local
      <3>2. /\ pc[h] = "credit" /\ pc'[h] # "credit"
            /\ \A g \in Handlers \ {h} : pc'[g] = pc[g]
        BY <1>1, <1>8 DEF MoveCredits, Moved, NotMoved, Goto, TypeOK
      <3>3. HoldsRow(h, at[h])' => HoldsRow(h, at[h])
        BY <3>1, <3>2 DEF HoldsRow
      <3>. QED
        BY <1>1, <2>1, <3>1, <3>2, <3>3, QuietDeduct
    <2>2. CASE /\ credited' = [credited EXCEPT ![at[h]] = @ + 1]
               /\ Goto(h, Moved(h))
      BY <1>8, <2>2, MoveDeduct
    <2>. QED
      BY <1>8, <2>1, <2>2 DEF MoveCredits
  <1>9. ASSUME NEW h \in Handlers, Expire(h)
        PROVE  FALSE
    BY <1>9 DEF Expire
  <1>. QED
    BY <1>2, <1>3, <1>4, <1>5, <1>6, <1>7, <1>8, <1>9 DEF Next, Step

\* processPaymentRefund: while outer transactions do not expire under their
\* calls, a PAYMENT request takes its credits back once, however many calls
\* overlap, fail or come back.
THEOREM RefundsDeductOnce ==
  ASSUME ~ Expiry
  PROVE  Spec => []DeductedAtMostOnce
  <1>1. Init => DeductInv
    BY DEF Init, DeductInv, RowsHeld, Undeducted, DeductedAtMostOnce, HoldsRow
  <1>2. RefundsInv /\ DeductInv /\ [Next]_vars => DeductInv'
    BY DeductNext
  <1>3. DeductInv => DeductedAtMostOnce
    BY DEF DeductInv
  <1>. QED
    BY <1>1, <1>2, <1>3, RefundsInvariant, PTL DEF Spec
-----------------------------------------------------------------------------
(* The admin's page adds nothing to the server but refusals and lost        *)
(* answers, so that what was shown of RefundsService holds behind it.       *)

\* A POST under way is about a request, and no handler works on it yet.
Waiting ==
  \A h \in Handlers : call[h] \in {"approve", "process"} =>
    row[h] \in Requests /\ pc[h] \in Idle

PageInv == RefundsInv /\ PageTypeOK /\ Waiting /\ WaitsForACall

\* The variables of PageTypeOK that are the page's own.
PageTypes ==
  /\ shown \in [Requests -> Statuses]
  /\ loading \in BOOLEAN
  /\ failed \in BOOLEAN
  /\ acting \in Requests \cup {NoRequest}
  /\ call \in [Calls -> {"none", "approve", "process", "answer", "get", "got"}]
  /\ row \in [Calls -> Requests \cup {NoRequest}]
  /\ seen \in [Calls -> [Requests -> Statuses]]
  /\ serial \in BOOLEAN

LEMMA PageTypesSuffice ==
  RefundsInv => (PageTypeOK <=> PageTypes)
  BY DEF RefundsInv, PageTypeOK, PageTypes

LEMMA PageInitInv == PageInit => PageInv
  <1>. SUFFICES ASSUME PageInit PROVE PageInv
    OBVIOUS
  <1>1. RefundsInv
    BY RefundsInit DEF PageInit
  <1>2. PageTypes
    BY DEF PageInit, PageTypes, Calls, NoList, Statuses
  <1>3. call[Mount] = "get" /\ Mount \in Calls
    BY DEF PageInit, Calls
  <1>4. WaitsForACall /\ Waiting
    BY <1>3, MountAssumption DEF PageInit, WaitsForACall, Waiting, Calls
  <1>. QED
    BY <1>1, <1>2, <1>4, PageTypesSuffice DEF PageInv
-----------------------------------------------------------------------------
\* A step of the page takes the server by one of its own steps, by a refusal,
\* or by a fault that it does not see.
LEMMA ServerStep ==
  ASSUME PageInv, [PageNext]_allVars
  PROVE  RefundsInv'
  <1>1. RefundsInv /\ TypeOK
    BY DEF PageInv, RefundsInv
  <1>2. CASE [Next]_vars
    BY <1>1, <1>2, RefundsNext
  <1>3. ASSUME NEW k \in Handlers, LoseAnswer(k)
        PROVE  RefundsInv'
    <2>1. UNCHANGED <<rows, money, gateway, pc, local>> /\ faults' \in 0 .. MaxFaults
      BY <1>1, <1>3, MaxFaultsAssumption DEF LoseAnswer, Fault, TypeOK
    <2>. QED
      BY <1>1, <2>1
      DEF rows, money, gateway, local, RefundsInv, TypeOK, Stages, StageOf,
          KeysHeld, GatewayPaid, PaidFor, Done, Reviewed, Txn, ReversedOnceWithId,
          ReversedIsPaid, NothingBeforeReview, ProcessedIsDone
  <1>4. ASSUME NEW k \in Calls, LoadFails(k)
        PROVE  RefundsInv'
    <2>1. UNCHANGED <<rows, money, gateway, pc, local>> /\ faults' \in 0 .. MaxFaults
      BY <1>1, <1>4, MaxFaultsAssumption DEF LoadFails, Fault, TypeOK
    <2>. QED
      BY <1>1, <2>1
      DEF rows, money, gateway, local, RefundsInv, TypeOK, Stages, StageOf,
          KeysHeld, GatewayPaid, PaidFor, Done, Reviewed, Txn, ReversedOnceWithId,
          ReversedIsPaid, NothingBeforeReview, ProcessedIsDone
  <1>5. ASSUME NEW h \in Handlers, Reach(h)
        PROVE  RefundsInv'
    <2>1. row[h] \in Requests /\ pc[h] \in Idle
      BY <1>5 DEF Reach, PageInv, Waiting
    <2>2. CASE \/ status[row[h]] = "PENDING" /\ Start(h, row[h], "approve")
               \/ ReadForProcess(h, row[h])
      BY <1>1, <2>1, <2>2, StartStep DEF ReadForReview
    <2>3. CASE /\ Answer(h, "failed")
               /\ UNCHANGED <<rows, money, gateway, outer, wrote, faults>>
      <3>1. StageOf(h)
        BY <1>1 DEF RefundsInv, Stages
      <3>2. outer[h] = "none" /\ ~ wrote[h]
        BY <2>1, <3>1 DEF StageOf, Idle, InTransaction
      <3>3. /\ pc' = [pc EXCEPT ![h] = "failed"]
            /\ at' = [at EXCEPT ![h] = NoRequest]
            /\ gid' = [gid EXCEPT ![h] = NoId]
            /\ UNCHANGED <<form, status, paymentId, error, reversed, credited,
                           paid, answers, charge, restarts, outer, wrote, faults>>
        BY <2>3 DEF Answer, Goto, rows, money, gateway
      <3>4. TypeOK'
        BY <1>1, <3>3 DEF TypeOK, Idle
      <3>5. /\ pc'[h] = "failed"
            /\ \A g \in Handlers \ {h} :
                 /\ pc'[g] = pc[g] /\ at'[g] = at[g] /\ gid'[g] = gid[g]
                 /\ outer'[g] = outer[g] /\ wrote'[g] = wrote[g]
        BY <1>1, <3>3 DEF TypeOK
      <3>. QED
        BY <1>1, <3>2, <3>3, <3>4, <3>5, EndStep DEF Idle, money, gateway
    <2>. QED
      BY <1>5, <2>2, <2>3 DEF Reach
  <1>. QED
    BY <1>2, <1>3, <1>4, <1>5
    DEF PageNext, PageStep, Serve, Click, Answered, Refused, ReadList, Loaded,
        Reopen, allVars, Next

\* Nothing but a POST sets an idle handler to work.
LEMMA IdleStays ==
  ASSUME RefundsInv, NEW h \in Handlers, pc[h] \in Idle,
         \/ \E r \in Requests : CreateRefundRequest(r)
         \/ \E g \in Handlers :
              \/ Step(g) \/ GatewayFails(g) \/ OuterRollback(g)
              \/ InnerRollback(g) \/ Expire(g) \/ StatementFails(g)
         \/ Crash
  PROVE  pc'[h] \in Idle
  <1>1. TypeOK /\ StageOf(h)
    BY DEF RefundsInv, Stages
  <1>2. outer[h] = "none"
    BY <1>1 DEF StageOf, Idle, InTransaction
  <1>3. ASSUME NEW g \in Handlers,
               \/ Step(g) \/ GatewayFails(g) \/ OuterRollback(g)
               \/ InnerRollback(g) \/ StatementFails(g)
        PROVE  g # h /\ \E l : pc' = [pc EXCEPT ![g] = l]
    <2>1. CASE OuterRollback(g)
      BY <1>2, <2>1 DEF OuterRollback, Goto
    <2>2. CASE Step(g)
      BY <2>2
      DEF Step, Review, RefundCharge, LookupKey, InsertReversal, Link,
          LookupCredits, MoveCredits, CommitOuter, MarkProcessed, RecordError,
          ExpiredFails, Answer, Goto, Idle
    <2>3. CASE GatewayFails(g) \/ InnerRollback(g) \/ StatementFails(g)
      BY <2>3 DEF GatewayFails, InnerRollback, StatementFails, Answer, Goto, Idle
    <2>. QED
      BY <1>3, <2>1, <2>2, <2>3
  <1>4. CASE Crash
    BY <1>4 DEF Crash, Idle
  <1>5. ASSUME UNCHANGED pc
        PROVE  pc'[h] \in Idle
    BY <1>5
  <1>6. ASSUME NEW g \in Handlers,
               \/ Step(g) \/ GatewayFails(g) \/ OuterRollback(g)
               \/ InnerRollback(g) \/ StatementFails(g)
        PROVE  pc'[h] \in Idle
    BY <1>1, <1>3, <1>6 DEF TypeOK
  <1>. QED
    BY <1>4, <1>5, <1>6 DEF CreateRefundRequest, Expire

\* A step of the server that the page does not take part in.
LEMMA BehindStep ==
  ASSUME PageInv, RefundsInv', UNCHANGED page,
         \A h \in Handlers : pc[h] \in Idle => pc'[h] \in Idle
  PROVE  PageInv'
  <1>1. PageTypes /\ Waiting /\ WaitsForACall
    BY PageTypesSuffice DEF PageInv
  <1>2. PageTypes' /\ Waiting' /\ WaitsForACall'
    BY <1>1 DEF page, PageTypes, Waiting, WaitsForACall
  <1>. QED
    BY <1>2, PageTypesSuffice DEF PageInv, RefundsInv, PageTypeOK, PageTypes

\* The end of a call: its row may be acted on again.
LEMMA EndOfCall ==
  ASSUME PageInv, RefundsInv', NEW k \in Calls, End(k), UNCHANGED pc,
         failed' \in BOOLEAN, serial' \in BOOLEAN,
         \/ loading' = FALSE
         \/ loading' = loading /\ call[k] \notin {"get", "got"},
         shown' \in [Requests -> Statuses]
  PROVE  PageInv'
  <1>1. PageTypes /\ Waiting /\ WaitsForACall
    BY PageTypesSuffice DEF PageInv
  <1>2. /\ call' = [call EXCEPT ![k] = "none"]
        /\ acting' = IF k = Mount THEN acting ELSE NoRequest
        /\ row' = [row EXCEPT ![k] = NoRequest]
        /\ seen' = [seen EXCEPT ![k] = NoList]
    BY DEF End, Await
  <1>3. PageTypes'
    BY <1>1, <1>2 DEF PageTypes, NoList, Statuses
  <1>4. /\ call'[k] = "none"
        /\ \A j \in Calls \ {k} : call'[j] = call[j] /\ row'[j] = row[j]
    BY <1>1, <1>2 DEF PageTypes
  <1>5. Waiting'
    BY <1>1, <1>4 DEF Waiting, Calls
  <1>6. WaitsForACall'
    <2>1. loading' => \E j \in Calls : call'[j] \in {"get", "got"}
      BY <1>1, <1>4 DEF WaitsForACall
    <2>2. acting' # NoRequest =>
            \E h \in Handlers : call'[h] # "none" /\ row'[h] = acting'
      BY <1>1, <1>2, <1>4, MountAssumption DEF WaitsForACall, Calls
    <2>. QED
      BY <2>1, <2>2 DEF WaitsForACall
  <1>. QED
    BY <1>3, <1>5, <1>6, PageTypesSuffice DEF PageInv, RefundsInv, PageTypeOK, PageTypes

\* A call goes on to its next await.
LEMMA CallGoesOn ==
  ASSUME PageInv, RefundsInv', NEW k \in Calls, NEW l \in {"answer", "get", "got"},
         call' = [call EXCEPT ![k] = l], UNCHANGED <<shown, acting, row, serial>>,
         seen' \in [Calls -> [Requests -> Statuses]], failed' \in BOOLEAN,
         \/ loading' = loading /\ call[k] \notin {"get", "got"}
         \/ loading' \in BOOLEAN /\ l \in {"get", "got"},
         k \notin Handlers \/ call[k] # "none",
         call[k] # "none",
         \A h \in Handlers \ {k} : pc'[h] = pc[h]
  PROVE  PageInv'
  <1>1. PageTypes /\ Waiting /\ WaitsForACall
    BY PageTypesSuffice DEF PageInv
  <1>2. PageTypes'
    BY <1>1 DEF PageTypes
  <1>3. call'[k] = l /\ \A j \in Calls \ {k} : call'[j] = call[j]
    BY <1>1 DEF PageTypes
  <1>4. Waiting'
    BY <1>1, <1>3 DEF Waiting, Calls
  <1>5. WaitsForACall'
    <2>1. loading' => \E j \in Calls : call'[j] \in {"get", "got"}
      BY <1>1, <1>3 DEF WaitsForACall
    <2>2. acting' # NoRequest =>
            \E h \in Handlers : call'[h] # "none" /\ row'[h] = acting'
      BY <1>1, <1>3 DEF WaitsForACall, Calls
    <2>. QED
      BY <2>1, <2>2 DEF WaitsForACall
  <1>. QED
    BY <1>2, <1>4, <1>5, PageTypesSuffice DEF PageInv, RefundsInv, PageTypeOK, PageTypes
-----------------------------------------------------------------------------
LEMMA PageNextInv ==
  ASSUME PageInv, [PageNext]_allVars
  PROVE  PageInv'
  <1>1. RefundsInv /\ PageTypes /\ Waiting /\ WaitsForACall /\ TypeOK
    BY PageTypesSuffice DEF PageInv, RefundsInv
  <1>2. RefundsInv'
    BY ServerStep
  <1>3. CASE UNCHANGED allVars
    BY <1>2, <1>3, BehindStep DEF allVars, vars
  <1>4. ASSUME \/ \E r \in Requests : CreateRefundRequest(r)
               \/ \E g \in Handlers :
                    \/ Step(g) \/ GatewayFails(g) \/ OuterRollback(g)
                    \/ InnerRollback(g) \/ Expire(g) \/ StatementFails(g)
               \/ Crash,
               UNCHANGED page
        PROVE  PageInv'
    BY <1>1, <1>2, <1>4, IdleStays, BehindStep
  <1>5. ASSUME NEW h \in Handlers, NEW r \in Requests, Click(h, r)
        PROVE  PageInv'
    <2>1. /\ acting' = r /\ row' = [row EXCEPT ![h] = r] /\ pc[h] \in Idle
          /\ call' = [call EXCEPT ![h] = call'[h]] /\ call[h] = "none"
          /\ call'[h] \in {"approve", "process"}
          /\ serial' = (serial /\ Quiet)
          /\ UNCHANGED <<pc, shown, loading, failed, seen>>
      BY <1>1, <1>5 DEF Click, Await, PageTypes, Calls, vars
    <2>2. serial' \in BOOLEAN
      BY <2>1 DEF Quiet
    <2>3. PageTypes'
      BY <1>1, <2>1, <2>2 DEF PageTypes, Calls
    <2>4. /\ row'[h] = r
          /\ \A j \in Calls \ {h} : call'[j] = call[j] /\ row'[j] = row[j]
      BY <1>1, <2>1 DEF PageTypes, Calls
    <2>5. Waiting'
      BY <1>1, <2>1, <2>4 DEF Waiting, Calls
    <2>6. WaitsForACall'
      BY <1>1, <2>1, <2>4 DEF WaitsForACall, Calls
    <2>. QED
      BY <1>2, <2>3, <2>5, <2>6, PageTypesSuffice
      DEF PageInv, RefundsInv, PageTypeOK, PageTypes
  <1>6. ASSUME NEW h \in Handlers, Reach(h)
        PROVE  PageInv'
    <2>1. /\ call[h] \in {"approve", "process"}
          /\ call' = [call EXCEPT ![h] = "answer"]
          /\ UNCHANGED <<shown, loading, failed, acting, row, seen, serial>>
          /\ \E l : pc' = [pc EXCEPT ![h] = l]
      BY <1>6 DEF Reach, Await, ReadForProcess, Start, Answer, Goto
    <2>2. \A g \in Handlers \ {h} : pc'[g] = pc[g]
      BY <1>1, <2>1 DEF TypeOK
    <2>3. seen' \in [Calls -> [Requests -> Statuses]] /\ failed' \in BOOLEAN
      BY <1>1, <2>1 DEF PageTypes
    <2>. QED
      BY <1>2, <2>1, <2>2, <2>3, CallGoesOn DEF Calls
  <1>7. ASSUME NEW h \in Handlers, Answered(h)
        PROVE  PageInv'
    <2>1. /\ call[h] = "answer" /\ call' = [call EXCEPT ![h] = "get"]
          /\ loading' = TRUE /\ failed' = FALSE
          /\ UNCHANGED <<pc, shown, acting, row, seen, serial>>
      BY <1>7 DEF Answered, Await, vars
    <2>2. seen' \in [Calls -> [Requests -> Statuses]]
      BY <1>1, <2>1 DEF PageTypes
    <2>. QED
      BY <1>2, <2>1, <2>2, CallGoesOn DEF Calls
  <1>8. ASSUME NEW k \in Calls, ReadList(k)
        PROVE  PageInv'
    <2>1. /\ call[k] = "get" /\ call' = [call EXCEPT ![k] = "got"]
          /\ seen' = [seen EXCEPT ![k] = status]
          /\ UNCHANGED <<pc, shown, loading, failed, acting, row, serial>>
      BY <1>8 DEF ReadList, Await, vars
    <2>2. /\ seen' \in [Calls -> [Requests -> Statuses]]
          /\ failed' \in BOOLEAN /\ loading' \in BOOLEAN
      BY <1>1, <2>1 DEF PageTypes, TypeOK
    <2>. QED
      BY <1>2, <2>1, <2>2, CallGoesOn
  <1>9. ASSUME NEW k \in Calls, Loaded(k)
        PROVE  PageInv'
    <2>1. /\ shown' = seen[k] /\ loading' = FALSE /\ End(k)
          /\ UNCHANGED <<pc, failed, serial>>
      BY <1>9 DEF Loaded, vars
    <2>2. /\ shown' \in [Requests -> Statuses]
          /\ failed' \in BOOLEAN /\ serial' \in BOOLEAN
      BY <1>1, <2>1 DEF PageTypes
    <2>. QED
      BY <1>2, <2>1, <2>2, EndOfCall
  <1>10. ASSUME NEW k \in Calls, LoadFails(k)
         PROVE  PageInv'
    <2>1. /\ failed' = TRUE /\ loading' = FALSE /\ End(k)
          /\ UNCHANGED <<pc, shown, serial>>
      BY <1>10 DEF LoadFails
    <2>2. shown' \in [Requests -> Statuses] /\ serial' \in BOOLEAN
      BY <1>1, <2>1 DEF PageTypes
    <2>. QED
      BY <1>2, <2>1, <2>2, EndOfCall
  <1>11. ASSUME NEW h \in Handlers, Refused(h) \/ LoseAnswer(h)
         PROVE  PageInv'
    <2>1. /\ call[h] \notin {"get", "got"} /\ failed' = TRUE /\ End(h)
          /\ serial' \in {serial, FALSE} /\ UNCHANGED <<pc, shown, loading>>
      BY <1>11 DEF Refused, LoseAnswer, vars
    <2>2. shown' \in [Requests -> Statuses] /\ serial' \in BOOLEAN
      BY <1>1, <2>1 DEF PageTypes
    <2>. QED
      BY <1>2, <2>1, <2>2, EndOfCall DEF Calls
  <1>12. CASE Reopen
    <2>1. /\ shown' = NoList /\ loading' = TRUE /\ failed' = FALSE
          /\ acting' = NoRequest /\ serial' = Quiet
          /\ call' = [k \in Calls |-> IF k = Mount THEN "get" ELSE "none"]
          /\ row' = [k \in Calls |-> NoRequest]
          /\ seen' = [k \in Calls |-> NoList]
      BY <1>12 DEF Reopen, Opened
    <2>2. PageTypes'
      BY <2>1 DEF PageTypes, Quiet, NoList, Statuses
    <2>3. Mount \in Calls /\ call'[Mount] = "get"
      BY <2>1 DEF Calls
    <2>4. Waiting' /\ WaitsForACall'
      BY <2>1, <2>3, MountAssumption DEF Waiting, WaitsForACall, Calls
    <2>. QED
      BY <1>2, <2>2, <2>4, PageTypesSuffice
      DEF PageInv, RefundsInv, PageTypeOK, PageTypes
  <1>. QED
    BY <1>3, <1>4, <1>5, <1>6, <1>7, <1>8, <1>9, <1>10, <1>11, <1>12
    DEF PageNext, PageStep, Serve

LEMMA PageInvariant == PageSpec => []PageInv
  <1>1. PageInit => PageInv
    BY PageInitInv
  <1>2. PageInv /\ [PageNext]_allVars => PageInv'
    BY PageNextInv
  <1>. QED
    BY <1>1, <1>2, PTL DEF PageSpec

\* Every variable of the page's model keeps its type.
THEOREM PageKeepsTypes == PageSpec => []PageTypeOK
  BY PageInvariant, PTL DEF PageInv

\* With any number of rows and of calls at a time, the page's spinner and its
\* disabled button stand for a call that is still under way.
THEOREM PageWaits == PageSpec => []WaitsForACall
  BY PageInvariant, PTL DEF PageInv

\* What an admin can do on the page leaves RefundsService's promises standing.
THEOREM PageKeepsPromises ==
  PageSpec => [](ReversedOnceWithId /\ ReversedIsPaid /\ NothingBeforeReview
                   /\ ProcessedIsDone)
  BY PageInvariant, PTL DEF PageInv, RefundsInv

\* Nor does a click, a second page or a lost answer change what a request may
\* be paid: once in each life of the process, and never after its link.
THEOREM PagePaysOnce == PageSpec => []PaidOncePerLife /\ PaidUnlinked
  <1>1. PageInit => LogInv
    BY DEF PageInit, Init, LogInv, Logged, AnswerKnown
  <1>2. ASSUME PageInv, LogInv, [PageNext]_allVars
        PROVE  /\ LogInv'
               /\ \A r \in Requests : paid'[r] > paid[r] => paymentId[r] = NoId
    <2>1. RefundsInv /\ TypeOK /\ Stages
      BY <1>2 DEF PageInv, RefundsInv
    <2>2. CASE [Next]_vars
      BY <1>2, <2>1, <2>2, LogNext
    <2>3. ASSUME UNCHANGED <<paid, answers, restarts, paymentId, pc, at, outer>>
          PROVE  /\ LogInv'
                 /\ \A r \in Requests : ~ (paid'[r] > paid[r])
      BY <1>2, <2>1, <2>3 DEF LogInv, Logged, AnswerKnown, TypeOK
    <2>4. ASSUME NEW h \in Handlers, Reach(h)
          PROVE  /\ LogInv'
                 /\ \A r \in Requests : paid'[r] > paid[r] => paymentId[r] = NoId
      <3>1. CASE \/ status[row[h]] = "PENDING" /\ Start(h, row[h], "approve")
                 \/ ReadForProcess(h, row[h])
        <4>1. row[h] \in Requests
          BY <1>2, <2>4 DEF PageInv, Waiting, Reach
        <4>. QED
          BY <1>2, <2>1, <2>4, <3>1, <4>1, LogNext DEF Reach, Next, ReadForReview
      <3>2. CASE /\ Answer(h, "failed")
                 /\ UNCHANGED <<rows, money, gateway, outer, wrote, faults>>
        <4>1. /\ pc'[h] = "failed"
              /\ UNCHANGED <<paid, answers, restarts, paymentId, outer>>
              /\ \A g \in Handlers \ {h} : pc'[g] = pc[g] /\ at'[g] = at[g]
          BY <2>1, <3>2 DEF Answer, Goto, rows, money, gateway, TypeOK
        <4>2. outer[h] = "none"
          <5>1. pc[h] \in Idle
            BY <1>2, <2>4 DEF PageInv, Waiting, Reach
          <5>. QED
            BY <2>1, <5>1 DEF Stages, StageOf, Idle, InTransaction
        <4>3. AnswerKnown(h)'
          BY <4>1, <4>2 DEF AnswerKnown
        <4>4. LogInv'
          BY <1>2, <2>1, <4>1, <4>3, LogStays
        <4>. QED
          BY <2>1, <4>1, <4>4 DEF TypeOK
      <3>. QED
        BY <2>4, <3>1, <3>2 DEF Reach
    <2>5. \/ [Next]_vars
          \/ UNCHANGED <<paid, answers, restarts, paymentId, pc, at, outer>>
          \/ \E h \in Handlers : Reach(h)
      BY <1>2
      DEF PageNext, PageStep, Serve, Click, Answered, Refused, ReadList, Loaded,
          LoadFails, LoseAnswer, Reopen, allVars, vars, Next, rows, money,
          gateway, local
    <2>. QED
      BY <2>2, <2>3, <2>4, <2>5
  <1>3. PageInv /\ LogInv => PaidOncePerLife
    BY LoggedSuffices DEF PageInv
  <1>4. PageInv /\ LogInv /\ [PageNext]_allVars => LogInv'
    BY <1>2
  <1>5. PageInv /\ LogInv /\ [PageNext]_allVars =>
          [\A r \in Requests : paid'[r] > paid[r] => paymentId[r] = NoId]_vars
    BY <1>2
  <1>. QED
    BY <1>1, <1>3, <1>4, <1>5, PageInvariant, PTL DEF PageSpec, PaidUnlinked

\* Nor are credits taken back twice for a row, if no transaction expires.
THEOREM PageDeductsOnce ==
  ASSUME ~ Expiry
  PROVE  PageSpec => []DeductedAtMostOnce
  <1>1. PageInit => DeductInv
    BY DEF PageInit, Init, DeductInv, RowsHeld, Undeducted, DeductedAtMostOnce,
           HoldsRow
  <1>2. PageInv /\ DeductInv /\ [PageNext]_allVars => DeductInv'
    <2>1. SUFFICES ASSUME PageInv, DeductInv, [PageNext]_allVars PROVE DeductInv'
      OBVIOUS
    <2>2. CASE [Next]_vars
      BY <2>1, <2>2, DeductNext DEF PageInv
    <2>3. CASE UNCHANGED <<form, credited, pc, at, outer>>
      BY <2>1, <2>3
      DEF DeductInv, RowsHeld, Undeducted, DeductedAtMostOnce, HoldsRow
    <2>4. ASSUME NEW h \in Handlers, Reach(h)
          PROVE  DeductInv'
      <3>1. CASE \/ status[row[h]] = "PENDING" /\ Start(h, row[h], "approve")
                 \/ ReadForProcess(h, row[h])
        <4>1. row[h] \in Requests
          BY <2>1, <2>4 DEF PageInv, Waiting, Reach
        <4>. QED
          BY <2>1, <2>4, <3>1, <4>1, DeductNext
          DEF Reach, Next, ReadForReview, PageInv
      <3>2. CASE /\ Answer(h, "failed")
                 /\ UNCHANGED <<rows, money, gateway, outer, wrote, faults>>
        <4>1. /\ pc'[h] = "failed"
              /\ UNCHANGED <<form, credited, outer>>
              /\ \A g \in Handlers \ {h} : pc'[g] = pc[g] /\ at'[g] = at[g]
          BY <2>1, <3>2
          DEF Answer, Goto, rows, money, PageInv, RefundsInv, TypeOK
        <4>. QED
          BY <2>1, <4>1, QuietDeduct DEF HoldsRow, DeductInv
      <3>. QED
        BY <2>4, <3>1, <3>2 DEF Reach
    <2>. QED
      BY <2>1, <2>2, <2>3, <2>4
      DEF PageNext, PageStep, Serve, Click, Answered, Refused, ReadList, Loaded,
          LoadFails, LoseAnswer, Reopen, allVars, vars, Next, rows, money, local
  <1>3. DeductInv => DeductedAtMostOnce
    BY DEF DeductInv
  <1>. QED
    BY <1>1, <1>2, <1>3, PageInvariant, PTL DEF PageSpec
-----------------------------------------------------------------------------
(* While calls have come one at a time, a list that is about to be shown is *)
(* that of the server, and only a call that waits for its answer changes a  *)
(* status.                                                                  *)

UpToDate(list) == \A r \in Requests : list[r] \in {"none", status[r]}

OneCall ==
  \A j, k \in Calls : call[j] # "none" /\ call[k] # "none" => j = k

SerialInv ==
  serial =>
    /\ OneCall
    /\ \A h \in Handlers : pc[h] \notin Idle => call[h] = "answer"
    /\ \A k \in Calls : call[k] = "got" => UpToDate(seen[k])
    /\ ~ failed /\ Quiet => UpToDate(shown)

\* A step of the server behind the page: only a handler at work writes.
LEMMA SerialBehind ==
  ASSUME PageInv, SerialInv, UNCHANGED page,
         \A h \in Handlers : pc[h] \in Idle => pc'[h] \in Idle,
         \/ UNCHANGED status
         \/ \E r \in Requests : CreateRefundRequest(r)
         \/ \E h \in Handlers : pc[h] \notin Idle
  PROVE  SerialInv'
  <1>1. SUFFICES ASSUME serial PROVE SerialInv'
    BY DEF SerialInv, page
  <1>2. /\ OneCall
        /\ \A h \in Handlers : pc[h] \notin Idle => call[h] = "answer"
        /\ \A k \in Calls : call[k] = "got" => UpToDate(seen[k])
        /\ ~ failed /\ Quiet => UpToDate(shown)
    BY <1>1 DEF SerialInv
  <1>3. UNCHANGED <<shown, failed, call, seen, serial>>
    BY DEF page
  <1>4. OneCall' /\ \A h \in Handlers : pc'[h] \notin Idle => call'[h] = "answer"
    BY <1>2, <1>3 DEF OneCall
  <1>5. Quiet' => Quiet
    BY <1>2, <1>3 DEF Quiet, Calls
  <1>6. ASSUME NEW list \in [Requests -> Statuses], UpToDate(list),
               \A h \in Handlers : pc[h] \in Idle
        PROVE  \A r \in Requests : list[r] \in {"none", status'[r]}
    BY <1>6 DEF UpToDate, CreateRefundRequest, PageInv, RefundsInv, TypeOK
  <1>7. PageTypes
    BY PageTypesSuffice DEF PageInv
  <1>8. \A k \in Calls : call'[k] = "got" => UpToDate(seen[k])'
    <2>1. SUFFICES ASSUME NEW k \in Calls, call[k] = "got"
                   PROVE  \A r \in Requests : seen[k][r] \in {"none", status'[r]}
      BY <1>3 DEF UpToDate
    <2>2. \A h \in Handlers : pc[h] \in Idle
      BY <1>2, <2>1 DEF OneCall, Calls
    <2>. QED
      BY <1>2, <1>6, <1>7, <2>1, <2>2 DEF PageTypes
  <1>9. ~ failed' /\ Quiet' => UpToDate(shown)'
    <2>1. SUFFICES ASSUME ~ failed, Quiet
                   PROVE  \A r \in Requests : shown[r] \in {"none", status'[r]}
      BY <1>3, <1>5 DEF UpToDate
    <2>2. \A h \in Handlers : pc[h] \in Idle
      BY <2>1, MountAssumption DEF Quiet, Calls
    <2>. QED
      BY <1>2, <1>6, <1>7, <2>1, <2>2 DEF PageTypes
  <1>. QED
    BY <1>4, <1>8, <1>9 DEF SerialInv

\* A call of the page that is over: an error is shown, or its list.
LEMMA SerialEnd ==
  ASSUME PageInv, SerialInv, NEW k \in Calls, End(k), UNCHANGED <<status, pc>>,
         serial' => serial, serial' /\ k \in Handlers => pc[k] \in Idle,
         failed' \/ (shown' = seen[k] /\ call[k] = "got")
  PROVE  SerialInv'
  <1>1. SUFFICES ASSUME serial, serial' PROVE SerialInv'
    BY DEF SerialInv
  <1>2. /\ OneCall
        /\ \A h \in Handlers : pc[h] \notin Idle => call[h] = "answer"
        /\ \A j \in Calls : call[j] = "got" => UpToDate(seen[j])
    BY <1>1 DEF SerialInv
  <1>3. /\ call'[k] = "none"
        /\ \A j \in Calls \ {k} : call'[j] = call[j] /\ seen'[j] = seen[j]
    BY DEF End, Await, PageInv, PageTypeOK
  <1>4. OneCall'
    BY <1>2, <1>3 DEF OneCall
  <1>5. \A h \in Handlers : pc'[h] \notin Idle => call'[h] = "answer"
    BY <1>1, <1>2, <1>3 DEF Calls
  <1>6. \A j \in Calls : call'[j] = "got" => UpToDate(seen[j])'
    BY <1>2, <1>3 DEF UpToDate
  <1>7. ~ failed' => UpToDate(shown)'
    BY <1>2 DEF UpToDate
  <1>. QED
    BY <1>4, <1>5, <1>6, <1>7 DEF SerialInv

\* A call of the page that goes on, with the list that it reads if it does.
LEMMA SerialGoesOn ==
  ASSUME PageInv, SerialInv, NEW k \in Calls, NEW l \in {"answer", "get", "got"},
         call[k] # "none", call' = [call EXCEPT ![k] = l],
         serial' = serial, UNCHANGED status,
         \A h \in Handlers \ {k} : pc'[h] = pc[h],
         k \in Handlers => pc'[k] \in Idle \/ l = "answer",
         \/ l # "got" /\ UNCHANGED seen
         \/ l = "got" /\ seen' = [seen EXCEPT ![k] = status]
  PROVE  SerialInv'
  <1>1. SUFFICES ASSUME serial, serial' PROVE SerialInv'
    BY DEF SerialInv
  <1>2. /\ OneCall
        /\ \A h \in Handlers : pc[h] \notin Idle => call[h] = "answer"
        /\ \A j \in Calls : call[j] = "got" => UpToDate(seen[j])
    BY <1>1 DEF SerialInv
  <1>3. /\ call'[k] = l
        /\ \A j \in Calls \ {k} : call'[j] = call[j] /\ seen'[j] = seen[j]
        /\ l = "got" => seen'[k] = status
    BY DEF PageInv, PageTypeOK
  <1>4. OneCall'
    BY <1>2, <1>3 DEF OneCall
  <1>5. \A h \in Handlers : pc'[h] \notin Idle => call'[h] = "answer"
    BY <1>2, <1>3 DEF Calls
  <1>6. \A j \in Calls : call'[j] = "got" => UpToDate(seen[j])'
    <2>1. ASSUME NEW j \in Calls \ {k}, call'[j] = "got"
          PROVE  UpToDate(seen[j])'
      BY <1>2, <1>3, <2>1 DEF UpToDate
    <2>2. l = "got" => UpToDate(seen[k])'
      BY <1>3 DEF UpToDate
    <2>. QED
      BY <1>3, <2>1, <2>2
  <1>7. ~ Quiet'
    BY <1>3 DEF Quiet
  <1>. QED
    BY <1>4, <1>5, <1>6, <1>7 DEF SerialInv

LEMMA SerialNext ==
  ASSUME PageInv, SerialInv, [PageNext]_allVars
  PROVE  SerialInv'
  <1>1. RefundsInv /\ TypeOK /\ PageTypes
    BY PageTypesSuffice DEF PageInv, RefundsInv
  <1>2. CASE UNCHANGED allVars
    <2>1. UNCHANGED <<status, pc>> /\ UNCHANGED page
      BY <1>2 DEF allVars, vars, rows
    <2>. QED
      BY <2>1, SerialBehind
  <1>3. ASSUME NEW r \in Requests, CreateRefundRequest(r), UNCHANGED page
        PROVE  SerialInv'
    <2>1. UNCHANGED pc
      BY <1>3 DEF CreateRefundRequest
    <2>. QED
      BY <1>3, <2>1, SerialBehind
  <1>4. ASSUME NEW h \in Handlers, UNCHANGED page,
               \/ Step(h) \/ GatewayFails(h) \/ OuterRollback(h)
               \/ InnerRollback(h) \/ Expire(h) \/ StatementFails(h)
        PROVE  SerialInv'
    <2>1. \A g \in Handlers : pc[g] \in Idle => pc'[g] \in Idle
      BY <1>1, <1>4, IdleStays
    <2>2. UNCHANGED status \/ pc[h] \notin Idle
      BY <1>4
      DEF Step, Review, RefundCharge, LookupKey, InsertReversal, Link,
          LookupCredits, MoveCredits, CommitOuter, MarkProcessed, RecordError,
          ExpiredFails, GatewayFails, OuterRollback, InnerRollback, Expire,
          StatementFails, rows, Idle
    <2>. QED
      BY <1>4, <2>1, <2>2, SerialBehind
  <1>5. CASE Crash /\ UNCHANGED page
    <2>1. \A g \in Handlers : pc'[g] \in Idle
      BY <1>5 DEF Crash, Idle
    <2>. QED
      BY <1>5, <2>1, SerialBehind DEF Crash, rows
  <1>6. ASSUME NEW h \in Handlers, NEW r \in Requests, Click(h, r)
        PROVE  SerialInv'
    <2>1. SUFFICES ASSUME serial, Quiet PROVE SerialInv'
      BY <1>6 DEF SerialInv, Click
    <2>2. /\ call'[h] \in {"approve", "process"}
          /\ \A k \in Calls \ {h} : call'[k] = "none"
          /\ \A g \in Handlers : pc'[g] \in Idle
      BY <1>1, <1>6, <2>1, MountAssumption
      DEF Click, Await, vars, Quiet, Calls, PageTypes
    <2>3. OneCall' /\ ~ Quiet'
      BY <2>2 DEF OneCall, Quiet, Calls
    <2>4. \A k \in Calls : call'[k] # "got"
      BY <2>2
    <2>. QED
      BY <2>2, <2>3, <2>4 DEF SerialInv
  <1>7. ASSUME NEW h \in Handlers, Reach(h)
        PROVE  SerialInv'
    <2>1. call[h] \in {"approve", "process"} /\ h \in Calls
      BY <1>7 DEF Reach, Calls
    <2>2. /\ UNCHANGED <<status, seen, serial>>
          /\ call' = [call EXCEPT ![h] = "answer"]
      BY <1>7 DEF Reach, ReadForProcess, Start, rows, Await
    <2>3. \A g \in Handlers \ {h} : pc'[g] = pc[g]
      BY <1>1, <1>7 DEF Reach, ReadForProcess, Start, Answer, Goto, TypeOK
    <2>. QED
      BY <2>1, <2>2, <2>3, SerialGoesOn
  <1>8. ASSUME NEW h \in Handlers, Answered(h)
        PROVE  SerialInv'
    <2>1. /\ call[h] = "answer" /\ pc[h] \in Idle /\ h \in Calls
          /\ UNCHANGED <<status, pc, seen, serial>>
          /\ call' = [call EXCEPT ![h] = "get"]
      BY <1>8 DEF Answered, Await, vars, rows, Idle, Calls
    <2>. QED
      BY <2>1, SerialGoesOn
  <1>9. ASSUME NEW h \in Handlers, Refused(h) \/ LoseAnswer(h)
        PROVE  SerialInv'
    <2>1. /\ End(h) /\ failed' /\ UNCHANGED <<status, pc>> /\ h \in Calls
          /\ serial' => serial /\ pc[h] \in Idle
      BY <1>9 DEF Refused, LoseAnswer, vars, rows, Idle, Calls
    <2>. QED
      BY <2>1, SerialEnd
  <1>10. ASSUME NEW k \in Calls, ReadList(k)
         PROVE  SerialInv'
    <2>1. /\ call[k] = "get" /\ call' = [call EXCEPT ![k] = "got"]
          /\ UNCHANGED <<status, pc, serial>>
          /\ seen' = [seen EXCEPT ![k] = status]
      BY <1>10 DEF ReadList, Await, vars, rows
    <2>2. SUFFICES ASSUME serial PROVE SerialInv'
      BY <2>1 DEF SerialInv
    <2>3. k \in Handlers => pc'[k] \in Idle
      BY <2>1, <2>2 DEF SerialInv
    <2>. QED
      BY <2>1, <2>3, SerialGoesOn
  <1>11. ASSUME NEW k \in Calls, Loaded(k) \/ LoadFails(k)
         PROVE  SerialInv'
    <2>1. /\ End(k) /\ UNCHANGED <<status, pc, serial>>
          /\ call[k] \in {"get", "got"}
          /\ failed' \/ (shown' = seen[k] /\ call[k] = "got")
      BY <1>11 DEF Loaded, LoadFails, vars, rows
    <2>2. SUFFICES ASSUME serial PROVE SerialInv'
      BY <2>1 DEF SerialInv
    <2>3. k \in Handlers => pc[k] \in Idle
      BY <2>1, <2>2 DEF SerialInv
    <2>. QED
      BY <2>1, <2>3, SerialEnd
  <1>12. CASE Reopen
    <2>1. SUFFICES ASSUME Quiet PROVE SerialInv'
      BY <1>12 DEF SerialInv, Reopen
    <2>2. /\ call' = [k \in Calls |-> IF k = Mount THEN "get" ELSE "none"]
          /\ \A h \in Handlers : pc'[h] \in Idle
      BY <1>12, <2>1, MountAssumption DEF Reopen, Opened, Quiet, Calls, vars
    <2>3. OneCall' /\ ~ Quiet' /\ \A k \in Calls : call'[k] # "got"
      BY <2>2 DEF OneCall, Quiet, Calls
    <2>. QED
      BY <2>2, <2>3 DEF SerialInv
  <1>. QED
    BY <1>2, <1>3, <1>4, <1>5, <1>6, <1>7, <1>8, <1>9, <1>10, <1>11, <1>12
    DEF PageNext, PageStep, Serve

\* The list of an admin who makes one call at a time and sees no error is the
\* server's, for any number of rows: a write is followed by a load, and
\* nothing else writes.
THEOREM SerialPagesAreTrue == PageSpec => []SerialPageIsTrue
  <1>1. PageInit => SerialInv
    BY MountAssumption
    DEF PageInit, Init, SerialInv, OneCall, Quiet, Calls, UpToDate, NoList, Idle
  <1>2. PageInv /\ SerialInv /\ [PageNext]_allVars => SerialInv'
    BY SerialNext
  <1>3. SerialInv => SerialPageIsTrue
    BY DEF SerialInv, SerialPageIsTrue, UpToDate
  <1>. QED
    BY <1>1, <1>2, <1>3, PageInvariant, PTL DEF PageSpec
=============================================================================
