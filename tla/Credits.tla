------------------------------ MODULE Credits ------------------------------
(***************************************************************************)
(* CreditsService (apps/api/src/billing/credits.service.ts): a balance per  *)
(* user with a log of movements, under concurrent calls.                    *)
(*                                                                          *)
(* Every call runs one database transaction at Read Committed:              *)
(*   1. validate the amount, then look the idempotency key up among the     *)
(*      committed log rows (no unique constraint protects the key);         *)
(*   2. take the row lock of the credits row: addCredits and refundCredits  *)
(*      by the upsert that increments it, deductCredits by SELECT ... FOR   *)
(*      UPDATE, which also reads the balance the check is made on;          *)
(*   3. write the balance and the log row, and commit.                      *)
(* What a transaction wrote is visible to nobody before it commits, so the  *)
(* writes and the commit are one action; the lock is held in between.  A    *)
(* transaction may be rolled back at any step (an error, Prisma's timeout,  *)
(* a crash of the process), or commit without its caller learning of it;    *)
(* callers that gave a key may call again.                                  *)
(***************************************************************************)
EXTENDS Integers, Functions

CONSTANTS
  Calls,       \* invocations of the service, a retry counting as the same one
  Users,
  Keys,        \* idempotency keys
  NoKey,       \* the key of a deduction whose caller gave none
  NoRequest,   \* the request of a call that has not been made
  Amounts,     \* amounts that callers ask for, not positive ones included
  MaxInt,      \* the largest value of the INTEGER column
  Opening,     \* each user's balance when the system starts
  Apart        \* keys that callers never give to two calls that overlap

ASSUME AmountsAssumption == Amounts \subseteq Int
ASSUME MaxIntAssumption == MaxInt \in Nat
ASSUME OpeningAssumption == Opening \in [Users -> 0 .. MaxInt]
ASSUME NoKeyAssumption == NoKey \notin Keys
ASSUME ApartAssumption == Apart \subseteq Keys

VARIABLES
  balance,   \* committed credits.balance; 0 where there is no row
  rows,      \* the users that have a committed credits row
  log,       \* committed credit_transactions rows, each named by its call
  req,       \* what each call asks for
  stage      \* how far each call has come

vars == <<balance, rows, log, req, stage>>

Request ==
  [op : {"grant"}, user : Users, amount : Amounts, key : Keys] \cup
  [op : {"deduct"}, user : Users, amount : Amounts, key : Keys \cup {NoKey}]

\* "missed": the lookup found nothing; "locked": holds the row lock;
\* "hit" and "applied" were answered with success, "rejected" with a 400;
\* "failed" were rolled back, or committed with the answer lost.
Stage == {"new", "missed", "locked", "applied", "hit", "rejected", "failed"}

InFlight(c) == stage[c] \in {"missed", "locked"}

\* Bug: FOR UPDATE dropped from the SELECT, and grants read then write.
UnlockedAlways(u) == TRUE

\* The credits row of u can be locked now.
Unlocked(u) == ~ \E c \in Calls : stage[c] = "locked" /\ req[c].user = u

\* Bug: the lookup also sees the rows of transactions in flight.
RecordedDirty(k) ==
  k # NoKey /\ \E c \in Calls : (c \in log \/ InFlight(c)) /\ req[c].key = k

\* findFirst on metadata.idempotencyKey, over all users and row types.
Recorded(k) == k # NoKey /\ \E c \in log : req[c].key = k

Delta(r) == IF r.op = "grant" THEN r.amount ELSE -r.amount

Init ==
  /\ balance = Opening
  /\ rows = {u \in Users : Opening[u] > 0}
  /\ log = {}
  /\ req = [c \in Calls |-> NoRequest]
  /\ stage = [c \in Calls |-> "new"]
-----------------------------------------------------------------------------
\* A call may be made once, and made again when it failed and has a key.
MayCall(c, r) ==
  /\ \/ stage[c] = "new"
     \/ stage[c] \in {"failed", "rejected"} /\ r = req[c] /\ r.key # NoKey
  /\ r.key \in Apart => ~ \E d \in Calls : InFlight(d) /\ req[d].key = r.key

\* Bug: the idempotency lookup is left out.
LookedWithoutKey(r) == IF r.amount <= 0 THEN "rejected" ELSE "missed"

\* What the caller, or the rest of the transaction, sees after validation
\* and lookup.
Looked(r) ==
  IF r.amount <= 0 THEN "rejected"
  ELSE IF Recorded(r.key) THEN "hit" ELSE "missed"

\* Bug: the row is written from a request that was never filled in.
CallWithoutRequest(c, r) ==
  /\ MayCall(c, r)
  /\ stage' = [stage EXCEPT ![c] = Looked(r)]
  /\ UNCHANGED <<balance, rows, log, req>>

Call(c, r) ==
  /\ MayCall(c, r)
  /\ req' = [req EXCEPT ![c] = r]
  /\ stage' = [stage EXCEPT ![c] = Looked(r)]
  /\ UNCHANGED <<balance, rows, log>>

AddCredits(c, u, a, k) ==
  Call(c, [op |-> "grant", user |-> u, amount |-> a, key |-> k])

\* The same transaction with the row type REFUND.
RefundCredits(c, u, a, k) == AddCredits(c, u, a, k)

DeductCredits(c, u, a, k) ==
  Call(c, [op |-> "deduct", user |-> u, amount |-> a, key |-> k])

\* INSERT ... ON CONFLICT DO UPDATE balance + amount: waits for the row lock;
\* the statement fails when the INTEGER column overflows.
UpsertIncrement(c) ==
  /\ stage[c] = "missed"
  /\ req[c].op = "grant"
  /\ Unlocked(req[c].user)
  /\ stage' = [stage EXCEPT ![c] =
                 IF balance[req[c].user] + req[c].amount <= MaxInt
                 THEN "locked" ELSE "failed"]
  /\ UNCHANGED <<balance, rows, log, req>>

\* Bug: a deduction waits until there are enough credits.
SelectWaitingForFunds(c) ==
  /\ stage[c] = "missed"
  /\ req[c].op = "deduct"
  /\ balance[req[c].user] >= req[c].amount
  /\ Unlocked(req[c].user)
  /\ stage' = [stage EXCEPT ![c] = "locked"]
  /\ UNCHANGED <<balance, rows, log, req>>

\* SELECT ... FOR UPDATE, then the check: without a committed row there is
\* nothing to wait for and nothing to deduct from.
SelectForUpdate(c) ==
  /\ stage[c] = "missed"
  /\ req[c].op = "deduct"
  /\ req[c].user \in rows => Unlocked(req[c].user)
  /\ stage' = [stage EXCEPT ![c] =
                 IF req[c].user \in rows /\ balance[req[c].user] >= req[c].amount
                 THEN "locked" ELSE "rejected"]
  /\ UNCHANGED <<balance, rows, log, req>>

\* Bug: a deduction without a key leaves no log row.
CommitUnlogged(c) ==
  /\ stage[c] = "locked"
  /\ balance' = [balance EXCEPT ![req[c].user] = @ + Delta(req[c])]
  /\ rows' = rows \cup {req[c].user}
  /\ log' = IF req[c].key = NoKey THEN log ELSE log \cup {c}
  /\ stage' = [stage EXCEPT ![c] = "applied"]
  /\ UNCHANGED req

\* The balance, the log row and COMMIT; the caller may never hear of it.
Commit(c) ==
  /\ stage[c] = "locked"
  /\ balance' = [balance EXCEPT ![req[c].user] = @ + Delta(req[c])]
  /\ rows' = rows \cup {req[c].user}
  /\ log' = log \cup {c}
  /\ \E answer \in {"applied", "failed"} :
       stage' = [stage EXCEPT ![c] = answer]
  /\ UNCHANGED req

\* An error, a timeout or a crash rolls the transaction back.
Rollback(c) ==
  /\ InFlight(c)
  /\ stage' = [stage EXCEPT ![c] = "failed"]
  /\ UNCHANGED <<balance, rows, log, req>>

Arrive(c) ==
  \E u \in Users, a \in Amounts :
    \/ \E k \in Keys : AddCredits(c, u, a, k) \/ RefundCredits(c, u, a, k)
    \/ \E k \in Keys \cup {NoKey} : DeductCredits(c, u, a, k)

Step(c) == UpsertIncrement(c) \/ SelectForUpdate(c) \/ Commit(c)

Next == \E c \in Calls : Arrive(c) \/ Step(c) \/ Rollback(c)

Spec == Init /\ [][Next]_vars

\* The process and the database take every call on that they can; a waiter
\* is granted the row lock although others keep taking it (Postgres queues).
Fairness == \A c \in Calls : SF_vars(Step(c))

FairSpec == Spec /\ Fairness
-----------------------------------------------------------------------------
TypeOK ==
  /\ balance \in [Users -> Int]
  /\ rows \in SUBSET Users
  /\ log \in SUBSET Calls
  /\ req \in [Calls -> Request \cup {NoRequest}]
  /\ stage \in [Calls -> Stage]
  /\ \A c \in Calls : stage[c] # "new" => req[c] \in Request

\* deductCredits checks the balance under the row lock, so that concurrent
\* deductions never take more than there is, and the increment of a grant
\* never passes the INTEGER column's range.
BalanceInRange == \A u \in Users : balance[u] \in 0 .. MaxInt

\* What a transaction found when it took the row lock is still so when it
\* commits: nobody else holds the lock, and the write stays in range.
FundsReserved ==
  \A c \in Calls : stage[c] = "locked" =>
    /\ balance[req[c].user] + Delta(req[c]) \in 0 .. MaxInt
    /\ \A d \in Calls :
         stage[d] = "locked" /\ req[d].user = req[c].user => d = c

\* The balance column and the sum of the log rows tell one story: a row and
\* its balance change commit together or not at all, once.
BalanceMatchesLog ==
  LET moved == [c \in log |-> Delta(req[c])]
  IN \A u \in Users :
       balance[u] =
         Opening[u] + SumFunctionOnSet(moved, {c \in log : req[c].user = u})

\* A key whose calls do not overlap (the webhooks' keys, behind their dedup
\* row) moves credits at most once, whatever was retried, rolled back or
\* answered in between, and whatever other calls share the row.
AtMostOncePerKey ==
  \A c, d \in log :
    req[c].key = req[d].key /\ req[c].key \in Apart => c = d

\* A call that was answered with success is backed by a committed row.
SuccessIsRecorded ==
  \A c \in Calls :
    /\ stage[c] = "applied" => c \in log
    /\ stage[c] = "hit" =>
         req[c].key # NoKey /\ \E d \in log : req[d].key = req[c].key

\* Every call that entered its transaction is answered, however many calls
\* wait for the same row.
CallsAnswered == \A c \in Calls : InFlight(c) ~> ~ InFlight(c)

\* CreditsService keeps its promise to callers: with the keys of the log rows
\* as the used keys, it implements the account.
Account ==
  INSTANCE CreditAccount WITH
    bal <- balance,
    used <- {req[c].key : c \in log} \ {NoKey},
    Once <- Apart,
    Deltas <- Amounts \cup {-a : a \in Amounts}

ImplementsAccount == Account!Spec
=============================================================================
