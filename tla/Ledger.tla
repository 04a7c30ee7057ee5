------------------------------- MODULE Ledger -------------------------------
(***************************************************************************)
(* LedgerService (apps/api/src/billing/ledger.service.ts) inside the        *)
(* database transactions of its callers: RefundsService, DisputesService    *)
(* and the Authorize.net webhook.                                           *)
(*                                                                          *)
(* A caller opens a transaction, gets or creates the two accounts, calls    *)
(* recordTransaction with two entries and a key, does its own writes and    *)
(* commits.  Row locks of accounts are held from the first write to the     *)
(* commit.  ledger_transactions.idempotency_key is UNIQUE, and so is the     *)
(* owner and type of an account: an insert waits for an uncommitted one      *)
(* with its key and fails (P2002) when that commits.  An upsert with nothing *)
(* to update, as those of the accounts, is no INSERT ... ON CONFLICT: Prisma *)
(* reads the row, locks nothing when it is there, and inserts when it is not.*)
(***************************************************************************)
EXTENDS Integers, Sequences, FiniteSets, Functions

CONSTANTS
  Postings,     \* transactions of the callers, a retry counting as the same
  Users,
  System,       \* the user that owns the system accounts
  Keys,         \* idempotency keys
  Seeded,       \* the accounts the seed creates, where it has been run
  Plans,        \* what a posting may be asked to do: see Plan
  NoPlan,       \* the plan of a posting that has not begun
  Nobody        \* the holder of a free row lock

VARIABLES
  balance,   \* committed ledger_accounts.balance
  accounts,  \* committed ledger_accounts
  posted,    \* postings whose ledger_transactions row is committed
  plan,      \* what each posting is to do
  stage,     \* how far each posting has come
  at,        \* the next account to upsert or entry to apply
  holder     \* who holds the row of each account: by creating it, not
             \* committed, or by the lock of an update

vars == <<balance, accounts, posted, plan, stage, at, holder>>

Accounts == (Users \X {"ASSET"}) \cup ({System} \X {"REVENUE", "EXPENSE"})

Entry == [account : Accounts, side : {"DEBIT", "CREDIT"}, amount : Int]

Plan == [upserts : Seq(Accounts), entries : Seq(Entry), key : Keys]

ASSUME PlansAssumption == Plans \subseteq Plan

ASSUME SeededAssumption == Seeded \subseteq Accounts /\ IsFiniteSet(Seeded)

ASSUME NobodyAssumption == Nobody \notin Postings

Stage == {"new", "accounts", "opening", "inserting", "entries", "found", "written",
          "done", "rejected", "failed"}

InFlight(p) == stage[p] \notin {"new", "done", "rejected", "failed"}

Entries(p) == plan[p].entries
-----------------------------------------------------------------------------
(* The plans of the callers. *)

Debit(acc, n) == [account |-> acc, side |-> "DEBIT", amount |-> n]
Credit(acc, n) == [account |-> acc, side |-> "CREDIT", amount |-> n]

\* processPaymentRefund, and in the same shape the chargeback webhook: debit
\* revenue, credit the user's asset account.
ReversalPlan(u, n, k) ==
  [upserts |-> <<<<u, "ASSET">>, <<System, "REVENUE">>>>,
   entries |-> <<Debit(<<System, "REVENUE">>, n), Credit(<<u, "ASSET">>, n)>>,
   key |-> k]

\* Bug: the system account first, unlike every other caller.
WonPlanRevenueFirst(u, n, k) ==
  [upserts |-> <<<<System, "REVENUE">>, <<u, "ASSET">>>>,
   entries |-> <<Debit(<<u, "ASSET">>, n), Credit(<<System, "REVENUE">>, n)>>,
   key |-> k]

\* handleWon: the reversal of the reversal.
WonPlan(u, n, k) ==
  [upserts |-> <<<<u, "ASSET">>, <<System, "REVENUE">>>>,
   entries |-> <<Debit(<<u, "ASSET">>, n), Credit(<<System, "REVENUE">>, n)>>,
   key |-> k]

\* handleLost: the chargeback fee is an expense, paid from the user's asset
\* account.
LostPlan(u, n, k) ==
  [upserts |-> <<<<System, "EXPENSE">>, <<u, "ASSET">>>>,
   entries |-> <<Debit(<<System, "EXPENSE">>, n), Credit(<<u, "ASSET">>, n)>>,
   key |-> k]
-----------------------------------------------------------------------------
\* The sum of the entries on one side.
Total(entries, side) ==
  SumFunctionOnSet([i \in DOMAIN entries |-> entries[i].amount],
                   {i \in DOMAIN entries : entries[i].side = side})

Balanced(entries) == Total(entries, "DEBIT") = Total(entries, "CREDIT")

Valid(entries) ==
  /\ Len(entries) >= 2
  /\ \A i \in DOMAIN entries : entries[i].amount > 0
  /\ Balanced(entries)

\* isDebitNormal.
DebitNormal(a) == a[2] \in {"ASSET", "EXPENSE"}

\* Debit-normal accounts grow by debits, the others by credits.
BalanceChange(e) ==
  IF DebitNormal(e.account) <=> (e.side = "DEBIT") THEN e.amount ELSE -e.amount

\* What the entries of a posting add to each account.
Movement(entries) ==
  [a \in Accounts |->
     SumFunctionOnSet([i \in DOMAIN entries |-> BalanceChange(entries[i])],
                      {i \in DOMAIN entries : entries[i].account = a})]

Posted(k) == \E q \in posted : plan[q].key = k

\* Another transaction has inserted the key and not ended yet.
Pending(p, k) ==
  \E q \in Postings \ {p} : stage[q] \in {"entries", "written"} /\ plan[q].key = k

CanLock(p, a) == holder[a] \in {Nobody, p}

\* The accounts p sees: the committed ones and those it has created.
Visible(p) == accounts \cup {plan[p].upserts[i] : i \in DOMAIN plan[p].upserts}

Released(p) == [a \in Accounts |-> IF holder[a] = p THEN Nobody ELSE holder[a]]

Init ==
  /\ balance = [a \in Accounts |-> 0]
  /\ accounts \in {{}, Seeded}
  /\ posted = {}
  /\ plan = [p \in Postings |-> NoPlan]
  /\ stage = [p \in Postings |-> "new"]
  /\ at = [p \in Postings |-> 1]
  /\ holder = [a \in Accounts |-> Nobody]

\* Bug: the transaction is opened before its postings are known.
BeginWithoutPlan(p, pl) ==
  /\ stage[p] = "new"
  /\ stage' = [stage EXCEPT ![p] = "accounts"]
  /\ UNCHANGED <<balance, accounts, posted, plan, at, holder>>

\* The caller opens its transaction, for the first time or again.
Begin(p, pl) ==
  /\ \/ stage[p] = "new"
     \/ stage[p] = "failed" /\ pl = plan[p]
  /\ plan' = [plan EXCEPT ![p] = pl]
  /\ stage' = [stage EXCEPT ![p] = "accounts"]
  /\ at' = [at EXCEPT ![p] = 1]
  /\ UNCHANGED <<balance, accounts, posted, holder>>

\* The next account to get or create.
Upsert(p) == plan[p].upserts[at[p]]

\* COMMIT or ROLLBACK, and the answer to the caller.
End(p, answer) ==
  /\ stage' = [stage EXCEPT ![p] = answer]
  /\ holder' = Released(p)

\* getOrCreateAssetAccount, getOrCreateSystemAccount, the read of the upsert:
\* a row that is there, or that p has created, is taken as it is.
UpsertAccount(p) ==
  /\ stage[p] = "accounts"
  /\ at[p] <= Len(plan[p].upserts)
  /\ IF Upsert(p) \in accounts \/ holder[Upsert(p)] = p
     THEN at' = [at EXCEPT ![p] = @ + 1] /\ UNCHANGED stage
     ELSE stage' = [stage EXCEPT ![p] = "opening"] /\ UNCHANGED at
  /\ UNCHANGED <<balance, accounts, posted, plan, holder>>

\* The insert of the upsert: it waits for whoever holds the row, and fails
\* (P2002) if the row is there by now.
CreateAccount(p) ==
  /\ stage[p] = "opening"
  /\ CanLock(p, Upsert(p))
  /\ IF Upsert(p) \in accounts
     THEN End(p, "failed") /\ UNCHANGED at
     ELSE /\ holder' = [holder EXCEPT ![Upsert(p)] = p]
          /\ at' = [at EXCEPT ![p] = @ + 1]
          /\ stage' = [stage EXCEPT ![p] = "accounts"]
  /\ UNCHANGED <<balance, accounts, posted, plan>>

\* recordTransaction: the lookup of the key comes before the validation of
\* the entries; an invalid posting throws and its transaction rolls back.
RecordTransaction(p) ==
  /\ stage[p] = "accounts"
  /\ at[p] > Len(plan[p].upserts)
  /\ \/ /\ Posted(plan[p].key)
        /\ stage' = [stage EXCEPT ![p] = "found"]
        /\ UNCHANGED holder
     \/ /\ ~ Posted(plan[p].key)
        /\ ~ Valid(Entries(p))
        /\ End(p, "rejected")
     \/ /\ ~ Posted(plan[p].key)
        /\ Valid(Entries(p))
        /\ stage' = [stage EXCEPT ![p] = "inserting"]
        /\ UNCHANGED holder
  /\ UNCHANGED <<balance, accounts, posted, plan, at>>

\* Bug: no unique constraint on the key.
CreateWithoutUnique(p) ==
  /\ stage[p] = "inserting"
  /\ stage' = [stage EXCEPT ![p] = "entries"]
  /\ at' = [at EXCEPT ![p] = 1]
  /\ UNCHANGED <<balance, accounts, posted, plan, holder>>

\* The insert of the ledger_transactions row, under its unique key.
CreateTransaction(p) ==
  /\ stage[p] = "inserting"
  /\ ~ Pending(p, plan[p].key)
  /\ IF Posted(plan[p].key)
     THEN End(p, "failed") /\ UNCHANGED at
     ELSE /\ stage' = [stage EXCEPT ![p] = "entries"]
          /\ at' = [at EXCEPT ![p] = 1]
          /\ UNCHANGED holder
  /\ UNCHANGED <<balance, accounts, posted, plan>>

\* One turn of the loop over the entries: the account must be there; the
\* increment of its balance takes the row lock.
ApplyEntry(p) ==
  /\ stage[p] = "entries"
  /\ LET a == Entries(p)[at[p]].account
     IN \/ /\ a \notin Visible(p)
           /\ End(p, "rejected")
        \/ /\ a \in Visible(p)
           /\ CanLock(p, a)
           /\ holder' = [holder EXCEPT ![a] = p]
           /\ stage' = [stage EXCEPT ![p] =
                          IF at[p] = Len(Entries(p)) THEN "written" ELSE @]
  /\ at' = [at EXCEPT ![p] = @ + 1]
  /\ UNCHANGED <<balance, accounts, posted, plan>>

\* Bug: the balances move although the transaction was found.
CommitFoundToo(p) ==
  /\ stage[p] \in {"written", "found"}
  /\ accounts' = Visible(p)
  /\ posted' = IF stage[p] = "written" THEN posted \cup {p} ELSE posted
  /\ balance' = [a \in Accounts |-> balance[a] + Movement(Entries(p))[a]]
  /\ End(p, "done")
  /\ UNCHANGED <<plan, at>>

\* The caller's COMMIT: all of the posting at once; the caller may never
\* hear of it and open the same transaction again.
Commit(p) ==
  /\ stage[p] \in {"written", "found"}
  /\ accounts' = Visible(p)
  /\ IF stage[p] = "written"
     THEN /\ posted' = posted \cup {p}
          /\ LET m == Movement(Entries(p))
             IN balance' = [a \in Accounts |-> balance[a] + m[a]]
     ELSE UNCHANGED <<posted, balance>>
  /\ \E answer \in {"done", "failed"} : End(p, answer)
  /\ UNCHANGED <<plan, at>>

\* An error in the caller's own writes, a timeout, Postgres's deadlock
\* detector or a crash.
Rollback(p) ==
  /\ InFlight(p)
  /\ End(p, "failed")
  /\ UNCHANGED <<balance, accounts, posted, plan, at>>

Step(p) ==
  UpsertAccount(p) \/ CreateAccount(p) \/ RecordTransaction(p) 
    \/ CreateTransaction(p) \/ ApplyEntry(p) \/ Commit(p)

Next ==
  \E p \in Postings :
    (\E pl \in Plans : Begin(p, pl)) \/ Step(p) \/ Rollback(p)

Spec == Init /\ [][Next]_vars

-----------------------------------------------------------------------------
TypeOK ==
  /\ balance \in [Accounts -> Int]
  /\ accounts \in SUBSET Accounts
  /\ posted \in SUBSET Postings
  /\ plan \in [Postings -> Plans \cup {NoPlan}]
  /\ stage \in [Postings -> Stage]
  /\ at \in [Postings -> Nat]
  /\ holder \in [Accounts -> Postings \cup {Nobody}]
  /\ \A p \in Postings : stage[p] # "new" => plan[p] \in Plans

\* The UNIQUE key, the lookup before it and the rollback on P2002 leave one
\* ledger transaction per key, whoever races or retries.
OneTransactionPerKey ==
  \A p, q \in posted : plan[p].key = plan[q].key => p = q

\* Each balance is the sum of the entries of the committed transactions: no
\* increment is lost, doubled or left behind by a rollback.
BalanceMatchesEntries ==
  \A a \in Accounts :
    balance[a] = SumFunction([p \in posted |-> Movement(Entries(p))[a]])

\* The trial balance: what the debit-normal accounts hold is what the others
\* hold, over the rows of ledger_accounts.
TrialBalance ==
  SumFunctionOnSet(
    [a \in Accounts |-> IF DebitNormal(a) THEN balance[a] ELSE -balance[a]],
    accounts) = 0

\* A caller that committed, by writing or by finding its key, has a ledger
\* transaction under that key.
DoneIsPosted == \A p \in Postings : stage[p] = "done" => Posted(plan[p].key)

\* The account of the entry that p is at.
Target(p) == Entries(p)[at[p]].account

\* p cannot go on before q ends.
WaitsFor(p, q) ==
  /\ p # q
  /\ \/ stage[p] = "opening" /\ holder[Upsert(p)] = q
     \/ /\ stage[p] = "inserting"
        /\ stage[q] \in {"entries", "written"} /\ plan[q].key = plan[p].key
     \/ /\ stage[p] = "entries"
        /\ Target(p) \in Visible(p) /\ holder[Target(p)] = q

\* Every one of S waits for another of S: Postgres's deadlock detector has to
\* roll one back.
Circle(S) == S # {} /\ \A p \in S : \E q \in S : WaitsFor(p, q)

\* A reversal that has moved the revenue and wants the user's account, and a
\* WON that has moved the user's account and wants the revenue.
Opposed(p, q) ==
  /\ WaitsFor(p, q) /\ WaitsFor(q, p)
  /\ stage[p] = "entries" /\ stage[q] = "entries"
  /\ \E u \in Users : Target(p) = <<u, "ASSET">>
  /\ Target(q) = <<System, "REVENUE">>

\* The callers' upserts come in one order (expense, the user's asset account,
\* revenue) and never block each other, nor do the inserts of a key.  Entries
\* do: each deadlock there can be is one between a reversal and a WON of one
\* user, which take the same two accounts in opposite orders.
CirclesAreOpposed ==
  \A S \in SUBSET Postings : Circle(S) => \E p, q \in S : Opposed(p, q)

Book ==
  INSTANCE Journal WITH
    bal <- balance,
    posted <- {plan[p].key : p \in posted},
    Movements <-
      {Movement(pl.entries) : pl \in {x \in Plans : Balanced(x.entries)}}

ImplementsJournal == Book!Spec
=============================================================================
