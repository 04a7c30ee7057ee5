---------------------------- MODULE LedgerProofs ----------------------------
(***************************************************************************)
(* Theorems about Ledger.tla for any callers, accounts, keys and plans.     *)
(*                                                                          *)
(* KeysHeld carries the first three: from its insert to its commit a        *)
(* transaction is the only one with its key, which no committed transaction *)
(* has, and what it posts is valid.  LockInv carries the one on circles: an *)
(* account is held by the one who creates it, until nobody can have read it *)
(* before, or by the one whose entry moved it.  BookInv and TrialInv        *)
(* are about sums: a commit adds its movement to the balances when it adds  *)
(* itself to the posted, and a valid movement shifts both sides alike.      *)
(***************************************************************************)
EXTENDS Ledger, SumFacts, TLAPS

\* The types that the key discipline needs.
Types ==
  /\ posted \in SUBSET Postings
  /\ stage \in [Postings -> Stage]
  /\ plan \in [Postings -> Plans \cup {NoPlan}]
  /\ \A p \in Postings : stage[p] # "new" => plan[p] \in Plans

Inserted(p) == stage[p] \in {"entries", "written"}

KeysHeld ==
  \A p \in Postings :
    /\ Inserted(p) =>
         /\ ~ Posted(plan[p].key)
         /\ \A q \in Postings :
              Inserted(q) /\ plan[q].key = plan[p].key => q = p
    /\ stage[p] \in {"inserting", "entries", "written"} => Valid(Entries(p))
    /\ stage[p] = "found" => Posted(plan[p].key)

\* A committed posting may be tried again, but only to find itself.
PostedStages ==
  \A p \in posted : stage[p] \notin {"new", "entries", "written"}

LedgerInv ==
  Types /\ KeysHeld /\ PostedStages /\ OneTransactionPerKey /\ DoneIsPosted
-----------------------------------------------------------------------------
LEMMA LedgerInit == Init => LedgerInv
  BY DEF Init, LedgerInv, Types, KeysHeld, PostedStages, Inserted,
         OneTransactionPerKey, DoneIsPosted, Stage

\* Opening or reopening a transaction.
LEMMA BeginKeeps ==
  ASSUME LedgerInv, NEW p \in Postings, NEW pl \in Plans, Begin(p, pl)
  PROVE  LedgerInv'
  <1>1. Types /\ KeysHeld /\ PostedStages /\ OneTransactionPerKey /\ DoneIsPosted
    BY DEF LedgerInv
  <1>2. \A q \in posted : plan'[q] = plan[q]
    BY <1>1 DEF Begin, Types, PostedStages
  <1>3. \A k : Posted(k)' <=> Posted(k)
    BY <1>2 DEF Posted, Begin
  <1>4. \A q \in Postings : q # p => stage'[q] = stage[q] /\ plan'[q] = plan[q]
    BY <1>1 DEF Begin, Types
  <1>5. stage'[p] = "accounts" /\ plan'[p] = pl
    BY <1>1 DEF Begin, Types
  <1>6. Types'
    BY <1>1, <1>4, <1>5 DEF Begin, Types, Stage
  <1>7. KeysHeld' /\ DoneIsPosted'
    BY <1>1, <1>3, <1>4, <1>5 DEF KeysHeld, DoneIsPosted, Inserted, Entries
  <1>8. PostedStages' /\ OneTransactionPerKey'
    BY <1>1, <1>2, <1>4, <1>5
    DEF PostedStages, OneTransactionPerKey, Begin, Types
  <1>. QED
    BY <1>6, <1>7, <1>8 DEF LedgerInv

\* A step of one transaction that commits nothing and keeps every plan.
LEMMA StageStep ==
  ASSUME LedgerInv, NEW p \in Postings, NEW s \in Stage,
         UNCHANGED <<posted, plan>>, stage' = [stage EXCEPT ![p] = s],
         stage[p] # "new", s \notin {"new", "done"},
         s = "found" => Posted(plan[p].key),
         s \in {"inserting", "entries", "written"} => Valid(Entries(p)),
         s \in {"entries", "written"} =>
           ~ Posted(plan[p].key) /\ ~ Pending(p, plan[p].key)
  PROVE  LedgerInv'
  <1>1. Types /\ KeysHeld /\ PostedStages /\ OneTransactionPerKey /\ DoneIsPosted
    BY DEF LedgerInv
  <1>2. \A k : Posted(k)' <=> Posted(k)
    BY DEF Posted
  <1>3. /\ stage'[p] = s
        /\ \A q \in Postings : q # p => stage'[q] = stage[q]
    BY <1>1 DEF Types
  <1>4. Types'
    BY <1>1 DEF Types
  <1>5. p \in posted => s \notin {"entries", "written"}
    BY DEF Posted
  <1>6. PostedStages' /\ OneTransactionPerKey' /\ DoneIsPosted'
    BY <1>1, <1>2, <1>3, <1>5
    DEF PostedStages, OneTransactionPerKey, DoneIsPosted, Types
  <1>7. KeysHeld'
    BY <1>1, <1>2, <1>3 DEF KeysHeld, Inserted, Pending, Entries
  <1>. QED
    BY <1>4, <1>6, <1>7 DEF LedgerInv

\* The steps of a transaction before its commit, and its rollback.
LEMMA OpenStepsKeep ==
  ASSUME LedgerInv, NEW p \in Postings,
         \/ UpsertAccount(p) \/ CreateAccount(p) \/ RecordTransaction(p)
         \/ CreateTransaction(p) \/ ApplyEntry(p) \/ Rollback(p)
  PROVE  LedgerInv'
  <1>1. Types /\ KeysHeld /\ UNCHANGED <<posted, plan>>
    BY DEF LedgerInv, UpsertAccount, CreateAccount, RecordTransaction,
           CreateTransaction, ApplyEntry, Rollback
  <1>2. CASE UpsertAccount(p)
    <2>1. CASE UNCHANGED stage
      BY <1>1, <2>1 DEF LedgerInv, Types, KeysHeld, Inserted,
         Posted, Entries, PostedStages, OneTransactionPerKey, DoneIsPosted
    <2>2. CASE stage' = [stage EXCEPT ![p] = "opening"]
      BY <1>1, <1>2, <2>2, StageStep DEF UpsertAccount, Stage
    <2>. QED
      BY <1>2, <2>1, <2>2 DEF UpsertAccount
  <1>3. CASE RecordTransaction(p)
    BY <1>1, <1>3, StageStep DEF RecordTransaction, End, Stage
  <1>4. CASE CreateTransaction(p)
    BY <1>1, <1>4, StageStep DEF CreateTransaction, End, Stage, KeysHeld
  <1>5. CASE ApplyEntry(p)
    <2>1. /\ stage[p] = "entries" /\ Valid(Entries(p))
          /\ ~ Posted(plan[p].key) /\ ~ Pending(p, plan[p].key)
      BY <1>1, <1>5 DEF ApplyEntry, KeysHeld, Inserted, Pending
    <2>. QED
      BY <1>1, <1>5, <2>1, StageStep DEF ApplyEntry, End, Stage
  <1>6. CASE Rollback(p)
    BY <1>1, <1>6, StageStep DEF Rollback, InFlight, End, Stage
  <1>7. CASE CreateAccount(p)
    <2>1. CASE stage' = [stage EXCEPT ![p] = "accounts"]
      BY <1>1, <1>7, <2>1, StageStep DEF CreateAccount, Stage
    <2>2. CASE stage' = [stage EXCEPT ![p] = "failed"]
      BY <1>1, <1>7, <2>2, StageStep DEF CreateAccount, Stage
    <2>. QED
      BY <1>7, <2>1, <2>2 DEF CreateAccount, End
  <1>. QED
    BY <1>2, <1>3, <1>4, <1>5, <1>6, <1>7

\* A commit posts the only inserted transaction of its key.
LEMMA CommitKeeps ==
  ASSUME LedgerInv, NEW p \in Postings, Commit(p)
  PROVE  LedgerInv'
  <1>1. Types /\ KeysHeld /\ PostedStages /\ OneTransactionPerKey /\ DoneIsPosted
    BY DEF LedgerInv
  <1>2. PICK s \in {"done", "failed"} : stage' = [stage EXCEPT ![p] = s]
    BY DEF Commit, End
  <1>3. /\ stage'[p] = s /\ UNCHANGED plan
        /\ \A q \in Postings : q # p => stage'[q] = stage[q]
    BY <1>1, <1>2 DEF Commit, Types
  <1>4. CASE stage[p] = "found"
    <2>1. posted' = posted /\ Posted(plan[p].key)
      BY <1>1, <1>4 DEF Commit, KeysHeld
    <2>2. \A k : Posted(k)' <=> Posted(k)
      BY <1>3, <2>1 DEF Posted
    <2>. QED
      BY <1>1, <1>2, <1>3, <1>4, <2>1, <2>2
      DEF LedgerInv, Types, KeysHeld, Inserted, PostedStages, Entries,
          OneTransactionPerKey, DoneIsPosted, Stage
  <1>5. CASE stage[p] = "written"
    <2>1. posted' = posted \cup {p} /\ Inserted(p)
      BY <1>5 DEF Commit, Inserted
    <2>2. \A k : Posted(k)' <=> Posted(k) \/ k = plan[p].key
      BY <1>3, <2>1 DEF Posted
    <2>3. Types'
      BY <1>1, <1>2, <1>3, <1>5, <2>1 DEF Types, Stage
    <2>4. PostedStages'
      BY <1>1, <1>3, <2>1 DEF PostedStages, Types
    <2>5. DoneIsPosted'
      BY <1>1, <1>3, <2>2 DEF DoneIsPosted
    <2>6. OneTransactionPerKey'
      BY <1>1, <1>3, <2>1 DEF OneTransactionPerKey, KeysHeld, Posted
    <2>7. KeysHeld'
      BY <1>1, <1>3, <2>1, <2>2 DEF KeysHeld, Inserted, Entries
    <2>. QED
      BY <2>3, <2>4, <2>5, <2>6, <2>7 DEF LedgerInv
  <1>. QED
    BY <1>4, <1>5 DEF Commit

LEMMA LedgerStep == LedgerInv /\ [Next]_vars => LedgerInv'
  <1> SUFFICES ASSUME LedgerInv, [Next]_vars PROVE LedgerInv'
    OBVIOUS
  <1>1. CASE UNCHANGED vars
    BY <1>1 DEF vars, LedgerInv, Types, KeysHeld, Inserted, Posted, Entries,
       PostedStages, OneTransactionPerKey, DoneIsPosted
  <1>2. CASE Next
    BY <1>2, BeginKeeps, OpenStepsKeep, CommitKeeps DEF Next, Step
  <1>. QED
    BY <1>1, <1>2

\* The key discipline holds throughout.
THEOREM LedgerInvariant == Spec => []LedgerInv
  BY LedgerInit, LedgerStep, PTL DEF Spec

\* One ledger transaction per idempotency key, whoever races or retries.
THEOREM KeysAreUnique == Spec => []OneTransactionPerKey
  BY LedgerInvariant, PTL DEF LedgerInv

\* A caller that was answered with success has its transaction in the ledger.
THEOREM SuccessIsPosted == Spec => []DoneIsPosted
  BY LedgerInvariant, PTL DEF LedgerInv
-----------------------------------------------------------------------------
JournalKeys == {plan[p].key : p \in posted}

\* A step that leaves the committed transactions and balances alone is
\* invisible in the journal.
LEMMA OpenStepsAreSilent ==
  ASSUME LedgerInv, NEW p \in Postings,
         \/ \E pl \in Plans : Begin(p, pl)
         \/ UpsertAccount(p) \/ CreateAccount(p) \/ RecordTransaction(p)
         \/ CreateTransaction(p) \/ ApplyEntry(p) \/ Rollback(p)
  PROVE  UNCHANGED Book!vars
  <1>1. UNCHANGED <<balance, posted>>
    BY DEF Begin, UpsertAccount, CreateAccount, RecordTransaction,
           CreateTransaction, ApplyEntry, Rollback
  <1>2. \A q \in posted : plan'[q] = plan[q]
    BY DEF LedgerInv, Types, PostedStages, Begin, UpsertAccount, CreateAccount,
           RecordTransaction, CreateTransaction, ApplyEntry, Rollback
  <1>. QED
    BY <1>1, <1>2 DEF Book!vars

\* The commit of a written transaction posts its movement under its key; the
\* commit of a found one is invisible.
LEMMA CommitIsPost ==
  ASSUME LedgerInv, NEW p \in Postings, Commit(p), plan[p].key \in Keys
  PROVE  [Book!Next]_(Book!vars)
  <1>1. Types /\ KeysHeld
    BY DEF LedgerInv
  <1>2. CASE stage[p] = "found"
    BY <1>2 DEF Commit, Book!vars
  <1>3. CASE stage[p] = "written"
    <2>. DEFINE m == Movement(Entries(p))
                k == plan[p].key
    <2>1. k \notin JournalKeys
      BY <1>1, <1>3 DEF KeysHeld, Inserted, Posted, JournalKeys
    <2>2. JournalKeys' = JournalKeys \cup {k}
      BY <1>3 DEF Commit, JournalKeys
    <2>3. balance' = [a \in Accounts |-> balance[a] + m[a]]
      BY <1>3 DEF Commit
    <2>4. \E pl \in {x \in Plans : Balanced(x.entries)} : m = Movement(pl.entries)
      BY <1>1, <1>3 DEF KeysHeld, Types, Entries, Valid
    <2>. HIDE DEF m
    <2>5. PICK n \in {Movement(pl.entries) :
                        pl \in {x \in Plans : Balanced(x.entries)}},
               key \in Keys : n = m /\ key = k
      BY <2>4
    <2>6. Book!Post(n, key)
      BY <2>1, <2>2, <2>3, <2>5 DEF Book!Post, JournalKeys
    <2>. QED
      BY <2>6 DEF Book!Next
  <1>. QED
    BY <1>2, <1>3 DEF Commit

\* LedgerService inside its callers' transactions implements the journal:
\* valid postings appear whole, in one step, at most once per key.
THEOREM LedgerImplementsJournal == Spec => ImplementsJournal
  <1>1. Init => Book!Init
    BY DEF Init, Book!Init
  <1>2. ASSUME LedgerInv, [Next]_vars
        PROVE  [Book!Next]_(Book!vars)
    <2>1. CASE UNCHANGED vars
      BY <2>1 DEF vars, Book!vars
    <2>2. CASE Next
      <3>1. PICK p \in Postings :
              (\E pl \in Plans : Begin(p, pl)) \/ Step(p) \/ Rollback(p)
        BY <2>2 DEF Next
      <3>2. CASE Commit(p)
        <4>1. stage[p] # "new" /\ Types
          BY <1>2, <3>2 DEF Commit, LedgerInv
        <4>2. plan[p].key \in Keys
          BY <4>1, PlansAssumption DEF Types, Plan
        <4>. QED
          BY <1>2, <3>2, <4>2, CommitIsPost
      <3>3. CASE ~ Commit(p)
        BY <1>2, <3>1, <3>3, OpenStepsAreSilent DEF Step
      <3>. QED
        BY <3>2, <3>3
    <2>. QED
      BY <1>2, <2>1, <2>2
  <1>. QED
    BY <1>1, <1>2, LedgerInvariant, PTL
    DEF Spec, ImplementsJournal, Book!Spec
-----------------------------------------------------------------------------
(* Transactions of the callers there are wait in a circle only where a      *)
(* reversal and a WON of one user do.                                       *)

\* processPaymentRefund and the chargeback webhook, handleWon, handleLost.
Caller(pl) ==
  \E u \in Users, n \in Int, k \in Keys :
    pl \in {ReversalPlan(u, n, k), WonPlan(u, n, k), LostPlan(u, n, k)}

Revenue == <<System, "REVENUE">>

First(p) == Entries(p)[1].account

Rank(a) ==
  IF a[2] = "EXPENSE" THEN 1 ELSE IF a[2] = "ASSET" THEN 2 ELSE 3

\* Callers upsert in the order of Rank, and both accounts that they post to.
LEMMA CallersUpsert ==
  ASSUME NEW pl, Caller(pl)
  PROVE  /\ \A i, j \in DOMAIN pl.upserts :
              i < j => Rank(pl.upserts[i]) < Rank(pl.upserts[j])
         /\ DOMAIN pl.entries = 1 .. 2
         /\ \A i \in 1 .. 2 :
              \E j \in DOMAIN pl.upserts : pl.upserts[j] = pl.entries[i].account
  BY DEF Caller, Rank, ReversalPlan, WonPlan, LostPlan, Debit, Credit

\* The orders in which they post.
LEMMA CallersPost ==
  ASSUME NEW pl, Caller(pl)
  PROVE  \E u \in Users :
           \/ /\ pl.entries[1].account = Revenue
              /\ pl.entries[2].account = <<u, "ASSET">>
           \/ /\ pl.entries[1].account = <<u, "ASSET">>
              /\ pl.entries[2].account = Revenue
           \/ /\ pl.entries[1].account = <<System, "EXPENSE">>
              /\ pl.entries[2].account = <<u, "ASSET">>
  BY DEF Caller, Revenue, ReversalPlan, WonPlan, LostPlan, Debit, Credit

Upserts(p) == plan[p].upserts

\* What p holds.  Up to its entries, rows that it has created, which are not
\* committed; then also those its entries have moved.
HoldsInOrder(p) ==
  /\ stage[p] \in {"accounts", "opening"} =>
       /\ at[p] \in Nat \ {0}
       /\ \A i \in DOMAIN Upserts(p) :
            i < at[p] => Upserts(p)[i] \in accounts \/ holder[Upserts(p)[i]] = p
       /\ \A a \in Accounts : holder[a] = p =>
            \E i \in DOMAIN Upserts(p) : i < at[p] /\ Upserts(p)[i] = a
  /\ stage[p] = "opening" => at[p] \in DOMAIN Upserts(p)
  /\ stage[p] \in {"inserting", "found", "entries", "written"} =>
       \A i \in DOMAIN Upserts(p) :
         Upserts(p)[i] \in accounts \/ holder[Upserts(p)[i]] = p
  /\ stage[p] \in {"accounts", "opening", "inserting", "found"} =>
       \A a \in accounts : holder[a] # p
  /\ stage[p] = "entries" =>
       /\ at[p] \in DOMAIN Entries(p)
       /\ \A a \in accounts : holder[a] = p =>
            \E i \in DOMAIN Entries(p) : i < at[p] /\ Entries(p)[i].account = a
  /\ ~ InFlight(p) => \A a \in Accounts : holder[a] # p

LockInv ==
  /\ holder \in [Accounts -> Postings \cup {Nobody}]
  /\ at \in [Postings -> Nat]
  /\ accounts \in SUBSET Accounts
  /\ \A p \in Postings : HoldsInOrder(p)

LEMMA PlanTypes ==
  ASSUME Types, NEW p \in Postings, stage[p] # "new"
  PROVE  /\ plan[p] \in Plans
         /\ Upserts(p) \in Seq(Accounts)
         /\ Entries(p) \in Seq(Entry)
         /\ \A i \in DOMAIN Upserts(p) : Upserts(p)[i] \in Accounts
  <1>1. plan[p] \in Plans
    BY DEF Types
  <1>2. Upserts(p) \in Seq(Accounts) /\ Entries(p) \in Seq(Entry)
    BY <1>1, PlansAssumption DEF Plan, Upserts, Entries
  <1>. QED
    BY <1>1, <1>2

\* The steps of p leave the others what they hold; what p commits, nobody
\* else has created.
LEMMA OthersHold ==
  ASSUME Types, LockInv, NEW p \in Postings,
         \A q \in Postings \ {p} :
           stage'[q] = stage[q] /\ plan'[q] = plan[q] /\ at'[q] = at[q],
         \A a \in Accounts : \A q \in Postings \ {p} :
           holder'[a] = q <=> holder[a] = q,
         accounts \subseteq accounts', accounts' \subseteq Accounts,
         \A a \in accounts' \ accounts : \A q \in Postings \ {p} : holder[a] # q
  PROVE  \A q \in Postings \ {p} : HoldsInOrder(q)'
  <1>1. SUFFICES ASSUME NEW q \in Postings, q # p PROVE HoldsInOrder(q)'
    OBVIOUS
  <1>2. HoldsInOrder(q)
    BY DEF LockInv
  <1>3. /\ stage'[q] = stage[q] /\ plan'[q] = plan[q] /\ at'[q] = at[q]
        /\ \A a \in Accounts : holder'[a] = q <=> holder[a] = q
        /\ \A a \in accounts' : holder'[a] = q => a \in accounts /\ holder[a] = q
    BY <1>1
  <1>4. stage[q] # "new" =>
          \A i \in DOMAIN Upserts(q) : Upserts(q)[i] \in Accounts
    BY PlanTypes
  <1>5. CASE stage[q] = "new"
    BY <1>2, <1>3, <1>5 DEF HoldsInOrder, InFlight
  <1>6. CASE stage[q] # "new"
    <2>1. Upserts(q)' = Upserts(q) /\ Entries(q)' = Entries(q)
      BY <1>3 DEF Upserts, Entries
    <2>2. \A i \in DOMAIN Upserts(q) :
            Upserts(q)[i] \in accounts \/ holder[Upserts(q)[i]] = q =>
              Upserts(q)[i] \in accounts' \/ holder'[Upserts(q)[i]] = q
      BY <1>3, <1>4, <1>6
    <2>. QED
      BY <1>2, <1>3, <2>1, <2>2 DEF HoldsInOrder, InFlight
  <1>. QED
    BY <1>5, <1>6

\* A transaction that ends lets go of its accounts, and of nobody else's.
LEMMA EndHolds ==
  ASSUME Types, LockInv, NEW p \in Postings,
         NEW s \in {"done", "rejected", "failed"}, End(p, s), UNCHANGED plan,
         at' \in [Postings -> Nat], \A q \in Postings \ {p} : at'[q] = at[q],
         accounts \subseteq accounts', accounts' \subseteq Accounts,
         \A a \in accounts' \ accounts : \A q \in Postings \ {p} : holder[a] # q
  PROVE  LockInv'
  <1>1. /\ stage'[p] = s
        /\ \A q \in Postings \ {p} : stage'[q] = stage[q] /\ plan'[q] = plan[q]
    BY DEF End, Types
  <1>2. /\ holder' \in [Accounts -> Postings \cup {Nobody}]
        /\ \A a \in Accounts : holder'[a] # p
        /\ \A a \in Accounts : \A q \in Postings \ {p} :
             holder'[a] = q <=> holder[a] = q
    BY NobodyAssumption DEF End, Released, LockInv
  <1>3. HoldsInOrder(p)'
    BY <1>1, <1>2 DEF HoldsInOrder, InFlight
  <1>4. \A q \in Postings \ {p} : HoldsInOrder(q)'
    BY <1>1, <1>2, OthersHold
  <1>. QED
    BY <1>2, <1>3, <1>4 DEF LockInv

LEMMA BeginHolds ==
  ASSUME Types, LockInv, NEW p \in Postings, NEW pl \in Plans, Begin(p, pl)
  PROVE  LockInv'
  <1>1. /\ stage'[p] = "accounts" /\ at'[p] = 1 /\ accounts' = accounts
        /\ \A q \in Postings \ {p} :
             stage'[q] = stage[q] /\ plan'[q] = plan[q] /\ at'[q] = at[q]
    BY DEF Begin, Types, LockInv
  <1>2. \A a \in Accounts : holder'[a] = holder[a] /\ holder[a] # p
    BY DEF Begin, LockInv, HoldsInOrder, InFlight
  <1>3. HoldsInOrder(p)'
    <2>1. plan'[p] = pl /\ Upserts(p)' = pl.upserts
      BY DEF Begin, Types, Upserts
    <2>2. pl.upserts \in Seq(Accounts)
      BY PlansAssumption DEF Plan
    <2>3. \A i \in DOMAIN pl.upserts : ~ (i < 1)
      BY <2>2
    <2>4. \A a \in accounts : a \in Accounts
      BY DEF LockInv
    <2>. QED
      BY <1>1, <1>2, <2>1, <2>3, <2>4 DEF HoldsInOrder, InFlight
  <1>4. \A q \in Postings \ {p} : HoldsInOrder(q)'
    BY <1>1, <1>2, OthersHold DEF LockInv
  <1>5. holder' \in [Accounts -> Postings \cup {Nobody}] /\ at' \in [Postings -> Nat]
    BY DEF Begin, LockInv
  <1>. QED
    BY <1>1, <1>3, <1>4, <1>5 DEF LockInv

\* The upsert of p has the next account of its list, found or created.
LEMMA GotHolds ==
  ASSUME Types, LockInv, NEW p \in Postings,
         stage[p] \in {"accounts", "opening"}, at[p] <= Len(Upserts(p)),
         stage' = [stage EXCEPT ![p] = "accounts"],
         at' = [at EXCEPT ![p] = @ + 1], UNCHANGED <<plan, accounts>>,
         \/ /\ UNCHANGED holder
            /\ Upsert(p) \in accounts \/ holder[Upsert(p)] = p
         \/ /\ holder' = [holder EXCEPT ![Upsert(p)] = p]
            /\ Upsert(p) \notin accounts
            /\ holder[Upsert(p)] \in {Nobody, p}
  PROVE  LockInv'
  <1> DEFINE a0 == Upsert(p)
  <1>1. HoldsInOrder(p) /\ at[p] \in Nat \ {0} /\ Upserts(p) \in Seq(Accounts)
    BY PlanTypes DEF LockInv, HoldsInOrder
  <1>2. at[p] \in DOMAIN Upserts(p) /\ a0 = Upserts(p)[at[p]] /\ a0 \in Accounts
    BY <1>1 DEF Upsert, Upserts
  <1>3. /\ stage'[p] = "accounts" /\ at'[p] = at[p] + 1
        /\ at' \in [Postings -> Nat]
        /\ \A q \in Postings \ {p} :
             stage'[q] = stage[q] /\ plan'[q] = plan[q] /\ at'[q] = at[q]
    BY <1>1 DEF Types, LockInv
  <1>4. /\ holder' \in [Accounts -> Postings \cup {Nobody}]
        /\ a0 \in accounts \/ holder'[a0] = p
        /\ \A a \in Accounts : a # a0 => holder'[a] = holder[a]
        /\ holder'[a0] = p => holder[a0] = p \/ a0 \notin accounts
        /\ \A a \in Accounts : holder[a] = p => holder'[a] = p
    <2> HIDE DEF a0
    <2>. QED
      BY <1>2 DEF LockInv, a0
  <1>5. \A a \in Accounts : \A q \in Postings \ {p} :
          holder'[a] = q <=> holder[a] = q
    <2>1. \A q \in Postings : q # Nobody
      BY NobodyAssumption
    <2>. QED
      BY <1>2, <1>4, <2>1 DEF LockInv
  <1>6. HoldsInOrder(p)'
    <2>1. Upserts(p)' = Upserts(p)
      BY DEF Upserts
    <2>2. ASSUME NEW a \in Accounts, holder'[a] = p
          PROVE  \E i \in DOMAIN Upserts(p) : i < at[p] + 1 /\ Upserts(p)[i] = a
      <3>1. CASE a = a0
        BY <1>1, <1>2, <3>1
      <3>2. CASE a # a0
        <4>1. PICK i \in DOMAIN Upserts(p) : i < at[p] /\ Upserts(p)[i] = a
          BY <1>1, <1>4, <2>2, <3>2 DEF HoldsInOrder
        <4>2. i < at[p] + 1
          BY <1>1, <4>1
        <4>. QED
          BY <4>1, <4>2
      <3>. QED
        BY <3>1, <3>2
    <2>3. ASSUME NEW i \in DOMAIN Upserts(p), i < at[p] + 1
          PROVE  Upserts(p)[i] \in accounts \/ holder'[Upserts(p)[i]] = p
      <3>1. Upserts(p)[i] \in Accounts /\ i \in Nat
        BY <1>1
      <3>2. CASE i = at[p]
        BY <1>2, <1>4, <3>2
      <3>3. CASE i # at[p]
        <4>1. i < at[p]
          BY <1>1, <2>3, <3>1, <3>3
        <4>2. Upserts(p)[i] \in accounts \/ holder[Upserts(p)[i]] = p
          BY <1>1, <4>1 DEF HoldsInOrder
        <4>. QED
          BY <1>4, <3>1, <4>2
      <3>. QED
        BY <3>2, <3>3
    <2>4. \A a \in accounts : holder'[a] # p
      <3>1. \A a \in accounts : holder[a] # p /\ a \in Accounts
        BY <1>1 DEF HoldsInOrder, LockInv
      <3>. QED
        BY <1>2, <1>4, <3>1
    <2>. QED
      BY <1>1, <1>3, <2>1, <2>2, <2>3, <2>4 DEF HoldsInOrder, InFlight
  <1>7. \A q \in Postings \ {p} : HoldsInOrder(q)'
    BY <1>3, <1>5, OthersHold DEF LockInv
  <1>. QED
    BY <1>3, <1>4, <1>6, <1>7 DEF LockInv

\* A step of p within its transaction that neither locks nor commits.
LEMMA StageHolds ==
  ASSUME Types, LockInv, NEW p \in Postings, NEW s \in Stage,
         stage' = [stage EXCEPT ![p] = s], UNCHANGED <<plan, accounts, holder>>,
         at' \in [Postings -> Nat], \A q \in Postings \ {p} : at'[q] = at[q],
         HoldsInOrder(p)'
  PROVE  LockInv'
  <1>1. \A q \in Postings \ {p} :
          stage'[q] = stage[q] /\ plan'[q] = plan[q] /\ at'[q] = at[q]
    BY DEF Types
  <1>2. \A q \in Postings \ {p} : HoldsInOrder(q)'
    BY <1>1, OthersHold DEF LockInv
  <1>. QED
    BY <1>2 DEF LockInv

LEMMA UpsertHolds ==
  ASSUME Types, LockInv, NEW p \in Postings, UpsertAccount(p)
  PROVE  LockInv'
  <1>1. /\ stage[p] = "accounts" /\ at[p] <= Len(Upserts(p))
        /\ UNCHANGED <<plan, accounts, holder>>
    BY DEF UpsertAccount, Upserts
  <1>2. CASE /\ Upsert(p) \in accounts \/ holder[Upsert(p)] = p
             /\ at' = [at EXCEPT ![p] = @ + 1] /\ UNCHANGED stage
    <2>1. stage' = [stage EXCEPT ![p] = "accounts"]
      BY <1>1, <1>2 DEF Types
    <2>. QED
      BY <1>1, <1>2, <2>1, GotHolds
  <1>3. CASE stage' = [stage EXCEPT ![p] = "opening"] /\ UNCHANGED at
    <2>1. HoldsInOrder(p) /\ Upserts(p) \in Seq(Accounts)
      BY <1>1, PlanTypes DEF LockInv
    <2>2. at[p] \in DOMAIN Upserts(p)
      BY <1>1, <2>1 DEF HoldsInOrder
    <2>3. stage'[p] = "opening" /\ Upserts(p)' = Upserts(p)
      BY <1>1, <1>3 DEF Types, Upserts
    <2>4. HoldsInOrder(p)'
      BY <1>1, <1>3, <2>1, <2>2, <2>3 DEF HoldsInOrder, InFlight
    <2>. QED
      BY <1>1, <1>3, <2>4, StageHolds DEF Stage, LockInv
  <1>. QED
    BY <1>2, <1>3 DEF UpsertAccount

LEMMA CreateAccountHolds ==
  ASSUME Types, LockInv, NEW p \in Postings, CreateAccount(p)
  PROVE  LockInv'
  <1>1. stage[p] = "opening" /\ UNCHANGED <<plan, accounts>> /\ HoldsInOrder(p)
    BY DEF CreateAccount, LockInv
  <1>2. Upserts(p) \in Seq(Accounts) /\ at[p] \in DOMAIN Upserts(p)
    BY <1>1, PlanTypes DEF HoldsInOrder
  <1>3. at[p] <= Len(Upserts(p))
    BY <1>2
  <1>4. CASE End(p, "failed") /\ UNCHANGED at
    BY <1>1, <1>4, EndHolds DEF LockInv
  <1>5. CASE /\ Upsert(p) \notin accounts
             /\ holder' = [holder EXCEPT ![Upsert(p)] = p]
             /\ at' = [at EXCEPT ![p] = @ + 1]
             /\ stage' = [stage EXCEPT ![p] = "accounts"]
    <2>1. holder[Upsert(p)] \in {Nobody, p}
      BY DEF CreateAccount, CanLock
    <2>. QED
      BY <1>1, <1>3, <1>5, <2>1, GotHolds
  <1>. QED
    BY <1>4, <1>5 DEF CreateAccount

LEMMA RecordHolds ==
  ASSUME Types, LockInv, NEW p \in Postings, RecordTransaction(p)
  PROVE  LockInv'
  <1>1. stage[p] = "accounts" /\ HoldsInOrder(p) /\ Upserts(p) \in Seq(Accounts)
    BY PlanTypes DEF RecordTransaction, LockInv
  <1>2. /\ UNCHANGED <<plan, at, accounts>> /\ at \in [Postings -> Nat]
        /\ at[p] > Len(Upserts(p))
    BY DEF RecordTransaction, LockInv, Upserts
  <1>3. CASE End(p, "rejected")
    BY <1>2, <1>3, EndHolds DEF LockInv
  <1>4. ASSUME NEW s \in {"found", "inserting"},
               stage' = [stage EXCEPT ![p] = s], UNCHANGED holder
        PROVE  LockInv'
    <2>1. stage'[p] = s /\ Upserts(p)' = Upserts(p)
      BY <1>2, <1>4 DEF Types, Upserts
    <2>2. \A i \in DOMAIN Upserts(p) : i < at[p]
      BY <1>1, <1>2
    <2>3. \A i \in DOMAIN Upserts(p) :
            Upserts(p)[i] \in accounts \/ holder[Upserts(p)[i]] = p
      BY <1>1, <2>2 DEF HoldsInOrder
    <2>4. \A a \in accounts : holder[a] # p
      BY <1>1 DEF HoldsInOrder
    <2>5. HoldsInOrder(p)'
      BY <1>2, <1>4, <2>1, <2>3, <2>4 DEF HoldsInOrder, InFlight
    <2>. QED
      BY <1>2, <1>4, <2>5, StageHolds DEF Stage
  <1>. QED
    BY <1>3, <1>4 DEF RecordTransaction

LEMMA CreateHolds ==
  ASSUME LedgerInv, LockInv, NEW p \in Postings, CreateTransaction(p)
  PROVE  LockInv'
  <1>1. /\ Types /\ HoldsInOrder(p) /\ stage[p] = "inserting"
        /\ UNCHANGED <<plan, accounts>>
    BY DEF LedgerInv, LockInv, CreateTransaction
  <1>2. Entries(p) \in Seq(Entry) /\ Len(Entries(p)) >= 2
    BY <1>1, PlanTypes DEF LedgerInv, KeysHeld, Valid
  <1>3. CASE End(p, "failed") /\ UNCHANGED at
    BY <1>1, <1>3, EndHolds DEF LockInv
  <1>4. CASE /\ stage' = [stage EXCEPT ![p] = "entries"]
             /\ at' = [at EXCEPT ![p] = 1]
             /\ UNCHANGED holder
    <2>1. stage'[p] = "entries" /\ at'[p] = 1
      BY <1>1, <1>4 DEF Types, LockInv
    <2>2. Upserts(p)' = Upserts(p) /\ Entries(p)' = Entries(p)
      BY <1>1 DEF Upserts, Entries
    <2>3. at'[p] \in DOMAIN Entries(p)
      BY <1>2, <2>1
    <2>4. HoldsInOrder(p)'
      BY <1>1, <1>4, <2>1, <2>2, <2>3 DEF HoldsInOrder, InFlight
    <2>5. at' \in [Postings -> Nat] /\ \A q \in Postings \ {p} : at'[q] = at[q]
      BY <1>4 DEF LockInv
    <2>. QED
      BY <1>1, <1>4, <2>4, <2>5, StageHolds DEF Stage
  <1>. QED
    BY <1>3, <1>4 DEF CreateTransaction

\* An entry adds the account it moves to those p holds.
LEMMA ApplyHolds ==
  ASSUME Types, LockInv, NEW p \in Postings, ApplyEntry(p)
  PROVE  LockInv'
  <1> DEFINE a0 == Entries(p)[at[p]].account
  <1>1. /\ stage[p] = "entries" /\ HoldsInOrder(p)
        /\ UNCHANGED <<plan, accounts>>
    BY DEF LockInv, ApplyEntry
  <1>2. Entries(p) \in Seq(Entry) /\ at[p] \in DOMAIN Entries(p)
    BY <1>1, PlanTypes DEF HoldsInOrder
  <1>3. at' = [at EXCEPT ![p] = @ + 1] /\ at[p] \in Nat
    BY DEF ApplyEntry, LockInv
  <1>4. /\ at' \in [Postings -> Nat] /\ at'[p] = at[p] + 1
        /\ \A q \in Postings \ {p} : at'[q] = at[q]
    BY <1>3 DEF LockInv
  <1>5. a0 \in Accounts
    <2>1. Entries(p)[at[p]] \in Entry
      BY <1>2
    <2>. QED
      BY <2>1 DEF Entry
  <1>6. CASE End(p, "rejected")
    BY <1>1, <1>4, <1>6, EndHolds DEF LockInv
  <1>7. ASSUME holder' = [holder EXCEPT ![a0] = p], CanLock(p, a0),
               stage' = [stage EXCEPT ![p] =
                           IF at[p] = Len(Entries(p)) THEN "written" ELSE @]
        PROVE  LockInv'
    <2>1. /\ holder' \in [Accounts -> Postings \cup {Nobody}] /\ holder'[a0] = p
          /\ \A a \in Accounts : a # a0 => holder'[a] = holder[a]
      BY <1>5, <1>7 DEF LockInv
    <2>2. \A q \in Postings \ {p} :
            stage'[q] = stage[q] /\ plan'[q] = plan[q] /\ at'[q] = at[q]
      BY <1>1, <1>4, <1>7 DEF Types
    <2>3. \A a \in Accounts : \A q \in Postings \ {p} :
            holder'[a] = q <=> holder[a] = q
      BY <1>7, <2>1, NobodyAssumption DEF CanLock
    <2>4. /\ stage'[p] \in {"entries", "written"}
          /\ stage'[p] = "entries" => at[p] # Len(Entries(p))
      BY <1>1, <1>7 DEF Types
    <2>5. Upserts(p)' = Upserts(p) /\ Entries(p)' = Entries(p)
      BY <1>1 DEF Upserts, Entries
    <2>6. stage'[p] = "entries" => at'[p] \in DOMAIN Entries(p)
      BY <1>2, <1>3, <1>4, <2>4
    <2>7. \A i \in DOMAIN Upserts(p) :
            Upserts(p)[i] \in accounts \/ holder'[Upserts(p)[i]] = p
      <3>1. \A i \in DOMAIN Upserts(p) :
              /\ Upserts(p)[i] \in Accounts
              /\ Upserts(p)[i] \in accounts \/ holder[Upserts(p)[i]] = p
        BY <1>1, PlanTypes DEF HoldsInOrder
      <3>. QED
        BY <2>1, <3>1
    <2>8. ASSUME NEW a \in accounts, holder'[a] = p
          PROVE  \E i \in DOMAIN Entries(p) :
                   i < at[p] + 1 /\ Entries(p)[i].account = a
      <3>1. CASE a = a0
        BY <1>2, <1>3, <3>1
      <3>2. CASE a # a0
        <4>1. a \in Accounts /\ holder[a] = p
          BY <2>1, <2>8, <3>2 DEF LockInv
        <4>2. PICK i \in DOMAIN Entries(p) : i < at[p] /\ Entries(p)[i].account = a
          BY <1>1, <4>1 DEF HoldsInOrder
        <4>3. i \in Nat
          BY <1>2
        <4>4. i < at[p] + 1
          BY <1>3, <4>2, <4>3
        <4>. QED
          BY <4>2, <4>4
      <3>. QED
        BY <3>1, <3>2
    <2>9. HoldsInOrder(p)'
      BY <1>1, <1>4, <2>4, <2>5, <2>6, <2>7, <2>8 DEF HoldsInOrder, InFlight
    <2>10. \A q \in Postings \ {p} : HoldsInOrder(q)'
      BY <1>1, <2>2, <2>3, OthersHold DEF LockInv
    <2>. QED
      BY <1>1, <1>4, <2>1, <2>9, <2>10 DEF LockInv
  <1>. QED
    BY <1>6, <1>7 DEF ApplyEntry

\* What p commits it has read or created itself.
LEMMA CommitHolds ==
  ASSUME Types, LockInv, NEW p \in Postings, Commit(p)
  PROVE  LockInv'
  <1>1. PICK s \in {"done", "failed"} : End(p, s)
    BY DEF Commit
  <1>2. /\ UNCHANGED <<plan, at>> /\ at \in [Postings -> Nat]
        /\ stage[p] \in {"written", "found"} /\ HoldsInOrder(p)
    BY DEF Commit, LockInv
  <1>3. \A i \in DOMAIN Upserts(p) :
          /\ Upserts(p)[i] \in Accounts
          /\ Upserts(p)[i] \in accounts \/ holder[Upserts(p)[i]] = p
    BY <1>2, PlanTypes DEF HoldsInOrder
  <1>4. accounts' = accounts \cup {Upserts(p)[i] : i \in DOMAIN Upserts(p)}
    BY DEF Commit, Visible, Upserts
  <1>5. /\ accounts \subseteq accounts' /\ accounts' \subseteq Accounts
        /\ \A a \in accounts' \ accounts : \A q \in Postings \ {p} : holder[a] # q
    BY <1>3, <1>4 DEF LockInv
  <1>. QED
    BY <1>1, <1>2, <1>5, EndHolds

LEMMA LockStep == LedgerInv /\ LockInv /\ [Next]_vars => LockInv'
  <1>1. SUFFICES ASSUME LedgerInv, LockInv, [Next]_vars PROVE LockInv'
    OBVIOUS
  <1>2. Types
    BY <1>1 DEF LedgerInv
  <1>3. CASE UNCHANGED vars
    <2>1. \A p : Upserts(p)' = Upserts(p) /\ Entries(p)' = Entries(p)
      BY <1>3 DEF vars, Upserts, Entries
    <2>2. UNCHANGED <<holder, stage, at, accounts>>
      BY <1>3 DEF vars
    <2>. QED
      BY <1>1, <2>1, <2>2 DEF LockInv, HoldsInOrder, InFlight
  <1>4. CASE Next
    <2>1. PICK p \in Postings :
            (\E pl \in Plans : Begin(p, pl)) \/ Step(p) \/ Rollback(p)
      BY <1>4 DEF Next
    <2>2. CASE \E pl \in Plans : Begin(p, pl)
      BY <1>1, <1>2, <2>2, BeginHolds
    <2>3. CASE UpsertAccount(p)
      BY <1>1, <1>2, <2>3, UpsertHolds
    <2>4. CASE CreateAccount(p)
      BY <1>1, <1>2, <2>4, CreateAccountHolds
    <2>5. CASE RecordTransaction(p)
      BY <1>1, <1>2, <2>5, RecordHolds
    <2>6. CASE CreateTransaction(p)
      BY <1>1, <2>6, CreateHolds
    <2>7. CASE ApplyEntry(p)
      BY <1>1, <1>2, <2>7, ApplyHolds
    <2>8. CASE Commit(p)
      BY <1>1, <1>2, <2>8, CommitHolds
    <2>9. CASE Rollback(p)
      BY <1>1, <1>2, <2>9, EndHolds DEF Rollback, LockInv
    <2>. QED
      BY <2>1, <2>2, <2>3, <2>4, <2>5, <2>6, <2>7, <2>8, <2>9 DEF Step
  <1>. QED
    BY <1>1, <1>3, <1>4

Waits(p) == \E q \in Postings : WaitsFor(p, q)

\* An entry of a caller waits for one whose first entry moved its account
\* and whose second waits too, if it waits at all.
LEMMA EntryWaitsForEntry ==
  ASSUME Types, LockInv, \A pl \in Plans : Caller(pl),
         NEW p \in Postings, NEW q \in Postings,
         stage[p] = "entries", WaitsFor(p, q), Waits(q)
  PROVE  stage[q] = "entries" /\ at[q] = 2 /\ First(q) = Target(p)
  <1>1. HoldsInOrder(p) /\ HoldsInOrder(q) /\ plan[p] \in Plans
    BY PlanTypes DEF LockInv
  <1>2. p # q /\ Target(p) \in Visible(p) /\ holder[Target(p)] = q
    BY DEF WaitsFor
  <1>3. Target(p) \in accounts
    BY <1>1, <1>2 DEF HoldsInOrder, Visible, Upserts
  <1>4. stage[q] = "entries"
    BY <1>1, <1>2, <1>3 DEF HoldsInOrder, Waits, WaitsFor
  <1>5. PICK i \in DOMAIN Entries(q) : i < at[q] /\ Entries(q)[i].account = Target(p)
    BY <1>1, <1>2, <1>3, <1>4 DEF HoldsInOrder
  <1>6. at[q] \in DOMAIN Entries(q) /\ DOMAIN Entries(q) = 1 .. 2
    <2>1. plan[q] \in Plans
      BY <1>4, PlanTypes
    <2>. QED
      BY <1>1, <1>4, <2>1, CallersUpsert DEF HoldsInOrder, Entries
  <1>7. i = 1 /\ at[q] = 2
    BY <1>5, <1>6
  <1>. QED
    BY <1>4, <1>5, <1>7 DEF First

\* In a circle somebody is at its entries: upserts wait upwards in Rank, and
\* an insert waits for one that applies its own entries.
LEMMA CircleHasEntry ==
  ASSUME Types, LockInv, \A pl \in Plans : Caller(pl),
         NEW S \in SUBSET Postings, Circle(S)
  PROVE  \E p \in S : stage[p] = "entries"
  <1> DEFINE Wants(p) == Rank(Upsert(p))
  <1>1. SUFFICES ASSUME \A p \in S : stage[p] # "entries" PROVE FALSE
    OBVIOUS
  <1>2. \A p \in S : \E q \in S : WaitsFor(p, q)
    BY DEF Circle
  <1>3. \A p \in S : stage[p] = "opening"
    BY <1>1, <1>2 DEF WaitsFor
  <1>4. ASSUME NEW p \in S, NEW q \in S, WaitsFor(p, q)
        PROVE  Wants(q) > Wants(p)
    <2>1. /\ HoldsInOrder(p) /\ HoldsInOrder(q)
          /\ Upserts(p) \in Seq(Accounts) /\ Upserts(q) \in Seq(Accounts)
          /\ Caller(plan[q])
      BY <1>3, PlanTypes DEF LockInv
    <2>2. at[p] \in DOMAIN Upserts(p) /\ at[q] \in DOMAIN Upserts(q)
      BY <1>3, <2>1 DEF HoldsInOrder
    <2>3. holder[Upsert(p)] = q /\ Upsert(p) \in Accounts
      BY <1>3, <1>4, <2>1, <2>2 DEF WaitsFor, Upsert, Upserts
    <2>4. PICK i \in DOMAIN Upserts(q) : i < at[q] /\ Upserts(q)[i] = Upsert(p)
      BY <1>3, <2>1, <2>3 DEF HoldsInOrder
    <2>5. Rank(Upserts(q)[i]) < Rank(Upserts(q)[at[q]])
      BY <2>1, <2>2, <2>4, CallersUpsert DEF Upserts
    <2>6. \A a : Rank(a) \in Nat
      BY DEF Rank
    <2>. QED
      BY <2>4, <2>5, <2>6 DEF Upsert, Upserts
  <1>5. \A p \in S : Wants(p) \in 1 .. 3
    BY DEF Rank
  <1>6. \E p \in S : \A q \in S : Wants(p) >= Wants(q)
    <2> HIDE DEF Wants
    <2>. QED
      BY <1>5 DEF Circle
  <1>7. PICK p \in S : \A q \in S : Wants(p) >= Wants(q)
    BY <1>6
  <1>8. PICK q \in S : WaitsFor(p, q)
    BY <1>2
  <1>9. Wants(q) > Wants(p) /\ Wants(p) >= Wants(q)
    BY <1>4, <1>7, <1>8
  <1>. QED
    BY <1>5, <1>9

\* From there, the one it waits for, and the next: after a reversal comes a
\* WON, after a WON a reversal, and after a LOST a WON.
LEMMA CircleIsOpposed ==
  ASSUME Types, LockInv, \A pl \in Plans : Caller(pl),
         NEW S \in SUBSET Postings, Circle(S)
  PROVE  \E p, q \in S : Opposed(p, q)
  <1> DEFINE At(q) == /\ stage[q] = "entries" /\ at[q] = 2
                      /\ holder[First(q)] = q
             Second(q) == Entries(q)[2].account
  <1>1. ASSUME NEW p \in S, stage[p] = "entries"
        PROVE  \E q \in S : WaitsFor(p, q) /\ At(q) /\ First(q) = Target(p)
    <2>1. PICK q \in S : WaitsFor(p, q)
      BY DEF Circle
    <2>2. Waits(q)
      BY DEF Circle, Waits
    <2>. QED
      BY <1>1, <2>1, <2>2, EntryWaitsForEntry DEF WaitsFor
  <1>2. ASSUME NEW q \in S, At(q)
        PROVE  /\ Target(q) = Second(q)
               /\ Target(q) \in Visible(q)
               /\ \E u \in Users :
                    \/ First(q) = Revenue /\ Second(q) = <<u, "ASSET">>
                    \/ First(q) = <<u, "ASSET">> /\ Second(q) = Revenue
                    \/ First(q) = <<System, "EXPENSE">> /\ Second(q) = <<u, "ASSET">>
    <2>1. Caller(plan[q])
      BY <1>2, PlanTypes
    <2>2. PICK r \in S : WaitsFor(q, r)
      BY DEF Circle
    <2>3. Target(q) \in Visible(q)
      BY <1>2, <2>2 DEF WaitsFor
    <2>. QED
      BY <1>2, <2>1, <2>3, CallersPost DEF Target, First, Entries
  <1>3. ASSUME NEW q \in S, At(q), First(q) = Revenue
        PROVE  \E r \in S : Opposed(q, r)
    <2>1. PICK u \in Users : Target(q) = <<u, "ASSET">>
      BY <1>2, <1>3 DEF Revenue
    <2>2. PICK r \in S : WaitsFor(q, r) /\ At(r) /\ First(r) = Target(q)
      BY <1>1, <1>3
    <2>3. Target(r) = Revenue /\ Target(r) \in Visible(r)
      BY <1>2, <2>1, <2>2 DEF Revenue
    <2>4. WaitsFor(r, q)
      BY <1>3, <2>2, <2>3 DEF WaitsFor
    <2>. QED
      BY <1>3, <2>1, <2>2, <2>3, <2>4 DEF Opposed, Revenue
  <1>4. ASSUME NEW q \in S, At(q), Second(q) = Revenue
        PROVE  \E r, t \in S : Opposed(r, t)
    <2>1. PICK r \in S : At(r) /\ First(r) = Target(q)
      BY <1>1, <1>4
    <2>. QED
      BY <1>2, <1>3, <1>4, <2>1
  <1>5. PICK p \in S : stage[p] = "entries"
    BY CircleHasEntry
  <1>6. PICK q \in S : At(q)
    BY <1>1, <1>5
  <1>7. CASE \E u \in Users : Second(q) = <<u, "ASSET">>
    <2>1. PICK r \in S : At(r) /\ First(r) = Second(q)
      BY <1>1, <1>2, <1>6
    <2>2. Second(r) = Revenue
      BY <1>2, <1>7, <2>1 DEF Revenue
    <2>. QED
      BY <1>4, <2>1, <2>2
  <1>. QED
    BY <1>2, <1>4, <1>6, <1>7

\* Whatever transactions of the callers run together, a circle of them that
\* wait for each other contains a reversal and a WON of one user that do.
THEOREM CirclesNeedOpposites ==
  ASSUME \A pl \in Plans : Caller(pl)
  PROVE  Spec => []CirclesAreOpposed
  <1>1. Init => LockInv
    BY NobodyAssumption, SeededAssumption DEF Init, LockInv, HoldsInOrder, InFlight
  <1>2. LedgerInv /\ LockInv => CirclesAreOpposed
    BY CircleIsOpposed DEF CirclesAreOpposed, LedgerInv
  <1>. QED
    BY <1>1, <1>2, LockStep, LedgerInvariant, PTL DEF Spec
-----------------------------------------------------------------------------
(* The balances are the sums of what was posted. *)

Changes(entries) == [i \in DOMAIN entries |-> BalanceChange(entries[i])]

EntriesOn(entries, a) == {i \in DOMAIN entries : entries[i].account = a}

\* What a posting is asked to do to one account is an integer.
LEMMA MovementType ==
  ASSUME NEW entries \in Seq(Entry)
  PROVE  /\ IsFiniteSet(DOMAIN entries)
         /\ \A i \in DOMAIN entries : Changes(entries)[i] \in Int
         /\ \A a \in Accounts :
              /\ Movement(entries)[a] =
                   SumFunctionOnSet(Changes(entries), EntriesOn(entries, a))
              /\ Movement(entries)[a] \in Int
  <1>1. IsFiniteSet(DOMAIN entries)
    <2>1. Len(entries) \in Nat /\ DOMAIN entries = 1 .. Len(entries)
      OBVIOUS
    <2>. QED
      BY <2>1, FS_Interval
  <1>2. \A i \in DOMAIN entries : Changes(entries)[i] \in Int
    <2>1. ASSUME NEW i \in DOMAIN entries PROVE Changes(entries)[i] \in Int
      <3>1. entries[i] \in Entry
        OBVIOUS
      <3>2. entries[i].amount \in Int
        BY <3>1 DEF Entry
      <3>. QED
        BY <3>2 DEF Changes, BalanceChange
    <2>. QED
      BY <2>1
  <1>3. ASSUME NEW a \in Accounts
        PROVE  /\ Movement(entries)[a] =
                    SumFunctionOnSet(Changes(entries), EntriesOn(entries, a))
               /\ Movement(entries)[a] \in Int
    <2>1. Movement(entries)[a] =
            SumFunctionOnSet(Changes(entries), EntriesOn(entries, a))
      BY DEF Movement, Changes, EntriesOn
    <2>2. EntriesOn(entries, a) \in SUBSET DOMAIN entries
      BY DEF EntriesOn
    <2>3. IsFiniteSet(EntriesOn(entries, a))
      BY <1>1, <2>2, FS_Subset
    <2>4. SumFunctionOnSet(Changes(entries), EntriesOn(entries, a)) \in Int
      BY <1>2, <2>2, <2>3, SumType
    <2>. QED
      BY <2>1, <2>4
  <1>. QED
    BY <1>1, <1>2, <1>3

\* What the posting p adds to the account a.
Adds(a) == [p \in posted |-> Movement(Entries(p))[a]]

BookInv ==
  /\ TypeOK
  /\ IsFiniteSet(posted)
  /\ \A a \in Accounts : balance[a] = SumFunctionOnSet(Adds(a), posted)

\* Types and finiteness through the steps that commit nothing.
LEMMA QuietBook ==
  ASSUME LedgerInv, BookInv, NEW p \in Postings,
         \/ \E pl \in Plans : Begin(p, pl)
         \/ UpsertAccount(p) \/ CreateAccount(p) \/ RecordTransaction(p)
         \/ CreateTransaction(p) \/ ApplyEntry(p) \/ Rollback(p)
  PROVE  BookInv'
  <1>1. TypeOK /\ Types' /\ Types
    BY LedgerStep DEF BookInv, LedgerInv, Next, Step
  <1>2. UNCHANGED <<balance, posted, accounts>>
    BY DEF Begin, UpsertAccount, CreateAccount, RecordTransaction,
           CreateTransaction, ApplyEntry, Rollback
  <1>3. \A q \in posted : plan'[q] = plan[q]
    BY DEF LedgerInv, Types, PostedStages, Begin, UpsertAccount, CreateAccount,
           RecordTransaction, CreateTransaction, ApplyEntry, Rollback
  <1>4. \A a : Adds(a)' = Adds(a)
    BY <1>2, <1>3 DEF Adds, Entries
  <1>5. at' \in [Postings -> Nat]
    <2>1. at \in [Postings -> Nat] /\ at[p] + 1 \in Nat
      BY <1>1 DEF TypeOK
    <2>2. CASE at' = at
      BY <2>1, <2>2
    <2>3. CASE at' = [at EXCEPT ![p] = at[p] + 1] \/ at' = [at EXCEPT ![p] = 1]
      BY <2>1, <2>3
    <2>4. \/ at' = at
          \/ at' = [at EXCEPT ![p] = at[p] + 1] \/ at' = [at EXCEPT ![p] = 1]
      BY DEF Begin, UpsertAccount, CreateAccount, RecordTransaction,
             CreateTransaction, ApplyEntry, Rollback
    <2>. QED
      BY <2>2, <2>3, <2>4
  <1>6. \A s : End(p, s) => holder' \in [Accounts -> Postings \cup {Nobody}]
    BY <1>1 DEF TypeOK, End, Released
  <1>7. holder' \in [Accounts -> Postings \cup {Nobody}]
    BY <1>1, <1>6
    DEF TypeOK, Begin, UpsertAccount, CreateAccount, RecordTransaction,
           CreateTransaction, ApplyEntry, Rollback
  <1>8. TypeOK'
    BY <1>1, <1>2, <1>5, <1>7 DEF TypeOK, Types
  <1>. QED
    BY <1>2, <1>4, <1>8 DEF BookInv

\* A commit adds the movement of a posting that was not in the book.
LEMMA CommitBook ==
  ASSUME LedgerInv, BookInv, NEW p \in Postings, Commit(p)
  PROVE  BookInv'
  <1>1. TypeOK /\ Types' /\ Types /\ PostedStages
    BY LedgerStep DEF BookInv, LedgerInv, Next, Step
  <1>2. UNCHANGED <<plan, at>> /\ stage[p] \in {"written", "found"}
    BY DEF Commit
  <1>3. holder' \in [Accounts -> Postings \cup {Nobody}]
    BY <1>1 DEF Commit, TypeOK, End, Released
  <1>4. Entries(p) \in Seq(Entry) /\ Upserts(p) \in Seq(Accounts)
    BY <1>1, <1>2, PlanTypes
  <1>5. accounts' \in SUBSET Accounts
    <2>1. \A i \in DOMAIN Upserts(p) : Upserts(p)[i] \in Accounts
      BY <1>4
    <2>. QED
      BY <1>1, <2>1 DEF Commit, Visible, TypeOK, Upserts
  <1>6. CASE stage[p] = "found"
    <2>1. UNCHANGED <<posted, balance>>
      BY <1>6 DEF Commit
    <2>2. \A a : Adds(a)' = Adds(a)
      BY <1>2, <2>1 DEF Adds, Entries
    <2>3. TypeOK'
      BY <1>1, <1>2, <1>3, <1>5, <2>1 DEF TypeOK, Types
    <2>. QED
      BY <2>1, <2>2, <2>3 DEF BookInv
  <1>7. CASE stage[p] = "written"
    <2> DEFINE m == Movement(Entries(p))
    <2>1. /\ posted' = posted \cup {p}
          /\ balance' = [a \in Accounts |-> balance[a] + m[a]]
      BY <1>7 DEF Commit
    <2>2. p \notin posted
      BY <1>1, <1>7 DEF PostedStages
    <2>3. IsFiniteSet(posted')
      BY <2>1, FS_AddElement DEF BookInv
    <2>4. \A a \in Accounts : m[a] \in Int
      BY <1>4, MovementType
    <2>5. TypeOK'
      <3> HIDE DEF m
      <3>1. balance' \in [Accounts -> Int]
        BY <1>1, <2>1, <2>4 DEF TypeOK
      <3>. QED
        BY <1>1, <1>2, <1>3, <1>5, <3>1 DEF TypeOK, Types
    <2>6. ASSUME NEW a \in Accounts
          PROVE  balance'[a] = SumFunctionOnSet(Adds(a)', posted')
      <3>1. \A q \in posted : Adds(a)'[q] = Adds(a)[q] /\ Adds(a)[q] \in Int
        <4>1. ASSUME NEW q \in posted
              PROVE  Adds(a)'[q] = Adds(a)[q] /\ Adds(a)[q] \in Int
          <5>1. q \in Postings /\ stage[q] # "new"
            BY <1>1 DEF PostedStages, Types
          <5>2. Movement(Entries(q))[a] \in Int
            BY <1>1, <5>1, PlanTypes, MovementType
          <5>. QED
            BY <1>2, <2>1, <5>2 DEF Adds, Entries
        <4>. QED
          BY <4>1
      <3>2. Adds(a)'[p] = m[a]
        BY <1>2, <2>1 DEF Adds, Entries
      <3> HIDE DEF m
      <3>3. SumFunctionOnSet(Adds(a)', posted \cup {p}) =
              SumFunctionOnSet(Adds(a), posted) + m[a]
        <4> DEFINE f == Adds(a)
                   g == Adds(a)'
        <4>1. /\ \A q \in posted : f[q] \in Int /\ g[q] = f[q]
              /\ g[p] = m[a] /\ g[p] \in Int /\ IsFiniteSet(posted)
          BY <2>4, <3>1, <3>2 DEF BookInv
        <4> HIDE DEF f, g
        <4>2. SumFunctionOnSet(g, posted \cup {p}) =
                SumFunctionOnSet(f, posted) + g[p]
          BY <2>2, <4>1, SumGrows
        <4>. QED
          BY <4>1, <4>2 DEF f, g
      <3>4. balance'[a] = balance[a] + m[a]
        BY <2>1
      <3>. QED
        BY <2>1, <3>3, <3>4 DEF BookInv
    <2>. QED
      BY <2>3, <2>5, <2>6 DEF BookInv
  <1>. QED
    BY <1>2, <1>6, <1>7

LEMMA BookStep == LedgerInv /\ BookInv /\ [Next]_vars => BookInv'
  <1> SUFFICES ASSUME LedgerInv, BookInv, [Next]_vars PROVE BookInv'
    OBVIOUS
  <1>1. CASE UNCHANGED vars
    BY <1>1 DEF vars, BookInv, TypeOK, Adds, Entries
  <1>2. CASE Next
    BY <1>2, QuietBook, CommitBook DEF Next, Step
  <1>. QED
    BY <1>1, <1>2

\* The ledger's tables and transactions keep their types, and the balances
\* are what the committed postings add up to.
LEMMA BookInvariant == Spec => []BookInv
  <1>1. Init => BookInv
    <2>1. SUFFICES ASSUME Init PROVE BookInv
      OBVIOUS
    <2>2. TypeOK
      BY <2>1, SeededAssumption DEF Init, TypeOK, Stage
    <2>3. posted = {} /\ \A a \in Accounts : balance[a] = 0
      BY <2>1 DEF Init
    <2>. QED
      BY <2>2, <2>3, FS_EmptySet, SumOfNothing DEF BookInv
  <1>. QED
    BY <1>1, BookStep, LedgerInvariant, PTL DEF Spec

\* Type correctness of the ledger's tables and of its callers' transactions:
\* balances, being sums of validated entries, are integers.
THEOREM LedgerTypes == Spec => []TypeOK
  BY BookInvariant, PTL DEF BookInv

\* ledger_accounts.balance is the sum of the entries of the committed
\* ledger_transactions, whatever else was tried, rolled back or found.
THEOREM EntriesExplainBalances == Spec => []BalanceMatchesEntries
  <1>1. BookInv => BalanceMatchesEntries
    <2>1. \A a : DOMAIN Adds(a) = posted
      BY DEF Adds
    <2>. QED
      BY <2>1 DEF BookInv, BalanceMatchesEntries, SumFunction, Adds
  <1>. QED
    BY <1>1, BookInvariant, PTL
-----------------------------------------------------------------------------
(* The trial balance. *)

\* An account's share in the trial balance, and what a posting adds to it.
Share(a, n) == IF DebitNormal(a) THEN n ELSE -n

Holdings == [a \in Accounts |-> IF DebitNormal(a) THEN balance[a] ELSE -balance[a]]

Shifts(entries) == [a \in Accounts |-> Share(a, Movement(entries)[a])]

\* An entry's share: debits count up, credits down.
Sided(entries) ==
  [i \in DOMAIN entries |->
     IF entries[i].side = "DEBIT" THEN entries[i].amount ELSE -entries[i].amount]

LEMMA SidedType ==
  ASSUME NEW entries \in Seq(Entry), NEW i \in DOMAIN entries
  PROVE  /\ entries[i].amount \in Int
         /\ entries[i].side \in {"DEBIT", "CREDIT"}
         /\ Sided(entries)[i] \in Int
  <1>1. entries[i] \in Entry
    OBVIOUS
  <1>2. entries[i].amount \in Int /\ entries[i].side \in {"DEBIT", "CREDIT"}
    BY <1>1 DEF Entry
  <1>. QED
    BY <1>2 DEF Sided

\* The shares of balanced entries cancel.
LEMMA SidesCancel ==
  ASSUME NEW entries \in Seq(Entry), Balanced(entries)
  PROVE  SumFunctionOnSet(Sided(entries), DOMAIN entries) = 0
  <1> DEFINE D == DOMAIN entries
             f == Sided(entries)
             amounts == [i \in D |-> entries[i].amount]
             group == [i \in D |-> entries[i].side]
             On(s) == {i \in D : group[i] = s}
             both == {"DEBIT", "CREDIT"}
             sub == [s \in both |-> SumFunctionOnSet(f, On(s))]
  <1>1. IsFiniteSet(D) /\ IsFiniteSet(both)
    <2>1. IsFiniteSet({"DEBIT"})
      BY FS_Singleton
    <2>2. IsFiniteSet({"DEBIT"} \cup {"CREDIT"})
      BY <2>1, FS_AddElement
    <2>3. both = {"DEBIT"} \cup {"CREDIT"}
      OBVIOUS
    <2>4. IsFiniteSet(D)
      BY MovementType
    <2>. QED
      BY <2>2, <2>3, <2>4
  <1>2. \A s : IsFiniteSet(On(s))
    BY <1>1, FS_Subset
  <1>3. \A i \in D : f[i] \in Int /\ group[i] \in both /\ amounts[i] \in Int
    BY SidedType
  <1>4. SumFunctionOnSet(f, D) = SumFunctionOnSet(sub, both)
    <2> HIDE DEF f, group, D, both
    <2>. QED
      BY <1>1, <1>3, SumByGroup
  <1>5. /\ SumFunctionOnSet(amounts, On("DEBIT")) = Total(entries, "DEBIT")
        /\ SumFunctionOnSet(amounts, On("CREDIT")) = Total(entries, "CREDIT")
    <2>1. \A s : On(s) = {i \in D : entries[i].side = s}
      OBVIOUS
    <2>. QED
      BY <2>1 DEF Total
  <1>6. /\ Total(entries, "DEBIT") \in Int
        /\ Total(entries, "CREDIT") = Total(entries, "DEBIT")
    <2>1. \A i \in On("DEBIT") : amounts[i] \in Int
      BY <1>3
    <2> HIDE DEF On, amounts
    <2>2. SumFunctionOnSet(amounts, On("DEBIT")) \in Int
      BY <1>2, <2>1, SumType
    <2>. QED
      BY <1>5, <2>2 DEF Balanced
  <1>7. sub["DEBIT"] = Total(entries, "DEBIT")
    <2>1. \A i \in On("DEBIT") : f[i] = amounts[i]
      BY DEF Sided
    <2>2. SumFunctionOnSet(f, On("DEBIT")) = SumFunctionOnSet(amounts, On("DEBIT"))
      <3> HIDE DEF f, amounts, On
      <3>. QED
        BY <1>2, <2>1, SumSame
    <2>. QED
      BY <1>5, <2>2
  <1>8. sub["CREDIT"] = -Total(entries, "CREDIT")
    <2>1. \A i \in On("CREDIT") : amounts[i] \in Int /\ f[i] = -amounts[i]
      BY <1>3 DEF Sided
    <2>2. SumFunctionOnSet(f, On("CREDIT")) = -SumFunctionOnSet(amounts, On("CREDIT"))
      <3> HIDE DEF f, amounts, On
      <3>. QED
        BY <1>2, <2>1, SumOfOpposites
    <2>. QED
      BY <1>5, <2>2
  <1>9. sub["DEBIT"] \in Int /\ sub["CREDIT"] \in Int /\ sub["DEBIT"] + sub["CREDIT"] = 0
    BY <1>6, <1>7, <1>8
  <1>10. SumFunctionOnSet(sub, both) = sub["DEBIT"] + sub["CREDIT"]
    <2> HIDE DEF sub
    <2>. QED
      BY <1>9, SumOfTwo
  <1>. QED
    BY <1>4, <1>9, <1>10

\* Hence a balanced posting leaves the trial balance as it is, over any
\* accounts that include those of its entries.
LEMMA ShiftsCancel ==
  ASSUME NEW entries \in Seq(Entry), Balanced(entries),
         NEW A \in SUBSET Accounts, IsFiniteSet(A),
         \A i \in DOMAIN entries : entries[i].account \in A
  PROVE  SumFunctionOnSet(Shifts(entries), A) = 0
  <1> DEFINE D == DOMAIN entries
             f == Sided(entries)
             group == [i \in D |-> entries[i].account]
             On(a) == {i \in D : group[i] = a}
             sub == [a \in A |-> SumFunctionOnSet(f, On(a))]
  <1>1. IsFiniteSet(D) /\ \A a : IsFiniteSet(On(a))
    BY MovementType, FS_Subset
  <1>2. \A i \in D : f[i] \in Int /\ group[i] \in A
    BY SidedType
  <1>3. SumFunctionOnSet(f, D) = SumFunctionOnSet(sub, A)
    <2> HIDE DEF f, group, D
    <2>. QED
      BY <1>1, <1>2, SumByGroup
  <1>4. ASSUME NEW a \in A PROVE Shifts(entries)[a] = sub[a]
    <2> DEFINE c == Changes(entries)
    <2>1. On(a) = EntriesOn(entries, a)
      BY DEF EntriesOn
    <2>2. /\ Movement(entries)[a] = SumFunctionOnSet(c, On(a))
          /\ Movement(entries)[a] \in Int
      BY <2>1, MovementType
    <2>3. \A i \in On(a) : /\ f[i] \in Int
                           /\ entries[i].side \in {"DEBIT", "CREDIT"}
                           /\ entries[i].account = a
      BY SidedType
    <2>4. CASE DebitNormal(a)
      <3>1. \A i \in On(a) : f[i] = c[i]
        BY <2>3, <2>4 DEF Sided, Changes, BalanceChange
      <3>2. SumFunctionOnSet(f, On(a)) = SumFunctionOnSet(c, On(a))
        <4> HIDE DEF f, c, On
        <4>. QED
          BY <1>1, <3>1, SumSame
      <3>. QED
        BY <2>2, <2>4, <3>2 DEF Shifts, Share
    <2>5. CASE ~ DebitNormal(a)
      <3>1. \A i \in On(a) : f[i] \in Int /\ c[i] = -f[i]
        <4>1. ASSUME NEW i \in On(a) PROVE f[i] \in Int /\ c[i] = -f[i]
          <5>1. entries[i].amount \in Int
            BY SidedType
          <5>. QED
            BY <2>3, <2>5, <5>1 DEF Sided, Changes, BalanceChange
        <4>. QED
          BY <4>1
      <3>2. SumFunctionOnSet(c, On(a)) = -SumFunctionOnSet(f, On(a))
        <4> HIDE DEF f, c, On
        <4>. QED
          BY <1>1, <3>1, SumOfOpposites
      <3>3. SumFunctionOnSet(f, On(a)) \in Int
        <4> HIDE DEF f, On
        <4>. QED
          BY <1>1, <3>1, SumType
      <3>. QED
        BY <2>2, <2>5, <3>2, <3>3 DEF Shifts, Share
    <2>. QED
      BY <2>4, <2>5
  <1>5. SumFunctionOnSet(Shifts(entries), A) = SumFunctionOnSet(sub, A)
    <2> HIDE DEF sub
    <2>. QED
      BY <1>4, SumSame
  <1>6. SumFunctionOnSet(f, D) = 0
    BY SidesCancel
  <1>. QED
    BY <1>3, <1>5, <1>6

\* The accounts that p has applied entries to are ones it sees.
Opened(p) ==
  /\ stage[p] = "entries" =>
       \A i \in DOMAIN Entries(p) : i < at[p] => Entries(p)[i].account \in Visible(p)
  /\ stage[p] = "written" =>
       \A i \in DOMAIN Entries(p) : Entries(p)[i].account \in Visible(p)

TrialInv ==
  /\ IsFiniteSet(accounts)
  /\ TrialBalance
  /\ \A a \in Accounts \ accounts : balance[a] = 0
  /\ \A p \in Postings : Opened(p)

\* What is visible are accounts, and finitely many.
LEMMA VisibleType ==
  ASSUME TypeOK, IsFiniteSet(accounts), NEW p \in Postings, stage[p] # "new"
  PROVE  Visible(p) \in SUBSET Accounts /\ IsFiniteSet(Visible(p))
  <1> DEFINE u == Upserts(p)
             T == {u[i] : i \in DOMAIN u}
  <1>1. Types
    BY DEF TypeOK, Types
  <1>2. u \in Seq(Accounts)
    BY <1>1, PlanTypes
  <1> HIDE DEF u
  <1>3. IsFiniteSet(DOMAIN u)
    <2>1. Len(u) \in Nat /\ DOMAIN u = 1 .. Len(u)
      BY <1>2
    <2>. QED
      BY <2>1, FS_Interval
  <1>4. u \in Surjection(DOMAIN u, T)
    BY <1>2 DEF Surjection
  <1>5. T \in SUBSET Accounts
    BY <1>2
  <1>6. IsFiniteSet(T)
    <2> HIDE DEF T
    <2>. QED
      BY <1>3, <1>4, FS_Surjection
  <1>7. IsFiniteSet(accounts \cup T)
    <2> HIDE DEF T
    <2>. QED
      BY <1>6, FS_Union
  <1>8. Visible(p) = accounts \cup T
    BY DEF Visible, u, Upserts
  <1>. QED
    BY <1>5, <1>7, <1>8 DEF TypeOK

\* The steps of p before its commit: it writes to accounts it sees.
LEMMA QuietTrial ==
  ASSUME LedgerInv, BookInv, TrialInv, NEW p \in Postings,
         \/ \E pl \in Plans : Begin(p, pl)
         \/ UpsertAccount(p) \/ CreateAccount(p) \/ RecordTransaction(p)
         \/ CreateTransaction(p) \/ ApplyEntry(p) \/ Rollback(p)
  PROVE  TrialInv'
  <1>1. TypeOK
    BY DEF BookInv
  <1>2. UNCHANGED <<balance, accounts>>
    BY DEF Begin, UpsertAccount, CreateAccount, RecordTransaction,
           CreateTransaction, ApplyEntry, Rollback
  <1>3. \A q \in Postings \ {p} :
          stage'[q] = stage[q] /\ plan'[q] = plan[q] /\ at'[q] = at[q]
    BY <1>1
    DEF Begin, UpsertAccount, CreateAccount, RecordTransaction,
           CreateTransaction, ApplyEntry, Rollback, End, TypeOK
  <1>4. \A q \in Postings \ {p} : Opened(q)'
    BY <1>2, <1>3 DEF TrialInv, Opened, Entries, Visible
  <1>5. Opened(p)'
    <2>1. CASE stage'[p] \notin {"entries", "written"}
      BY <2>1 DEF Opened
    <2>2. ASSUME stage'[p] \in {"entries", "written"}
          PROVE  CreateTransaction(p) \/ ApplyEntry(p)
      BY <1>1, <2>2
      DEF Begin, UpsertAccount, CreateAccount, RecordTransaction,
           Rollback, End, TypeOK
    <2>3. CASE CreateTransaction(p) /\ stage'[p] = "entries"
      <3>1. at'[p] = 1 /\ Entries(p) \in Seq(Entry) /\ UNCHANGED plan
        <4>1. Types /\ stage[p] # "new"
          BY <1>1, <2>3 DEF CreateTransaction, TypeOK, Types
        <4>2. Entries(p) \in Seq(Entry)
          BY <4>1, PlanTypes
        <4>. QED
          BY <1>1, <2>3, <4>2 DEF CreateTransaction, End, TypeOK
      <3>2. \A i \in DOMAIN Entries(p) : ~ (i < 1)
        BY <3>1
      <3>3. \A i \in DOMAIN Entries(p)' : ~ (i < at'[p])
        BY <3>1, <3>2 DEF Entries
      <3>. QED
        BY <2>3, <3>3 DEF Opened
    <2>4. CASE CreateTransaction(p) /\ stage'[p] = "written"
      BY <1>1, <2>4 DEF CreateTransaction, End, TypeOK
    <2>5. CASE ApplyEntry(p) /\ stage'[p] \in {"entries", "written"}
      <3>1. /\ stage[p] = "entries" /\ UNCHANGED <<plan, accounts>>
            /\ at'[p] = at[p] + 1 /\ at[p] \in Nat
            /\ Entries(p)[at[p]].account \in Visible(p)
            /\ stage'[p] = "written" => at[p] = Len(Entries(p))
        BY <1>1, <2>5 DEF ApplyEntry, End, TypeOK
      <3>2. Entries(p) \in Seq(Entry)
        BY <1>1, <3>1, PlanTypes DEF TypeOK, Types
      <3>3. \A i \in DOMAIN Entries(p) :
              i < at[p] \/ i = at[p] => Entries(p)[i].account \in Visible(p)
        BY <3>1 DEF TrialInv, Opened
      <3>4. \A i \in DOMAIN Entries(p) :
              i < at'[p] => Entries(p)[i].account \in Visible(p)
        BY <3>1, <3>2, <3>3
      <3>5. stage'[p] = "written" => \A i \in DOMAIN Entries(p) : i < at'[p]
        BY <3>1, <3>2
      <3>6. Entries(p)' = Entries(p) /\ Visible(p)' = Visible(p)
        BY <3>1 DEF Entries, Visible
      <3>. QED
        BY <3>4, <3>5, <3>6 DEF Opened
    <2>. QED
      BY <2>1, <2>2, <2>3, <2>4, <2>5
  <1>6. TrialBalance'
    BY <1>2 DEF TrialInv, TrialBalance
  <1>. QED
    BY <1>2, <1>4, <1>5, <1>6 DEF TrialInv

\* A commit: the new rows hold nothing before, and the posting cancels.
LEMMA CommitTrial ==
  ASSUME LedgerInv, BookInv, TrialInv, NEW p \in Postings, Commit(p)
  PROVE  TrialInv'
  <1>1. TypeOK /\ Types /\ KeysHeld
    BY DEF BookInv, LedgerInv
  <1>2. /\ UNCHANGED <<plan, at>> /\ stage[p] \in {"written", "found"}
        /\ accounts' = Visible(p) /\ accounts \subseteq Visible(p)
    BY DEF Commit, Visible
  <1>3. Visible(p) \in SUBSET Accounts /\ IsFiniteSet(Visible(p))
    BY <1>1, <1>2, VisibleType DEF TrialInv
  <1>4. \A a \in Accounts : Holdings[a] \in Int
    BY <1>1 DEF Holdings, TypeOK
  <1>5. \A a \in Accounts \ accounts : Holdings[a] = 0
    BY DEF Holdings, TrialInv
  <1>6. SumFunctionOnSet(Holdings, accounts) = 0
    BY DEF TrialInv, TrialBalance, Holdings
  <1>7. SumFunctionOnSet(Holdings, Visible(p)) = 0
    <2>1. \A a \in accounts : Holdings[a] \in Int
      BY <1>2, <1>3, <1>4
    <2>2. \A a \in Visible(p) \ accounts : Holdings[a] = 0
      BY <1>3, <1>5
    <2> HIDE DEF Holdings
    <2>3. SumFunctionOnSet(Holdings, Visible(p)) = SumFunctionOnSet(Holdings, accounts)
      BY <1>2, <1>3, <2>1, <2>2, SumWithoutZeros
    <2>. QED
      BY <1>6, <2>3
  <1>8. \A q \in Postings : Opened(q)'
    <2>1. ASSUME NEW q \in Postings PROVE Opened(q)'
      <3>1. Entries(q)' = Entries(q) /\ Visible(q) \subseteq Visible(q)'
        BY <1>2 DEF Entries, Visible
      <3>2. stage'[q] \in {"entries", "written"} => stage'[q] = stage[q]
        BY <1>1 DEF Commit, End, TypeOK
      <3>. QED
        BY <1>2, <3>1, <3>2 DEF TrialInv, Opened
    <2>. QED
      BY <2>1
  <1>9. CASE stage[p] = "found"
    <2>1. UNCHANGED balance
      BY <1>9 DEF Commit
    <2>2. Holdings' = Holdings
      BY <2>1 DEF Holdings
    <2>3. TrialBalance'
      BY <1>2, <1>7, <2>2 DEF TrialBalance, Holdings
    <2>. QED
      BY <1>2, <1>3, <1>8, <2>1, <2>3 DEF TrialInv
  <1>10. CASE stage[p] = "written"
    <2> DEFINE e == Entries(p)
               m == Movement(e)
               shift == Shifts(e)
    <2>1. balance' = [a \in Accounts |-> balance[a] + m[a]]
      BY <1>10 DEF Commit
    <2>2. e \in Seq(Entry) /\ Balanced(e)
      BY <1>1, <1>10, PlanTypes DEF KeysHeld, Valid
    <2>3. \A i \in DOMAIN e : e[i].account \in Visible(p)
      BY <1>10 DEF TrialInv, Opened
    <2>4. SumFunctionOnSet(shift, Visible(p)) = 0
      BY <1>3, <2>2, <2>3, ShiftsCancel
    <2>5. \A a \in Accounts : m[a] \in Int /\ balance[a] \in Int
      BY <1>1, <2>2, MovementType DEF TypeOK
    <2>6. \A a \in Accounts :
            shift[a] \in Int /\ Holdings'[a] = Holdings[a] + shift[a]
      <3> HIDE DEF m
      <3>1. ASSUME NEW a \in Accounts
            PROVE  shift[a] \in Int /\ Holdings'[a] = Holdings[a] + shift[a]
        <4>1. balance'[a] = balance[a] + m[a] /\ m[a] \in Int /\ balance[a] \in Int
          BY <2>1, <2>5
        <4>2. shift[a] = IF DebitNormal(a) THEN m[a] ELSE -m[a]
          BY DEF Shifts, Share, m
        <4>3. /\ Holdings[a] = IF DebitNormal(a) THEN balance[a] ELSE -balance[a]
              /\ Holdings'[a] = IF DebitNormal(a) THEN balance'[a] ELSE -balance'[a]
          BY DEF Holdings, DebitNormal
        <4> HIDE DEF shift
        <4>. QED
          BY <4>1, <4>2, <4>3
      <3>. QED
        BY <3>1
    <2>7. SumFunctionOnSet(Holdings', Visible(p)) = 0
      <3> DEFINE f == Holdings
                 h == Holdings'
      <3>1. \A a \in Visible(p) :
              f[a] \in Int /\ shift[a] \in Int /\ h[a] = f[a] + shift[a]
        BY <1>3, <1>4, <2>6
      <3>2. SumFunctionOnSet(f, Visible(p)) = 0
        BY <1>7
      <3> HIDE DEF f, h, shift
      <3>3. SumFunctionOnSet(h, Visible(p)) =
              SumFunctionOnSet(f, Visible(p)) + SumFunctionOnSet(shift, Visible(p))
        BY <1>3, <3>1, SumOfSums
      <3>4. SumFunctionOnSet(h, Visible(p)) = 0
        BY <2>4, <3>2, <3>3
      <3>. QED
        BY <3>4 DEF h
    <2>8. TrialBalance'
      BY <1>2, <2>7 DEF TrialBalance, Holdings, DebitNormal
    <2>9. \A a \in Accounts \ accounts' : balance'[a] = 0
      <3>1. ASSUME NEW a \in Accounts \ Visible(p) PROVE balance'[a] = 0
        <4>1. EntriesOn(e, a) = {}
          BY <2>3, <3>1 DEF EntriesOn
        <4>2. m[a] = 0
          BY <2>2, <4>1, MovementType, SumOfNothing
        <4>3. balance[a] = 0
          BY <1>2, <3>1 DEF TrialInv
        <4> HIDE DEF m
        <4>. QED
          BY <2>1, <4>2, <4>3
      <3>. QED
        BY <1>2, <3>1
    <2>. QED
      BY <1>2, <1>3, <1>8, <2>8, <2>9 DEF TrialInv
  <1>. QED
    BY <1>2, <1>9, <1>10

\* Over the rows of ledger_accounts, what the debit-normal accounts hold is
\* what the others hold: through concurrent postings, rollbacks and retries.
THEOREM BooksAreInBalance == Spec => []TrialBalance
  <1>1. Init => TrialInv
    <2>1. SUFFICES ASSUME Init PROVE TrialInv
      OBVIOUS
    <2>2. /\ accounts \in SUBSET Accounts /\ IsFiniteSet(accounts)
          /\ \A a \in Accounts : balance[a] = 0
      BY <2>1, SeededAssumption, FS_EmptySet DEF Init
    <2>3. TrialBalance
      <3> DEFINE none == {}
      <3>1. \A a \in accounts \ none : Holdings[a] = 0
        BY <2>2 DEF Holdings
      <3>2. none \subseteq accounts /\ \A a \in none : Holdings[a] \in Int
        OBVIOUS
      <3>3. SumFunctionOnSet(Holdings, none) = 0
        BY SumOfNothing
      <3> HIDE DEF none
      <3>4. SumFunctionOnSet(Holdings, accounts) = 0
        BY <2>2, <3>1, <3>2, <3>3, SumWithoutZeros
      <3>. QED
        BY <3>4 DEF TrialBalance, Holdings
    <2>4. \A p \in Postings : Opened(p)
      BY <2>1 DEF Init, Opened
    <2>. QED
      BY <2>2, <2>3, <2>4 DEF TrialInv
  <1>2. LedgerInv /\ BookInv /\ TrialInv /\ [Next]_vars => TrialInv'
    <2>1. SUFFICES ASSUME LedgerInv, BookInv, TrialInv, [Next]_vars PROVE TrialInv'
      OBVIOUS
    <2>2. CASE UNCHANGED vars
      BY <2>1, <2>2 DEF vars, TrialInv, TrialBalance, Opened, Entries, Visible
    <2>3. CASE Next
      BY <2>1, <2>3, QuietTrial, CommitTrial DEF Next, Step
    <2>. QED
      BY <2>1, <2>2, <2>3
  <1>3. TrialInv => TrialBalance
    BY DEF TrialInv
  <1>. QED
    BY <1>1, <1>2, <1>3, LedgerInvariant, BookInvariant, PTL DEF Spec
=============================================================================
