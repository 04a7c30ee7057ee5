--------------------------- MODULE CreditsProofs ---------------------------
(***************************************************************************)
(* Theorems about Credits.tla for every number of calls, users and keys.    *)
(*                                                                          *)
(* CreditsInv is inductive: the types, the lock discipline of FundsReserved *)
(* and the range of the balance need each other, because a commit keeps the *)
(* balance in range only by what its transaction found under the lock.      *)
(* KeyInv adds that a call in flight under a key of Apart is alone with it, *)
(* and that the key is in no committed row.  LogInv is about the sum of the *)
(* log: a commit adds one row to it, and as much to the balance.            *)
(***************************************************************************)
EXTENDS Credits, SumFacts, TLAPS

\* A committed row belongs to a call that is never rejected or in flight
\* again.
LogIsFinal == \A c \in log : stage[c] \in {"applied", "failed", "hit"}

\* Only a positive amount enters a transaction.
PositiveAmounts ==
  \A c \in Calls : InFlight(c) \/ c \in log => req[c].amount > 0

CreditsInv ==
  TypeOK /\ LogIsFinal /\ PositiveAmounts /\ FundsReserved /\ BalanceInRange

KeyInv ==
  \A c \in Calls : InFlight(c) /\ req[c].key \in Apart =>
    /\ ~ Recorded(req[c].key)
    /\ \A d \in Calls : InFlight(d) /\ req[d].key = req[c].key => d = c
-----------------------------------------------------------------------------
\* The delta of a request is an integer.
LEMMA DeltaType == \A r \in Request : r.amount \in Int /\ Delta(r) \in Int
  <1> TAKE r \in Request
  <1>1. r.amount \in Int
    BY AmountsAssumption DEF Request
  <1>. QED
    BY <1>1 DEF Delta

\* A call's arrival records its request and looks the key up; nothing else.
LEMMA ArriveIsCall ==
  ASSUME NEW c \in Calls, Arrive(c)
  PROVE  \E r \in Request : Call(c, r)
  BY DEF Arrive, AddCredits, RefundCredits, DeductCredits, Request

\* The system starts with every call unmade and the opening balances.
LEMMA CreditsInit == Init => CreditsInv
  BY OpeningAssumption, MaxIntAssumption
  DEF Init, CreditsInv, TypeOK, LogIsFinal, PositiveAmounts, FundsReserved,
      BalanceInRange, Stage, InFlight

\* A call that arrives takes no lock and writes nothing.
LEMMA CallKeeps ==
  ASSUME CreditsInv, NEW c \in Calls, NEW r \in Request, Call(c, r)
  PROVE  CreditsInv'
  <1>1. TypeOK /\ LogIsFinal /\ PositiveAmounts /\ FundsReserved /\ BalanceInRange
    BY DEF CreditsInv
  <1>2. /\ Looked(r) \in {"rejected", "hit", "missed"}
        /\ Looked(r) = "missed" => r.amount > 0
    BY DeltaType DEF Looked
  <1>3. c \in log => r = req[c] /\ r.key # NoKey
    BY <1>1 DEF Call, MayCall, TypeOK, LogIsFinal
  <1>4. c \in log => Looked(r) = "hit"
    BY <1>1, <1>3, DeltaType DEF Looked, Recorded, PositiveAmounts
  <1>5. TypeOK'
    BY <1>1, <1>2 DEF Call, TypeOK, Stage
  <1>6. LogIsFinal'
    BY <1>1, <1>3, <1>4 DEF Call, LogIsFinal, TypeOK
  <1>7. PositiveAmounts'
    BY <1>1, <1>2, <1>3 DEF Call, PositiveAmounts, TypeOK, InFlight
  <1>8. FundsReserved'
    BY <1>1, <1>2 DEF Call, FundsReserved, TypeOK
  <1>9. BalanceInRange'
    BY <1>1 DEF Call, BalanceInRange
  <1>. QED
    BY <1>5, <1>6, <1>7, <1>8, <1>9 DEF CreditsInv

\* A step that moves only the stage of one call and, when it takes the row
\* lock, takes it alone and with room for its delta.
LEMMA StageStepKeeps ==
  ASSUME CreditsInv, NEW c \in Calls, NEW s \in Stage, InFlight(c),
         stage' = [stage EXCEPT ![c] = s],
         UNCHANGED <<balance, rows, log, req>>,
         s \in {"locked", "rejected", "failed"},
         s = "locked" =>
           /\ Unlocked(req[c].user)
           /\ balance[req[c].user] + Delta(req[c]) \in 0 .. MaxInt
  PROVE  CreditsInv'
  <1>1. TypeOK /\ LogIsFinal /\ PositiveAmounts /\ FundsReserved /\ BalanceInRange
    BY DEF CreditsInv
  <1>2. TypeOK'
    BY <1>1 DEF TypeOK, InFlight
  <1>3. LogIsFinal' /\ BalanceInRange'
    BY <1>1 DEF LogIsFinal, BalanceInRange, TypeOK, InFlight
  <1>4. PositiveAmounts'
    BY <1>1 DEF PositiveAmounts, InFlight, TypeOK
  <1>5. FundsReserved'
    BY <1>1 DEF FundsReserved, Unlocked, TypeOK
  <1>. QED
    BY <1>2, <1>3, <1>4, <1>5 DEF CreditsInv

\* A grant takes the lock only when nobody has it and the sum is in range.
LEMMA UpsertKeeps ==
  ASSUME CreditsInv, NEW c \in Calls, UpsertIncrement(c)
  PROVE  CreditsInv'
  <1>1. TypeOK /\ PositiveAmounts /\ BalanceInRange /\ InFlight(c)
    BY DEF CreditsInv, UpsertIncrement, InFlight
  <1>2. /\ req[c].user \in Users /\ req[c].amount \in Int
        /\ req[c].amount > 0 /\ Delta(req[c]) = req[c].amount
    BY <1>1, DeltaType
    DEF UpsertIncrement, TypeOK, Request, Delta, PositiveAmounts, InFlight
  <1>3. balance[req[c].user] \in 0 .. MaxInt
    BY <1>1, <1>2 DEF BalanceInRange
  <1>. DEFINE s == IF balance[req[c].user] + req[c].amount <= MaxInt
                   THEN "locked" ELSE "failed"
  <1>4. s = "locked" => balance[req[c].user] + Delta(req[c]) \in 0 .. MaxInt
    BY <1>2, <1>3, MaxIntAssumption
  <1>5. /\ s \in Stage /\ s \in {"locked", "rejected", "failed"}
        /\ stage' = [stage EXCEPT ![c] = s] /\ Unlocked(req[c].user)
        /\ UNCHANGED <<balance, rows, log, req>>
    BY DEF UpsertIncrement, Stage
  <1>. HIDE DEF s
  <1>. QED
    BY <1>1, <1>4, <1>5, StageStepKeeps

\* A deduction takes the lock only when nobody has it and there is enough.
LEMMA SelectKeeps ==
  ASSUME CreditsInv, NEW c \in Calls, SelectForUpdate(c)
  PROVE  CreditsInv'
  <1>1. TypeOK /\ PositiveAmounts /\ BalanceInRange /\ InFlight(c)
    BY DEF CreditsInv, SelectForUpdate, InFlight
  <1>2. /\ req[c].user \in Users /\ req[c].amount \in Int
        /\ req[c].amount > 0 /\ Delta(req[c]) = -req[c].amount
    BY <1>1, DeltaType
    DEF SelectForUpdate, TypeOK, Request, Delta, PositiveAmounts, InFlight
  <1>3. balance[req[c].user] \in 0 .. MaxInt
    BY <1>1, <1>2 DEF BalanceInRange
  <1>. DEFINE s == IF req[c].user \in rows /\ balance[req[c].user] >= req[c].amount
                   THEN "locked" ELSE "rejected"
  <1>4. s = "locked" => balance[req[c].user] + Delta(req[c]) \in 0 .. MaxInt
    BY <1>2, <1>3, MaxIntAssumption
  <1>5. /\ s \in Stage /\ s \in {"locked", "rejected", "failed"}
        /\ stage' = [stage EXCEPT ![c] = s]
        /\ s = "locked" => Unlocked(req[c].user)
        /\ UNCHANGED <<balance, rows, log, req>>
    BY DEF SelectForUpdate, Stage
  <1>. HIDE DEF s
  <1>. QED
    BY <1>1, <1>4, <1>5, StageStepKeeps

\* The holder of the lock commits what it reserved and lets the lock go.
LEMMA CommitKeeps ==
  ASSUME CreditsInv, NEW c \in Calls, Commit(c)
  PROVE  CreditsInv'
  <1>1. TypeOK /\ LogIsFinal /\ PositiveAmounts /\ FundsReserved /\ BalanceInRange
    BY DEF CreditsInv
  <1>2. req[c] \in Request /\ req[c].user \in Users /\ Delta(req[c]) \in Int
    BY <1>1, DeltaType DEF Commit, TypeOK, Request
  <1>3. PICK a \in {"applied", "failed"} : stage' = [stage EXCEPT ![c] = a]
    BY DEF Commit
  <1>4. TypeOK'
    BY <1>1, <1>2, <1>3 DEF Commit, TypeOK, Stage
  <1>5. LogIsFinal' /\ PositiveAmounts'
    BY <1>1, <1>3 DEF Commit, LogIsFinal, PositiveAmounts, TypeOK, InFlight
  <1>6. FundsReserved'
    BY <1>1, <1>2, <1>3 DEF Commit, FundsReserved, TypeOK
  <1>7. BalanceInRange'
    BY <1>1, <1>2 DEF Commit, FundsReserved, BalanceInRange, TypeOK
  <1>. QED
    BY <1>4, <1>5, <1>6, <1>7 DEF CreditsInv

\* A rollback lets the lock go and writes nothing.
LEMMA RollbackKeeps ==
  ASSUME CreditsInv, NEW c \in Calls, Rollback(c)
  PROVE  CreditsInv'
  BY StageStepKeeps DEF Rollback, Stage

\* Every step of the service keeps the invariant.
LEMMA CreditsStep == CreditsInv /\ [Next]_vars => CreditsInv'
  <1> SUFFICES ASSUME CreditsInv, [Next]_vars PROVE CreditsInv'
    OBVIOUS
  <1>1. CASE UNCHANGED vars
    BY <1>1 DEF vars, CreditsInv, TypeOK, LogIsFinal, PositiveAmounts,
       FundsReserved, BalanceInRange, InFlight
  <1>2. CASE Next
    <2>1. PICK c \in Calls : Arrive(c) \/ Step(c) \/ Rollback(c)
      BY <1>2 DEF Next
    <2>2. CASE Arrive(c)
      BY <2>2, ArriveIsCall, CallKeeps
    <2>3. CASE Step(c)
      BY <2>3, UpsertKeeps, SelectKeeps, CommitKeeps DEF Step
    <2>4. CASE Rollback(c)
      BY <2>4, RollbackKeeps
    <2>. QED
      BY <2>1, <2>2, <2>3, <2>4
  <1>. QED
    BY <1>1, <1>2

\* The inductive invariant of CreditsService's transactions.
THEOREM CreditsInvariant == Spec => []CreditsInv
  BY CreditsInit, CreditsStep, PTL DEF Spec

\* Type correctness of the credits table, its log and the calls.
THEOREM CreditsTypes == Spec => []TypeOK
  BY CreditsInvariant, PTL DEF CreditsInv

\* No interleaving of grants, deductions, retries, rollbacks and lost
\* answers takes a balance below zero or past the INTEGER column.
THEOREM NoOverdraft == Spec => []BalanceInRange
  BY CreditsInvariant, PTL DEF CreditsInv

\* What a transaction checked under the row lock still holds at its commit.
THEOREM LockedCheckHolds == Spec => []FundsReserved
  BY CreditsInvariant, PTL DEF CreditsInv
-----------------------------------------------------------------------------
\* A call under a key of Apart is looked up while no other call with the key
\* is in flight, so it enters the transaction alone with an unused key.
LEMMA CallKeepsKeys ==
  ASSUME CreditsInv, KeyInv, AtMostOncePerKey,
         NEW c \in Calls, NEW r \in Request, Call(c, r)
  PROVE  (KeyInv /\ AtMostOncePerKey)'
  <1>1. TypeOK /\ LogIsFinal /\ PositiveAmounts
    BY DEF CreditsInv
  <1>2. c \in log => r = req[c]
    BY <1>1 DEF Call, MayCall, TypeOK, LogIsFinal
  <1>3. \A d \in log : req'[d] = req[d]
    BY <1>1, <1>2 DEF Call, TypeOK
  <1>4. \A k : Recorded(k)' <=> Recorded(k)
    BY <1>3 DEF Recorded, Call
  <1>5. AtMostOncePerKey'
    BY <1>3 DEF AtMostOncePerKey, Call
  <1>6. \A d \in Calls : d # c => req'[d] = req[d] /\ stage'[d] = stage[d]
    BY <1>1 DEF Call, TypeOK
  <1>7. InFlight(c)' => ~ Recorded(r.key) /\ req'[c] = r
    BY <1>1 DEF InFlight, Call, Looked, TypeOK
  <1>8. \A d \in Calls : InFlight(d) /\ req[d].key = r.key => r.key \notin Apart
    BY DEF Call, MayCall
  <1>9. KeyInv'
    BY <1>4, <1>6, <1>7, <1>8 DEF KeyInv, InFlight
  <1>. QED
    BY <1>5, <1>9

\* A step inside a transaction starts nothing; only a commit uses a key up,
\* and the call that commits was the only one in flight with it.
LEMMA CommitKeepsKeys ==
  ASSUME CreditsInv, KeyInv, AtMostOncePerKey, NEW c \in Calls, Commit(c)
  PROVE  (KeyInv /\ AtMostOncePerKey)'
  <1>1. TypeOK /\ InFlight(c)
    BY DEF CreditsInv, Commit, InFlight
  <1>2. AtMostOncePerKey'
    BY <1>1, NoKeyAssumption, ApartAssumption
    DEF Commit, AtMostOncePerKey, KeyInv, Recorded, TypeOK
  <1>3. ~ InFlight(c)' /\ \A d \in Calls : d # c => stage'[d] = stage[d]
    BY <1>1 DEF Commit, InFlight, TypeOK
  <1>4. KeyInv'
    BY <1>1, <1>3 DEF Commit, KeyInv, Recorded, InFlight
  <1>. QED
    BY <1>2, <1>4

LEMMA OtherStepsKeepKeys ==
  ASSUME CreditsInv, KeyInv, AtMostOncePerKey, NEW c \in Calls,
         UpsertIncrement(c) \/ SelectForUpdate(c) \/ Rollback(c)
  PROVE  (KeyInv /\ AtMostOncePerKey)'
  <1>1. TypeOK /\ UNCHANGED <<log, req>> /\ InFlight(c)
    BY DEF CreditsInv, UpsertIncrement, SelectForUpdate, Rollback, InFlight
  <1>2. \A d \in Calls : d # c => stage'[d] = stage[d]
    BY <1>1 DEF UpsertIncrement, SelectForUpdate, Rollback, TypeOK
  <1>. QED
    BY <1>1, <1>2 DEF KeyInv, AtMostOncePerKey, Recorded, InFlight

LEMMA KeysStep ==
  ASSUME CreditsInv, KeyInv, AtMostOncePerKey, [Next]_vars
  PROVE  (KeyInv /\ AtMostOncePerKey)'
  <1>1. CASE UNCHANGED vars
    BY <1>1 DEF vars, KeyInv, AtMostOncePerKey, Recorded, InFlight
  <1>2. CASE Next
    <2>1. PICK c \in Calls : Arrive(c) \/ Step(c) \/ Rollback(c)
      BY <1>2 DEF Next
    <2>2. CASE Arrive(c)
      BY <2>2, ArriveIsCall, CallKeepsKeys
    <2>3. CASE Step(c) \/ Rollback(c)
      BY <2>3, CommitKeepsKeys, OtherStepsKeepKeys DEF Step
    <2>. QED
      BY <2>1, <2>2, <2>3
  <1>. QED
    BY <1>1, <1>2

\* A key whose calls the callers keep apart moves credits at most once,
\* whatever is retried, rolled back or unanswered.
THEOREM KeyedEffectsHappenOnce == Spec => []AtMostOncePerKey
  <1>1. Init => KeyInv /\ AtMostOncePerKey
    BY DEF Init, KeyInv, AtMostOncePerKey, InFlight
  <1>2. CreditsInv /\ KeyInv /\ AtMostOncePerKey /\ [Next]_vars
          => (KeyInv /\ AtMostOncePerKey)'
    BY KeysStep
  <1>. QED
    BY <1>1, <1>2, CreditsInvariant, PTL DEF Spec
-----------------------------------------------------------------------------
UsedKeys == {req[c].key : c \in log} \ {NoKey}

Deltas == Amounts \cup {-a : a \in Amounts}

\* A commit is one effect of the abstract account: under its key when it has
\* one, and a keyless deduction otherwise.
LEMMA CommitIsEffect ==
  ASSUME CreditsInv, KeyInv, NEW c \in Calls, Commit(c)
  PROVE  Account!Next
  <1>. DEFINE u == req[c].user
              d == Delta(req[c])
              k == req[c].key
  <1>1. TypeOK /\ FundsReserved /\ PositiveAmounts /\ InFlight(c)
    BY DEF CreditsInv, Commit, InFlight
  <1>2. req[c] \in Request /\ stage[c] = "locked"
    BY <1>1 DEF Commit, TypeOK
  <1>3. u \in Users /\ d \in Deltas /\ req[c].amount \in Int
    BY <1>2, AmountsAssumption DEF Request, Delta, Deltas
  <1>4. Account!Move(u, d)
    BY <1>1, <1>2 DEF Account!Move, FundsReserved, Commit
  <1>5. UsedKeys' = UsedKeys \cup ({k} \ {NoKey})
    BY DEF UsedKeys, Commit
  <1>6. CASE k # NoKey
    <2>1. k \in Keys
      BY <1>2, <1>6 DEF Request
    <2>2. k \in Apart => k \notin UsedKeys
      BY <1>1, <1>6 DEF KeyInv, Recorded, UsedKeys
    <2>3. Account!KeyedEffect(u, d, k)
      BY <1>4, <1>5, <1>6, <2>2 DEF Account!KeyedEffect, UsedKeys
    <2>4. PICK v \in Users, e \in Deltas, key \in Keys :
                v = u /\ e = d /\ key = k
      BY <1>3, <2>1
    <2>5. Account!KeyedEffect(v, e, key)
      BY <2>3, <2>4 DEF Account!KeyedEffect, Account!Move
    <2>. QED
      BY <2>5 DEF Account!Next, Deltas
  <1>7. CASE k = NoKey
    <2>1. d < 0
      BY <1>1, <1>2, <1>3, <1>7, NoKeyAssumption
      DEF Request, Delta, PositiveAmounts
    <2>2. Account!KeylessEffect(u, d)
      BY <1>4, <1>5, <1>7, <2>1 DEF Account!KeylessEffect, UsedKeys
    <2>. QED
      BY <1>3, <2>2 DEF Account!Next, Deltas
  <1>. QED
    BY <1>6, <1>7

\* Every other step is invisible to the abstract account.
LEMMA OtherStepsAreSilent ==
  ASSUME CreditsInv, NEW c \in Calls,
         Arrive(c) \/ UpsertIncrement(c) \/ SelectForUpdate(c) \/ Rollback(c)
  PROVE  UNCHANGED Account!vars
  <1>1. TypeOK /\ LogIsFinal
    BY DEF CreditsInv
  <1>2. UNCHANGED <<balance, log>> /\ \A d \in log : req'[d] = req[d]
    <2>1. ASSUME NEW r \in Request, Call(c, r)
          PROVE  UNCHANGED <<balance, log>> /\ \A d \in log : req'[d] = req[d]
      BY <1>1, <2>1 DEF Call, MayCall, TypeOK, LogIsFinal
    <2>. QED
      BY <2>1, ArriveIsCall DEF UpsertIncrement, SelectForUpdate, Rollback
  <1>. QED
    BY <1>2 DEF Account!vars

\* CreditsService implements the abstract account: balances in range, moved
\* atomically, and once under a key whose calls do not overlap.
THEOREM CreditsImplementAccount == Spec => ImplementsAccount
  <1>1. Init => Account!Init
    BY DEF Init, Account!Init
  <1>2. ASSUME CreditsInv, KeyInv, [Next]_vars
        PROVE  [Account!Next]_(Account!vars)
    <2>1. CASE UNCHANGED vars
      BY <2>1 DEF vars, Account!vars
    <2>2. CASE Next
      BY <1>2, <2>2, CommitIsEffect, OtherStepsAreSilent DEF Next, Step
    <2>. QED
      BY <1>2, <2>1, <2>2
  <1>3. Init => KeyInv /\ AtMostOncePerKey
    BY DEF Init, KeyInv, AtMostOncePerKey, InFlight
  <1>4. CreditsInv /\ KeyInv /\ AtMostOncePerKey /\ [Next]_vars
          => (KeyInv /\ AtMostOncePerKey)'
    BY KeysStep
  <1>. QED
    BY <1>1, <1>2, <1>3, <1>4, CreditsInvariant, PTL
    DEF Spec, ImplementsAccount, Account!Spec
-----------------------------------------------------------------------------
\* A success is answered from a committed row, and rows keep their requests:
\* a call in the log is made again only as it was.
LEMMA SuccessStep ==
  ASSUME CreditsInv, SuccessIsRecorded, [Next]_vars
  PROVE  SuccessIsRecorded'
  <1>1. TypeOK /\ LogIsFinal
    BY DEF CreditsInv
  <1>2. ASSUME NEW c \in Calls, Arrive(c)
        PROVE  SuccessIsRecorded'
    <2>1. PICK r \in Request : Call(c, r)
      BY <1>2, ArriveIsCall
    <2>2. /\ UNCHANGED log
          /\ stage'[c] = Looked(r) /\ req'[c] = r
          /\ \A d \in Calls : d # c => stage'[d] = stage[d] /\ req'[d] = req[d]
      BY <1>1, <2>1 DEF Call, TypeOK
    <2>3. \A d \in log : req'[d] = req[d]
      BY <1>1, <2>1, <2>2 DEF Call, MayCall, TypeOK, LogIsFinal
    <2>4. /\ Looked(r) # "applied"
          /\ Looked(r) = "hit" => Recorded(r.key)
      BY DEF Looked
    <2>. QED
      BY <2>2, <2>3, <2>4 DEF SuccessIsRecorded, Recorded
  <1>3. ASSUME NEW c \in Calls,
               UpsertIncrement(c) \/ SelectForUpdate(c) \/ Rollback(c)
        PROVE  SuccessIsRecorded'
    <2>1. /\ UNCHANGED <<log, req>>
          /\ stage'[c] \in {"locked", "failed", "rejected"}
          /\ \A d \in Calls : d # c => stage'[d] = stage[d]
      BY <1>1, <1>3 DEF UpsertIncrement, SelectForUpdate, Rollback, TypeOK
    <2>. QED
      BY <2>1 DEF SuccessIsRecorded
  <1>4. ASSUME NEW c \in Calls, Commit(c)
        PROVE  SuccessIsRecorded'
    <2>1. /\ UNCHANGED req /\ log' = log \cup {c}
          /\ stage'[c] \in {"applied", "failed"}
          /\ \A d \in Calls : d # c => stage'[d] = stage[d]
      BY <1>1, <1>4 DEF Commit, TypeOK
    <2>. QED
      BY <2>1 DEF SuccessIsRecorded
  <1>5. CASE UNCHANGED vars
    BY <1>5 DEF vars, SuccessIsRecorded
  <1>. QED
    BY <1>2, <1>3, <1>4, <1>5 DEF Next, Step

\* addCredits, refundCredits, deductCredits: whoever hears of a success has a
\* committed credit_transactions row, its own or the one its key found.
THEOREM SuccessIsCommitted == Spec => []SuccessIsRecorded
  <1>1. Init => SuccessIsRecorded
    BY DEF Init, SuccessIsRecorded
  <1>2. CreditsInv /\ SuccessIsRecorded /\ [Next]_vars => SuccessIsRecorded'
    BY SuccessStep
  <1>. QED
    BY <1>1, <1>2, CreditsInvariant, PTL DEF Spec
-----------------------------------------------------------------------------
Moved == [c \in log |-> Delta(req[c])]

RowsOf(u) == {c \in log : req[c].user = u}

LogInv == IsFiniteSet(log) /\ BalanceMatchesLog

\* Rows have integer amounts, and there are finitely many.
LEMMA LogTypes ==
  ASSUME CreditsInv, LogInv, NEW u
  PROVE  /\ IsFiniteSet(RowsOf(u))
         /\ \A c \in RowsOf(u) : Moved[c] \in Int
         /\ SumFunctionOnSet(Moved, RowsOf(u)) \in Int
  <1>1. TypeOK /\ LogIsFinal
    BY DEF CreditsInv
  <1>2. IsFiniteSet(RowsOf(u))
    BY FS_Subset DEF LogInv, RowsOf
  <1>3. \A c \in log : Moved[c] \in Int
    BY <1>1, DeltaType DEF TypeOK, LogIsFinal, Moved
  <1>4. \A c \in RowsOf(u) : Moved[c] \in Int
    BY <1>3 DEF RowsOf
  <1> HIDE DEF RowsOf, Moved
  <1>. QED
    BY <1>2, <1>4, SumType

\* Whatever leaves the log and its rows alone leaves the sums alone.
LEMMA QuietLog ==
  ASSUME CreditsInv, LogInv, UNCHANGED <<balance, log>>,
         \A c \in log : req'[c] = req[c]
  PROVE  LogInv'
  <1>1. Moved' = Moved /\ \A u \in Users : RowsOf(u)' = RowsOf(u)
    BY DEF Moved, RowsOf, Delta
  <1>. QED
    BY <1>1 DEF LogInv, BalanceMatchesLog, Moved, RowsOf

\* A commit adds to one balance what its row adds to the sum of its user.
LEMMA CommitLog ==
  ASSUME CreditsInv, LogInv, NEW c \in Calls, Commit(c)
  PROVE  LogInv'
  <1>1. TypeOK /\ c \notin log /\ req[c] \in Request
    BY DEF CreditsInv, Commit, TypeOK, LogIsFinal
  <1>2. log' = log \cup {c} /\ UNCHANGED req
    BY DEF Commit
  <1>3. IsFiniteSet(log')
    BY <1>2, FS_AddElement DEF LogInv
  <1>4. /\ \A d \in log : Moved'[d] = Moved[d]
        /\ Moved'[c] = Delta(req[c]) /\ Moved'[c] \in Int
    BY <1>1, <1>2, DeltaType DEF Moved, Delta
  <1>5. ASSUME NEW u \in Users
        PROVE  balance'[u] = Opening[u] + SumFunctionOnSet(Moved', RowsOf(u)')
    <2>1. balance[u] = Opening[u] + SumFunctionOnSet(Moved, RowsOf(u))
      BY DEF LogInv, BalanceMatchesLog, Moved, RowsOf
    <2>2. \A d \in RowsOf(u) : Moved'[d] = Moved[d]
      BY <1>4 DEF RowsOf
    <2>3. SumFunctionOnSet(Moved, RowsOf(u)) \in Int
      BY LogTypes
    <2>4. CASE req[c].user = u
      <3>1. RowsOf(u)' = RowsOf(u) \cup {c} /\ c \notin RowsOf(u)
        BY <1>1, <1>2, <2>4 DEF RowsOf
      <3>2. IsFiniteSet(RowsOf(u)) /\ \A d \in RowsOf(u) : Moved[d] \in Int
        BY LogTypes
      <3>3. SumFunctionOnSet(Moved', RowsOf(u) \cup {c}) =
              SumFunctionOnSet(Moved, RowsOf(u)) + Moved'[c]
        BY <1>4, <2>2, <3>1, <3>2, SumGrows
      <3>4. balance'[u] = balance[u] + Moved'[c]
        BY <1>1, <1>4, <2>4 DEF Commit, TypeOK
      <3>5. Opening[u] \in Int
        BY OpeningAssumption, MaxIntAssumption
      <3>. QED
        BY <1>4, <2>1, <2>3, <3>1, <3>3, <3>4, <3>5
    <2>5. CASE req[c].user # u
      <3>1. RowsOf(u)' = RowsOf(u)
        BY <1>2, <2>5 DEF RowsOf
      <3>2. IsFiniteSet(RowsOf(u))
        BY LogTypes
      <3>3. SumFunctionOnSet(Moved', RowsOf(u)) = SumFunctionOnSet(Moved, RowsOf(u))
        BY <2>2, <3>2, SumSame
      <3>4. balance'[u] = balance[u]
        BY <1>1, <2>5 DEF Commit, TypeOK
      <3>. QED
        BY <2>1, <3>1, <3>3, <3>4
    <2>. QED
      BY <2>4, <2>5
  <1>. QED
    BY <1>3, <1>5 DEF LogInv, BalanceMatchesLog, Moved, RowsOf

\* Every other step leaves the rows and the balances as they are.
LEMMA LogStep ==
  ASSUME CreditsInv, LogInv, [Next]_vars
  PROVE  LogInv'
  <1>1. TypeOK /\ LogIsFinal
    BY DEF CreditsInv
  <1>2. ASSUME NEW c \in Calls, Arrive(c)
        PROVE  LogInv'
    <2>1. PICK r \in Request : Call(c, r)
      BY <1>2, ArriveIsCall
    <2>2. \A d \in log : req'[d] = req[d]
      BY <1>1, <2>1 DEF Call, MayCall, TypeOK, LogIsFinal
    <2>. QED
      BY <2>1, <2>2, QuietLog DEF Call
  <1>3. ASSUME NEW c \in Calls,
               UpsertIncrement(c) \/ SelectForUpdate(c) \/ Rollback(c)
        PROVE  LogInv'
    BY <1>3, QuietLog DEF UpsertIncrement, SelectForUpdate, Rollback
  <1>4. CASE UNCHANGED vars
    BY <1>4, QuietLog DEF vars
  <1>. QED
    BY <1>2, <1>3, <1>4, CommitLog DEF Next, Step

\* credits.balance is what the user opened with and what the committed
\* credit_transactions rows add up to, after any calls, retries and
\* rollbacks.
THEOREM LogExplainsBalance == Spec => []BalanceMatchesLog
  <1>1. Init => LogInv
    <2>1. SUFFICES ASSUME Init PROVE LogInv
      OBVIOUS
    <2>2. IsFiniteSet(log)
      BY <2>1, FS_EmptySet DEF Init
    <2>3. ASSUME NEW u \in Users
          PROVE  balance[u] = Opening[u] + SumFunctionOnSet(Moved, RowsOf(u))
      <3>1. RowsOf(u) = {} /\ balance[u] = Opening[u] /\ Opening[u] \in Int
        BY <2>1, OpeningAssumption, MaxIntAssumption DEF Init, RowsOf
      <3>. QED
        BY <3>1, SumOfNothing
    <2>. QED
      BY <2>2, <2>3 DEF LogInv, BalanceMatchesLog, Moved, RowsOf
  <1>2. CreditsInv /\ LogInv /\ [Next]_vars => LogInv'
    BY LogStep
  <1>3. LogInv => BalanceMatchesLog
    BY DEF LogInv
  <1>. QED
    BY <1>1, <1>2, <1>3, CreditsInvariant, PTL DEF Spec
=============================================================================
