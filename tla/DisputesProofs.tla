--------------------------- MODULE DisputesProofs ---------------------------
(***************************************************************************)
(* Theorems about Disputes.tla for any number of disputes, admin calls and  *)
(* faults.                                                                  *)
(*                                                                          *)
(* What a commit writes was decided steps before it.  Stages says what a    *)
(* handler has behind it where it is, KeysHeld that a booking it has        *)
(* inserted is its alone, and KeptApart what holds of the only handler on a *)
(* dispute whose calls do not overlap: the status it has checked stands.    *)
(*                                                                          *)
(* The last part is about DisputePage.tla: the page lets a patient admin    *)
(* make the calls of Disputes only, so all of the above holds behind it.    *)
(***************************************************************************)
EXTENDS DisputePage, TLAPS

Deciding == {"ledger", "insert", "lookup", "credit", "update", "commit"}

\* g has inserted the ledger key of d's outcome o and not committed yet.
HoldsKey(g, d, o) == tx[g] = "booked" /\ at[g] = d /\ wants[g] = o

PastBooking == {"lookup", "credit", "update", "commit"}

Stages ==
  \A h \in Handlers :
    /\ pc[h] = "idle" => at[h] = NoDispute
    /\ pc[h] \in {"idle", "evidence", "submit"} => tx[h] = "none"
    /\ pc[h] \in {"ledger", "insert"} => tx[h] = "open"
    /\ pc[h] \in Deciding => wants[h] \in Outcome
    /\ pc[h] \in PastBooking /\ tx[h] = "open" => booked[at[h]][wants[h]] > 0
    /\ pc[h] \in PastBooking => tx[h] # "none"
    /\ pc[h] = "commit" => tx[h] # "expired"

KeysHeld ==
  \A h \in Handlers : tx[h] = "booked" =>
    /\ booked[at[h]][wants[h]] = 0
    /\ \A g \in Handlers : HoldsKey(g, at[h], wants[h]) => g = h

KeptApart ==
  \A h \in Handlers : at[h] \in Apart =>
    /\ \A g \in Handlers : at[g] = at[h] => g = h
    /\ pc[h] \in Deciding => status[at[h]] \in Open
    /\ pc[h] = "submit" \/ (pc[h] = "evidence" /\ wants[h] = "OPEN") =>
         status[at[h]] = "OPEN"
    /\ pc[h] = "credit" => restored[at[h]] = 0

BookedIsStatus ==
  \A d \in Apart : \A o \in Outcome : booked[d][o] > 0 => status[d] = o

DisputesInv ==
  /\ TypeOK /\ Stages /\ KeysHeld /\ OutcomeBookedOnce
  /\ KeptApart /\ BookedIsStatus /\ RestoredAtMostOnce
-----------------------------------------------------------------------------
LEMMA DisputesInit == Init => DisputesInv
  BY NoDisputeAssumption, ApartAssumption, MaxFaultsAssumption
  DEF Init, DisputesInv, TypeOK, Stages, KeysHeld, OutcomeBookedOnce, KeptApart,
      BookedIsStatus, RestoredAtMostOnce, HoldsKey, Stage, Outcome, Open,
      Deciding, PastBooking

\* A step of one handler that leaves statuses and bookings alone: enough that
\* the handler is where it may be.
LEMMA HandlerStep ==
  ASSUME DisputesInv, NEW h \in Handlers, TypeOK', RestoredAtMostOnce',
         UNCHANGED <<status, booked>>,
         \A g \in Handlers \ {h} :
           /\ pc'[g] = pc[g] /\ at'[g] = at[g]
           /\ wants'[g] = wants[g] /\ tx'[g] = tx[g]
           /\ at[g] \in Apart => restored'[at[g]] = restored[at[g]],
         pc'[h] = "idle" => at'[h] = NoDispute,
         pc'[h] \in {"idle", "evidence", "submit"} => tx'[h] = "none",
         pc'[h] \in {"ledger", "insert"} => tx'[h] = "open",
         pc'[h] \in Deciding => wants'[h] \in Outcome,
         pc'[h] \in PastBooking /\ tx'[h] = "open" =>
           booked[at'[h]][wants'[h]] > 0,
         pc'[h] \in PastBooking => tx'[h] # "none",
         pc'[h] = "commit" => tx'[h] # "expired",
         tx'[h] = "booked" =>
           /\ booked[at'[h]][wants'[h]] = 0
           /\ \A g \in Handlers \ {h} : ~ HoldsKey(g, at'[h], wants'[h]),
         at'[h] \in Apart =>
           /\ \A g \in Handlers \ {h} : at[g] # at'[h]
           /\ pc'[h] \in Deciding => status[at'[h]] \in Open
           /\ pc'[h] = "submit" \/ (pc'[h] = "evidence" /\ wants'[h] = "OPEN") =>
                status[at'[h]] = "OPEN"
           /\ pc'[h] = "credit" => restored'[at'[h]] = 0
  PROVE  DisputesInv'
  <1>1. /\ TypeOK /\ Stages /\ KeysHeld /\ OutcomeBookedOnce
        /\ KeptApart /\ BookedIsStatus
    BY DEF DisputesInv
  <1>2. Stages'
    BY <1>1 DEF Stages
  <1>3. KeysHeld'
    BY <1>1 DEF KeysHeld, HoldsKey
  <1>4. KeptApart'
    BY <1>1 DEF KeptApart
  <1>5. OutcomeBookedOnce' /\ BookedIsStatus'
    BY <1>1 DEF OutcomeBookedOnce, BookedIsStatus
  <1>. QED
    BY <1>2, <1>3, <1>4, <1>5 DEF DisputesInv

\* A handler that answers holds nothing any more.
LEMMA AnswerStep ==
  ASSUME DisputesInv, NEW h \in Handlers, Answer(h), TypeOK',
         UNCHANGED <<status, booked, restored>>
  PROVE  DisputesInv'
  <1>1. TypeOK /\ RestoredAtMostOnce
    BY DEF DisputesInv
  <1>2. /\ pc'[h] = "idle" /\ at'[h] = NoDispute /\ tx'[h] = "none"
        /\ \A g \in Handlers \ {h} :
             /\ pc'[g] = pc[g] /\ at'[g] = at[g]
             /\ wants'[g] = wants[g] /\ tx'[g] = tx[g]
    BY <1>1 DEF TypeOK, Answer, Goto
  <1>3. NoDispute \notin Apart /\ RestoredAtMostOnce'
    BY <1>1, NoDisputeAssumption, ApartAssumption DEF RestoredAtMostOnce
  <1>. QED
    BY <1>2, <1>3, HandlerStep DEF Deciding, PastBooking
-----------------------------------------------------------------------------
\* Evidence and outcomes are taken up after a read; on a dispute in Apart,
\* with no other call under way.
LEMMA StartStep ==
  ASSUME DisputesInv, NEW h \in Handlers, NEW d \in Disputes, MayCall(d),
         ReadForEvidence(h, d) \/ \E o \in Outcomes : SetOutcome(h, d, o)
  PROVE  DisputesInv'
  <1>1. TypeOK /\ Stages /\ KeptApart /\ RestoredAtMostOnce
    BY DEF DisputesInv
  <1>2. /\ pc' = [pc EXCEPT ![h] = pc'[h]] /\ pc[h] = "idle"
        /\ at' = [at EXCEPT ![h] = d]
        /\ d \in Apart => \A g \in Handlers : at[g] # d
        /\ UNCHANGED <<db, faults>>
    BY <1>1 DEF TypeOK, ReadForEvidence, SetOutcome, Start, Goto, MayCall
  <1>3. CASE ReadForEvidence(h, d)
    <2>1. /\ pc'[h] = "evidence" /\ wants' = [wants EXCEPT ![h] = status[d]]
          /\ tx' = tx /\ status[d] # "none" /\ tx[h] = "none"
      BY <1>1, <1>2, <1>3 DEF TypeOK, Stages, ReadForEvidence, Start, Goto
    <2>2. TypeOK'
      BY <1>1, <1>2, <2>1 DEF TypeOK, Stage, db
    <2>3. /\ wants'[h] = status[d] /\ at'[h] = d
          /\ \A g \in Handlers \ {h} :
               /\ pc'[g] = pc[g] /\ at'[g] = at[g]
               /\ wants'[g] = wants[g] /\ tx'[g] = tx[g]
      BY <1>1, <1>2, <2>1 DEF TypeOK
    <2>4. RestoredAtMostOnce'
      BY <1>1, <1>2 DEF RestoredAtMostOnce, db
    <2>. QED
      BY <1>2, <2>1, <2>2, <2>3, <2>4, HandlerStep DEF db, Deciding, PastBooking
  <1>4. ASSUME NEW o \in Outcomes, SetOutcome(h, d, o)
        PROVE  DisputesInv'
    <2>1. /\ pc'[h] = "ledger" /\ wants' = [wants EXCEPT ![h] = o]
          /\ tx' = [tx EXCEPT ![h] = "open"] /\ status[d] \in Open
      BY <1>1, <1>2, <1>4 DEF TypeOK, SetOutcome, Start, Goto
    <2>2. o \in Outcome
      BY OutcomesAssumption
    <2>3. TypeOK'
      BY <1>1, <1>2, <2>1, <2>2 DEF TypeOK, Stage, db
    <2>4. /\ wants'[h] = o /\ at'[h] = d /\ tx'[h] = "open"
          /\ \A g \in Handlers \ {h} :
               /\ pc'[g] = pc[g] /\ at'[g] = at[g]
               /\ wants'[g] = wants[g] /\ tx'[g] = tx[g]
      BY <1>1, <1>2, <2>1 DEF TypeOK
    <2>5. RestoredAtMostOnce'
      BY <1>1, <1>2 DEF RestoredAtMostOnce, db
    <2>. QED
      BY <1>2, <2>1, <2>2, <2>3, <2>4, <2>5, HandlerStep
      DEF db, Deciding, PastBooking
  <1>. QED
    BY <1>3, <1>4

\* The steps of a call before anything of it is committed.
LEMMA OpenStep ==
  ASSUME DisputesInv, NEW h \in Handlers,
         \/ CreateEvidence(h) \/ LookupKey(h) \/ InsertBooking(h)
         \/ LookupCredits(h) \/ UpdateStatus(h) \/ CreditsFail(h) \/ Expire(h)
  PROVE  DisputesInv'
  <1>1. TypeOK /\ Stages /\ KeysHeld /\ KeptApart /\ RestoredAtMostOnce
    BY DEF DisputesInv
  <1>2. UNCHANGED <<status, booked, restored>> /\ RestoredAtMostOnce'
    BY <1>1
    DEF CreateEvidence, LookupKey, InsertBooking, LookupCredits, UpdateStatus,
        CreditsFail, Expire, db, RestoredAtMostOnce
  <1>3. pc[h] # "idle" /\ at[h] \in Disputes
    BY <1>1
    DEF CreateEvidence, LookupKey, InsertBooking, LookupCredits, UpdateStatus,
        CreditsFail, Expire, TypeOK
  <1>4. ASSUME Answer(h), faults' = faults,
               evidence' \in [Disputes -> BOOLEAN]
        PROVE  DisputesInv'
    <2>1. TypeOK'
      BY <1>1, <1>2, <1>4 DEF TypeOK, Answer, Goto, Stage
    <2>. QED
      BY <1>2, <1>4, <2>1, AnswerStep
  <1>5. CASE CreateEvidence(h)
    <2>1. evidence' \in [Disputes -> BOOLEAN] /\ faults' = faults
      BY <1>1, <1>3, <1>5 DEF CreateEvidence, TypeOK
    <2>2. CASE wants[h] = "OPEN"
      <3>1. /\ pc' = [pc EXCEPT ![h] = "submit"] /\ UNCHANGED <<at, tx, wants>>
            /\ pc[h] = "evidence"
        BY <1>5, <2>2 DEF CreateEvidence, Goto
      <3>2. TypeOK'
        BY <1>1, <1>2, <1>3, <2>1, <3>1 DEF TypeOK, Stage
      <3>. QED
        BY <1>1, <1>2, <2>2, <3>1, <3>2, HandlerStep
        DEF TypeOK, Stages, KeysHeld, KeptApart, Deciding, PastBooking
    <2>3. CASE wants[h] # "OPEN"
      BY <1>4, <1>5, <2>1, <2>3 DEF CreateEvidence
    <2>. QED
      BY <2>2, <2>3
  <1>6. CASE LookupKey(h)
    <2>1. /\ pc' = [pc EXCEPT ![h] = pc'[h]]
          /\ pc'[h] \in {"insert", "lookup", "update"}
          /\ pc'[h] # "insert" => booked[at[h]][wants[h]] # 0
          /\ UNCHANGED <<db, at, wants, tx, faults>> /\ pc[h] = "ledger"
      BY <1>1, <1>6 DEF LookupKey, Goto, TypeOK
    <2>2. TypeOK'
      BY <1>1, <1>3, <2>1 DEF TypeOK, Stage, db
    <2>3. wants[h] \in Outcome /\ booked[at[h]][wants[h]] \in Nat
      BY <1>1, <1>3, <2>1 DEF TypeOK, Stages, Deciding
    <2>. QED
      BY <1>1, <1>2, <2>1, <2>2, <2>3, HandlerStep
      DEF TypeOK, Stages, KeysHeld, KeptApart, Deciding, PastBooking
  <1>7. CASE InsertBooking(h)
    <2>1. pc[h] = "insert" /\ wants[h] \in Outcome /\ UNCHANGED <<db, faults>>
          /\ booked[at[h]][wants[h]] \in Nat
      BY <1>1, <1>3, <1>7 DEF InsertBooking, Stages, Deciding, TypeOK
    <2>2. CASE booked[at[h]][wants[h]] > 0
      BY <1>1, <1>4, <1>7, <2>1, <2>2 DEF InsertBooking, TypeOK, db
    <2>3. CASE ~ booked[at[h]][wants[h]] > 0
      <3>1. /\ pc' = [pc EXCEPT ![h] = pc'[h]] /\ pc'[h] \in {"lookup", "update"}
            /\ tx' = [tx EXCEPT ![h] = "booked"] /\ UNCHANGED <<at, wants>>
            /\ \A g \in Handlers \ {h} : ~ HoldsKey(g, at[h], wants[h])
            /\ booked[at[h]][wants[h]] = 0
        BY <1>1, <1>7, <2>1, <2>3 DEF InsertBooking, Goto, TypeOK, HoldsAccounts, HoldsKey
      <3>2. TypeOK'
        BY <1>1, <1>3, <2>1, <3>1 DEF TypeOK, Stage, db
      <3>. QED
        BY <1>1, <1>2, <2>1, <3>1, <3>2, HandlerStep
        DEF TypeOK, KeptApart, Deciding, PastBooking
    <2>. QED
      BY <2>2, <2>3
  <1>8. CASE LookupCredits(h) \/ CreditsFail(h)
    <2>1. /\ pc' = [pc EXCEPT ![h] = pc'[h]] /\ pc'[h] \in {"credit", "update"}
          /\ pc'[h] = "credit" => ~ restored[at[h]] > 0
          /\ pc[h] \in {"lookup", "credit"} /\ UNCHANGED <<db, at, wants, tx>>
          /\ faults' \in 0 .. MaxFaults
      BY <1>1, <1>8, MaxFaultsAssumption
      DEF LookupCredits, CreditsFail, Fault, Goto, TypeOK
    <2>2. TypeOK'
      BY <1>1, <1>3, <2>1 DEF TypeOK, Stage, db
    <2>3. restored[at[h]] \in Nat
      BY <1>1, <1>3 DEF TypeOK
    <2>4. pc'[h] = "credit" => restored'[at'[h]] = 0
      BY <1>2, <2>1, <2>3
    <2>. QED
      BY <1>1, <1>2, <2>1, <2>2, <2>4, HandlerStep
      DEF TypeOK, Stages, KeysHeld, KeptApart, Deciding, PastBooking
  <1>9. CASE UpdateStatus(h)
    <2>1. /\ pc' = [pc EXCEPT ![h] = "commit"] /\ pc[h] = "update"
          /\ tx[h] # "expired" /\ UNCHANGED <<db, at, wants, tx, faults>>
      BY <1>9 DEF UpdateStatus, Goto
    <2>2. TypeOK'
      BY <1>1, <1>3, <2>1 DEF TypeOK, Stage, db
    <2>. QED
      BY <1>1, <1>2, <2>1, <2>2, HandlerStep
      DEF TypeOK, Stages, KeysHeld, KeptApart, Deciding, PastBooking
  <1>10. CASE Expire(h)
    <2>1. /\ tx' = [tx EXCEPT ![h] = "expired"] /\ pc[h] \in {"lookup", "credit"}
          /\ faults' \in 0 .. MaxFaults /\ UNCHANGED <<db, pc, at, wants>>
      BY <1>1, <1>10, MaxFaultsAssumption DEF Expire, Fault, TypeOK
    <2>2. TypeOK'
      BY <1>1, <1>3, <2>1 DEF TypeOK, Stage, db
    <2>. QED
      BY <1>1, <1>2, <2>1, <2>2, HandlerStep
      DEF TypeOK, Stages, KeptApart, Deciding, PastBooking
  <1>. QED
    BY <1>5, <1>6, <1>7, <1>8, <1>9, <1>10

\* A restoration commits by itself, and what had asked for it goes on.
LEMMA RestoreStep ==
  ASSUME DisputesInv, NEW h \in Handlers, RestoreCredits(h)
  PROVE  DisputesInv'
  <1>1. TypeOK /\ Stages /\ KeysHeld /\ KeptApart /\ RestoredAtMostOnce
    BY DEF DisputesInv
  <1>2. /\ pc[h] = "credit" /\ at[h] \in Disputes /\ pc'[h] = "update"
        /\ pc' = [pc EXCEPT ![h] = "update"]
        /\ restored' = [restored EXCEPT ![at[h]] = restored[at[h]] + 1]
        /\ UNCHANGED <<status, booked, evidence, at, wants, tx, faults>>
    BY <1>1 DEF RestoreCredits, Goto, TypeOK
  <1>3. TypeOK'
    BY <1>1, <1>2 DEF TypeOK, Stage
  <1>4. RestoredAtMostOnce'
    <2>1. \A d \in Apart : d # at[h] => restored'[d] = restored[d]
      BY <1>1, <1>2, ApartAssumption DEF TypeOK
    <2>2. at[h] \in Apart => restored'[at[h]] = 1
      BY <1>1, <1>2 DEF TypeOK, KeptApart
    <2>. QED
      BY <1>1, <2>1, <2>2 DEF RestoredAtMostOnce
  <1>5. \A g \in Handlers \ {h} :
          at[g] \in Apart => restored'[at[g]] = restored[at[g]]
    <2>1. SUFFICES ASSUME NEW g \in Handlers \ {h}, at[g] \in Apart
                   PROVE  restored'[at[g]] = restored[at[g]]
      OBVIOUS
    <2>2. at[g] # at[h]
      BY <1>1, <2>1 DEF KeptApart
    <2>. QED
      BY <1>1, <1>2, <2>1, <2>2, ApartAssumption DEF TypeOK
  <1>. QED
    BY <1>1, <1>2, <1>3, <1>4, <1>5, HandlerStep
    DEF TypeOK, Stages, KeysHeld, KeptApart, Deciding, PastBooking

\* A dispute that is open has nothing booked for it, where calls are apart.
LEMMA OpenIsUnbooked ==
  ASSUME DisputesInv, NEW d \in Apart, status[d] \notin Outcome, NEW o \in Outcome
  PROVE  booked[d][o] = 0
  <1>1. booked[d][o] \in Nat /\ ~ booked[d][o] > 0
    BY ApartAssumption DEF DisputesInv, TypeOK, BookedIsStatus
  <1>. QED
    BY <1>1

\* The row is opened: nobody has decided anything of it yet.
LEMMA CreateStep ==
  ASSUME DisputesInv, NEW d \in Disputes, CreateDispute(d)
  PROVE  DisputesInv'
  <1>1. /\ TypeOK /\ Stages /\ KeysHeld /\ OutcomeBookedOnce
        /\ KeptApart /\ BookedIsStatus /\ RestoredAtMostOnce
    BY DEF DisputesInv
  <1>2. /\ status[d] = "none" /\ status' = [status EXCEPT ![d] = "OPEN"]
        /\ UNCHANGED <<booked, restored, evidence, pc, at, wants, tx, faults>>
    BY DEF CreateDispute
  <1>3. /\ status'[d] = "OPEN"
        /\ \A e \in Disputes \ {d} : status'[e] = status[e]
    BY <1>1, <1>2 DEF TypeOK
  <1>4. TypeOK' /\ Stages' /\ KeysHeld' /\ RestoredAtMostOnce'
    BY <1>1, <1>2
    DEF TypeOK, Stages, KeysHeld, HoldsKey, RestoredAtMostOnce, Open
  <1>5. OutcomeBookedOnce'
    BY <1>1, <1>2, <1>3 DEF OutcomeBookedOnce, Outcome
  <1>6. KeptApart'
    BY <1>1, <1>2, <1>3, ApartAssumption DEF KeptApart, Open
  <1>7. BookedIsStatus'
    <2>1. d \in Apart => \A o \in Outcome : booked[d][o] = 0
      BY <1>2, OpenIsUnbooked DEF Outcome
    <2>. QED
      BY <1>1, <1>2, <1>3, <2>1, ApartAssumption DEF BookedIsStatus
  <1>. QED
    BY <1>4, <1>5, <1>6, <1>7 DEF DisputesInv

\* On a dispute whose calls may overlap this can undo a decision; its booking
\* stays.
LEMMA SubmitStep ==
  ASSUME DisputesInv, NEW h \in Handlers, SubmitEvidence(h)
  PROVE  DisputesInv'
  <1>1. /\ TypeOK /\ Stages /\ KeysHeld /\ OutcomeBookedOnce
        /\ KeptApart /\ BookedIsStatus /\ RestoredAtMostOnce
    BY DEF DisputesInv
  <1>2. /\ pc[h] = "submit" /\ at[h] \in Disputes
        /\ status' = [status EXCEPT ![at[h]] = "EVIDENCE_SUBMITTED"]
        /\ UNCHANGED <<booked, restored, evidence, wants, faults>>
    BY <1>1 DEF SubmitEvidence, Answer, TypeOK
  <1>3. /\ pc' = [pc EXCEPT ![h] = "idle"] /\ at' = [at EXCEPT ![h] = NoDispute]
        /\ tx' = [tx EXCEPT ![h] = "none"]
    BY DEF SubmitEvidence, Answer, Goto
  <1>4. /\ status'[at[h]] = "EVIDENCE_SUBMITTED"
        /\ \A e \in Disputes : e # at[h] => status'[e] = status[e]
        /\ pc'[h] = "idle" /\ at'[h] = NoDispute /\ tx'[h] = "none"
        /\ \A g \in Handlers \ {h} :
             pc'[g] = pc[g] /\ at'[g] = at[g] /\ tx'[g] = tx[g]
    BY <1>1, <1>2, <1>3 DEF TypeOK
  <1>5. TypeOK'
    BY <1>1, <1>2, <1>3 DEF TypeOK, Open, Stage
  <1>6. Stages'
    BY <1>1, <1>2, <1>4 DEF Stages, Deciding, PastBooking
  <1>7. KeysHeld' /\ RestoredAtMostOnce'
    BY <1>1, <1>2, <1>4 DEF KeysHeld, HoldsKey, RestoredAtMostOnce
  <1>8. OutcomeBookedOnce'
    BY <1>1, <1>2, <1>4 DEF OutcomeBookedOnce, Outcome
  <1>9. KeptApart'
    <2>1. NoDispute \notin Apart
      BY NoDisputeAssumption, ApartAssumption
    <2>2. \A g \in Handlers \ {h} : at[g] \in Apart => at[g] # at[h]
      BY <1>1 DEF KeptApart
    <2>3. \A g \in Handlers \ {h} : at[g] \in Apart => status'[at[g]] = status[at[g]]
      BY <1>4, <2>2, ApartAssumption
    <2>. QED
      BY <1>1, <1>2, <1>4, <2>1, <2>3 DEF KeptApart
  <1>10. BookedIsStatus'
    <2>1. at[h] \in Apart => \A o \in Outcome : booked[at[h]][o] = 0
      BY <1>1, <1>2, OpenIsUnbooked DEF KeptApart, Outcome
    <2>. QED
      BY <1>1, <1>2, <1>4, <2>1, ApartAssumption DEF BookedIsStatus
  <1>. QED
    BY <1>5, <1>6, <1>7, <1>8, <1>9, <1>10 DEF DisputesInv

\* What the commit of an outcome makes of the dispute it is about.
LEMMA CommitEffect ==
  ASSUME DisputesInv, NEW h \in Handlers, CommitOutcome(h)
  PROVE  /\ at[h] \in Disputes /\ wants[h] \in Outcome
         /\ status' = [status EXCEPT ![at[h]] = wants[h]]
         /\ booked'[at[h]][wants[h]] = 1
         /\ \A d \in Disputes, o \in Outcome :
              d # at[h] \/ o # wants[h] \/ tx[h] # "booked" =>
                booked'[d][o] = booked[d][o]
         /\ booked' \in [Disputes -> [Outcome -> Nat]]
         /\ at[h] \in Apart =>
              /\ status[at[h]] \in Open
              /\ \A o \in Outcome : booked[at[h]][o] = 0
  <1>1. /\ TypeOK /\ Stages /\ KeysHeld /\ OutcomeBookedOnce /\ KeptApart
    BY DEF DisputesInv
  <1>2. pc[h] = "commit" /\ at[h] \in Disputes /\ wants[h] \in Outcome
    BY <1>1 DEF CommitOutcome, TypeOK, Stages, Deciding
  <1>3. at[h] \in Apart =>
          /\ status[at[h]] \in Open
          /\ \A o \in Outcome : booked[at[h]][o] = 0
    BY <1>1, <1>2, OpenIsUnbooked DEF KeptApart, Deciding, Open, Outcome
  <1>4. booked[at[h]][wants[h]] \in Nat /\ booked[at[h]][wants[h]] <= 1
    BY <1>1, <1>2 DEF TypeOK, OutcomeBookedOnce
  <1>5. CASE tx[h] = "booked"
    <2>1. booked' = [booked EXCEPT ![at[h]][wants[h]] = booked[at[h]][wants[h]] + 1]
          /\ booked[at[h]][wants[h]] = 0
      BY <1>1, <1>5 DEF CommitOutcome, KeysHeld
    <2>2. booked' = [booked EXCEPT ![at[h]][wants[h]] = 1]
      BY <2>1
    <2>. QED
      BY <1>1, <1>2, <1>3, <2>2 DEF CommitOutcome, TypeOK
  <1>6. CASE tx[h] # "booked"
    <2>1. booked' = booked /\ booked[at[h]][wants[h]] > 0
      BY <1>1, <1>2, <1>6 DEF CommitOutcome, TypeOK, Stages, PastBooking
    <2>. QED
      BY <1>1, <1>2, <1>3, <1>4, <2>1 DEF CommitOutcome, TypeOK
  <1>. QED
    BY <1>5, <1>6

LEMMA CommitStep ==
  ASSUME DisputesInv, NEW h \in Handlers, CommitOutcome(h)
  PROVE  DisputesInv'
  <1>1. /\ TypeOK /\ Stages /\ KeysHeld /\ OutcomeBookedOnce
        /\ KeptApart /\ BookedIsStatus /\ RestoredAtMostOnce
    BY DEF DisputesInv
  <1>2. /\ at[h] \in Disputes /\ wants[h] \in Outcome
        /\ status' = [status EXCEPT ![at[h]] = wants[h]]
        /\ booked'[at[h]][wants[h]] = 1
        /\ \A d \in Disputes, o \in Outcome :
             d # at[h] \/ o # wants[h] \/ tx[h] # "booked" =>
               booked'[d][o] = booked[d][o]
        /\ booked' \in [Disputes -> [Outcome -> Nat]]
        /\ at[h] \in Apart => \A o \in Outcome : booked[at[h]][o] = 0
    BY CommitEffect
  <1>3. /\ pc' = [pc EXCEPT ![h] = "idle"] /\ at' = [at EXCEPT ![h] = NoDispute]
        /\ tx' = [tx EXCEPT ![h] = "none"]
        /\ UNCHANGED <<restored, evidence, wants, faults>>
    BY DEF CommitOutcome, Answer, Goto
  <1>4. /\ status'[at[h]] = wants[h]
        /\ \A e \in Disputes : e # at[h] => status'[e] = status[e]
        /\ pc'[h] = "idle" /\ at'[h] = NoDispute /\ tx'[h] = "none"
        /\ \A g \in Handlers \ {h} :
             pc'[g] = pc[g] /\ at'[g] = at[g] /\ tx'[g] = tx[g]
    BY <1>1, <1>2, <1>3 DEF TypeOK
  <1>5. TypeOK'
    BY <1>1, <1>2, <1>3 DEF TypeOK, Stage
  <1>6. \A d \in Disputes, o \in Outcome :
          booked[d][o] > 0 => booked'[d][o] > 0
    BY <1>2
  <1>7. Stages'
    <2>1. \A g \in Handlers \ {h} : pc[g] \in PastBooking =>
            at[g] \in Disputes /\ wants[g] \in Outcome
      BY <1>1 DEF TypeOK, Stages, PastBooking, Deciding
    <2>. QED
      BY <1>1, <1>3, <1>4, <1>6, <2>1 DEF Stages, Deciding, PastBooking
  <1>8. KeysHeld'
    <2>1. SUFFICES ASSUME NEW g \in Handlers, tx'[g] = "booked"
                   PROVE  /\ booked'[at'[g]][wants'[g]] = 0
                          /\ \A f \in Handlers :
                               HoldsKey(f, at[g], wants[g])' => f = g
      BY <1>4 DEF KeysHeld, HoldsKey
    <2>2. /\ g # h /\ tx[g] = "booked" /\ at'[g] = at[g] /\ wants'[g] = wants[g]
          /\ booked[at[g]][wants[g]] = 0
      BY <1>1, <1>3, <1>4, <2>1 DEF KeysHeld
    <2>3. pc[g] \notin {"idle", "evidence", "submit"}
      BY <1>1, <2>2 DEF Stages
    <2>4. at[g] \in Disputes /\ wants[g] \in Outcome
      BY <1>1, <2>3 DEF Stages, TypeOK, Deciding, Stage
    <2>5. at[g] # at[h] \/ wants[g] # wants[h] \/ tx[h] # "booked"
      BY <1>1, <2>2 DEF KeysHeld, HoldsKey
    <2>. QED
      BY <1>1, <1>2, <1>3, <1>4, <2>2, <2>4, <2>5 DEF KeysHeld, HoldsKey
  <1>9. OutcomeBookedOnce'
    BY <1>1, <1>2, <1>4 DEF OutcomeBookedOnce
  <1>10. KeptApart'
    <2>1. NoDispute \notin Apart
      BY NoDisputeAssumption, ApartAssumption
    <2>2. \A g \in Handlers \ {h} : at[g] \in Apart => at[g] # at[h]
      BY <1>1 DEF KeptApart
    <2>3. \A g \in Handlers \ {h} : at[g] \in Apart => status'[at[g]] = status[at[g]]
      BY <1>4, <2>2, ApartAssumption
    <2>. QED
      BY <1>1, <1>3, <1>4, <2>1, <2>3 DEF KeptApart
  <1>11. BookedIsStatus'
    BY <1>1, <1>2, <1>4, ApartAssumption DEF BookedIsStatus
  <1>12. RestoredAtMostOnce'
    BY <1>1, <1>3 DEF RestoredAtMostOnce
  <1>. QED
    BY <1>5, <1>7, <1>8, <1>9, <1>10, <1>11, <1>12 DEF DisputesInv
-----------------------------------------------------------------------------
LEMMA DisputesNext ==
  ASSUME DisputesInv, [Next]_vars
  PROVE  DisputesInv'
  <1>1. TypeOK /\ RestoredAtMostOnce
    BY DEF DisputesInv
  <1>2. ASSUME NEW d \in Disputes, CreateDispute(d)
        PROVE  DisputesInv'
    BY <1>2, CreateStep
  <1>3. ASSUME NEW d \in Disputes, NEW h \in Handlers, MayCall(d),
               ReadForEvidence(h, d) \/ \E o \in Outcomes : SetOutcome(h, d, o)
        PROVE  DisputesInv'
    BY <1>3, StartStep
  <1>4. ASSUME NEW h \in Handlers, Step(h) \/ CreditsFail(h) \/ Expire(h)
        PROVE  DisputesInv'
    <2>1. CASE ExpiredFails(h)
      <3>1. Answer(h) /\ UNCHANGED <<db, faults>>
        BY <2>1 DEF ExpiredFails
      <3>2. TypeOK'
        BY <1>1, <3>1 DEF TypeOK, Answer, Goto, Stage, db
      <3>. QED
        BY <3>1, <3>2, AnswerStep DEF db
    <2>. QED
      BY <1>4, <2>1, OpenStep, RestoreStep, SubmitStep, CommitStep DEF Step
  <1>5. ASSUME NEW h \in Handlers, Fail(h)
        PROVE  DisputesInv'
    <2>1. Answer(h) /\ UNCHANGED db /\ faults' \in 0 .. MaxFaults
      BY <1>1, <1>5, MaxFaultsAssumption DEF Fail, Fault, TypeOK
    <2>2. TypeOK'
      BY <1>1, <2>1 DEF TypeOK, Answer, Goto, Stage, db
    <2>. QED
      BY <2>1, <2>2, AnswerStep DEF db
  <1>6. CASE Crash
    <2>1. /\ pc' = [h \in Handlers |-> "idle"]
          /\ at' = [h \in Handlers |-> NoDispute]
          /\ tx' = [h \in Handlers |-> "none"]
          /\ UNCHANGED <<db, wants>> /\ faults' \in 0 .. MaxFaults
      BY <1>1, <1>6, MaxFaultsAssumption DEF Crash, Fault, TypeOK
    <2>2. NoDispute \notin Apart
      BY NoDisputeAssumption, ApartAssumption
    <2>3. TypeOK'
      BY <1>1, <2>1 DEF TypeOK, Stage, db
    <2>. QED
      BY <2>1, <2>2, <2>3
      DEF DisputesInv, Stages, KeysHeld, HoldsKey, OutcomeBookedOnce, KeptApart,
          BookedIsStatus, RestoredAtMostOnce, db, Deciding, PastBooking
  <1>7. CASE UNCHANGED vars
    BY <1>7
    DEF vars, db, DisputesInv, TypeOK, Stages, KeysHeld, HoldsKey,
        OutcomeBookedOnce, KeptApart, BookedIsStatus, RestoredAtMostOnce
  <1>. QED
    BY <1>2, <1>3, <1>4, <1>5, <1>6, <1>7 DEF Next

LEMMA DisputesInvariant == Spec => []DisputesInv
  <1>1. Init => DisputesInv
    BY DisputesInit
  <1>2. DisputesInv /\ [Next]_vars => DisputesInv'
    BY DisputesNext
  <1>. QED
    BY <1>1, <1>2, PTL DEF Spec

\* Every variable of disputes.service.ts's model keeps its type.
THEOREM DisputesTypes == Spec => []TypeOK
  BY DisputesInvariant, PTL DEF DisputesInv

\* However many admins and failures, setOutcome books an outcome of a dispute
\* once, and a dispute that shows an outcome has it booked.
THEOREM OutcomesBookedOnce == Spec => []OutcomeBookedOnce
  BY DisputesInvariant, PTL DEF DisputesInv

\* WON and LOST are never both booked for a dispute whose calls are kept apart.
THEOREM OutcomesExcluded == Spec => []OneOutcome
  <1>1. DisputesInv => OneOutcome
    <2>1. SUFFICES ASSUME DisputesInv, NEW d \in Apart,
                          booked[d]["WON"] > 0, booked[d]["LOST"] > 0
                   PROVE  FALSE
      BY DEF OneOutcome
    <2>2. status[d] = "WON" /\ status[d] = "LOST"
      BY <2>1 DEF DisputesInv, BookedIsStatus, Outcome
    <2>. QED
      BY <2>2
  <1>. QED
    BY <1>1, DisputesInvariant, PTL

\* Such a dispute gives its credits back once at most.
THEOREM RestoredOnce == Spec => []RestoredAtMostOnce
  BY DisputesInvariant, PTL DEF DisputesInv
-----------------------------------------------------------------------------
\* What a step does to the dispute it touches, seen as a case.
LEMMA CaseStep ==
  ASSUME DisputesInv, [Next]_vars
  PROVE  [Case!Next]_(Case!vars)
  <1> DEFINE st == [d \in Apart |-> status[d]]
             bk == [d \in Apart |-> {o \in Outcome : booked[d][o] > 0}]
  <1>1. /\ TypeOK /\ Stages /\ KeptApart /\ BookedIsStatus
    BY DEF DisputesInv
  <1>2. CASE UNCHANGED <<status, booked>>
    <2>1. st' = st /\ bk' = bk
      BY <1>2
    <2>. QED
      BY <2>1 DEF Case!vars
  <1>3. ASSUME NEW d \in Disputes, CreateDispute(d)
        PROVE  [Case!Next]_(Case!vars)
    <2>1. /\ status[d] = "none" /\ status' = [status EXCEPT ![d] = "OPEN"]
          /\ booked' = booked
      BY <1>3 DEF CreateDispute
    <2>2. bk' = bk
      BY <2>1
    <2>3. CASE d \in Apart
      <3>1. st[d] = "none" /\ st' = [st EXCEPT ![d] = "OPEN"]
        BY <1>1, <2>1, <2>3, ApartAssumption DEF TypeOK
      <3>. QED
        BY <2>2, <2>3, <3>1 DEF Case!Next, Case!Open
    <2>4. CASE d \notin Apart
      <3>1. st' = st
        BY <1>1, <2>1, <2>4, ApartAssumption DEF TypeOK
      <3>. QED
        BY <2>2, <3>1 DEF Case!vars
    <2>. QED
      BY <2>3, <2>4
  <1>4. ASSUME NEW h \in Handlers, SubmitEvidence(h)
        PROVE  [Case!Next]_(Case!vars)
    <2>1. /\ status' = [status EXCEPT ![at[h]] = "EVIDENCE_SUBMITTED"]
          /\ booked' = booked /\ pc[h] = "submit"
      BY <1>4 DEF SubmitEvidence
    <2>2. bk' = bk
      BY <2>1
    <2>3. CASE at[h] \in Apart
      <3>1. st[at[h]] = "OPEN" /\ st' = [st EXCEPT ![at[h]] = "EVIDENCE_SUBMITTED"]
        BY <1>1, <2>1, <2>3, ApartAssumption DEF TypeOK, KeptApart
      <3>. QED
        BY <2>2, <2>3, <3>1 DEF Case!Next, Case!SubmitEvidence
    <2>4. CASE at[h] \notin Apart
      <3>1. st' = st
        BY <1>1, <2>1, <2>4, ApartAssumption DEF TypeOK
      <3>. QED
        BY <2>2, <3>1 DEF Case!vars
    <2>. QED
      BY <2>3, <2>4
  <1>5. ASSUME NEW h \in Handlers, CommitOutcome(h)
        PROVE  [Case!Next]_(Case!vars)
    <2>1. /\ at[h] \in Disputes /\ wants[h] \in Outcome
          /\ status' = [status EXCEPT ![at[h]] = wants[h]]
          /\ booked'[at[h]][wants[h]] = 1
          /\ \A d \in Disputes, o \in Outcome :
               d # at[h] \/ o # wants[h] \/ tx[h] # "booked" =>
                 booked'[d][o] = booked[d][o]
          /\ at[h] \in Apart =>
               /\ status[at[h]] \in Open
               /\ \A o \in Outcome : booked[at[h]][o] = 0
      BY <1>5, CommitEffect
    <2>2. \A d \in Apart : d # at[h] => bk'[d] = bk[d]
      BY <2>1, ApartAssumption
    <2>3. CASE at[h] \in Apart
      <3>1. /\ st[at[h]] \in {"OPEN", "EVIDENCE_SUBMITTED"}
            /\ st' = [st EXCEPT ![at[h]] = wants[h]]
        BY <1>1, <2>1, <2>3, ApartAssumption DEF TypeOK, Open
      <3>2. bk'[at[h]] = {wants[h]}
        BY <2>1, <2>3
      <3>3. bk' = [bk EXCEPT ![at[h]] = {wants[h]}]
        BY <2>2, <2>3, <3>2
      <3>. QED
        BY <2>1, <2>3, <3>1, <3>3 DEF Case!Next, Case!Decide, Outcome
    <2>4. CASE at[h] \notin Apart
      <3>1. st' = st /\ bk' = bk
        BY <1>1, <2>1, <2>2, <2>4, ApartAssumption DEF TypeOK
      <3>. QED
        BY <3>1 DEF Case!vars
    <2>. QED
      BY <2>3, <2>4
  <1>6. \/ UNCHANGED <<status, booked>>
        \/ \E d \in Disputes : CreateDispute(d)
        \/ \E h \in Handlers : SubmitEvidence(h) \/ CommitOutcome(h)
    BY DEF Next, Step, ReadForEvidence, SetOutcome, Start, CreateEvidence,
           LookupKey, InsertBooking, LookupCredits, RestoreCredits, UpdateStatus,
           ExpiredFails, CreditsFail, Expire, Fail, Crash, vars, db
  <1>. QED
    BY <1>2, <1>3, <1>4, <1>5, <1>6

\* Where calls are kept apart, the service is the case it promises: opened,
\* maybe with evidence, decided once, decision and booking in one step.
THEOREM DisputesImplementCase == Spec => ImplementsCase
  <1>1. Init => Case!Init
    BY ApartAssumption DEF Init, Case!Init, Outcome
  <1>2. DisputesInv /\ [Next]_vars => [Case!Next]_(Case!vars)
    BY CaseStep
  <1>. QED
    BY <1>1, <1>2, DisputesInvariant, PTL DEF Spec, ImplementsCase, Case!Spec

\* A decided case stays as it is, whatever calls come after.
THEOREM DecisionsAreTerminal == Spec => TerminalStays
  <1>1. DisputesInv /\ [Next]_vars =>
          [\A d \in Apart : status[d] \in Outcome => status'[d] = status[d]]_vars
    <2>1. SUFFICES ASSUME DisputesInv, [Next]_vars, NEW d \in Apart,
                          status[d] \in Outcome
                   PROVE  status'[d] = status[d]
      OBVIOUS
    <2>2. TypeOK /\ KeptApart /\ d \in Disputes
      BY <2>1, ApartAssumption DEF DisputesInv
    <2>3. CASE UNCHANGED status
      BY <2>3
    <2>4. ASSUME NEW e \in Disputes, CreateDispute(e)
          PROVE  status'[d] = status[d]
      BY <2>1, <2>2, <2>4 DEF CreateDispute, TypeOK, Outcome
    <2>5. ASSUME NEW h \in Handlers, SubmitEvidence(h)
          PROVE  status'[d] = status[d]
      <3>1. at[h] # d
        BY <2>1, <2>2, <2>5 DEF SubmitEvidence, KeptApart, Outcome
      <3>. QED
        BY <2>2, <2>5, <3>1 DEF SubmitEvidence, TypeOK
    <2>6. ASSUME NEW h \in Handlers, CommitOutcome(h)
          PROVE  status'[d] = status[d]
      <3>1. at[h] # d
        BY <2>1, <2>6, CommitEffect DEF Outcome, Open
      <3>. QED
        BY <2>2, <2>6, <3>1 DEF CommitOutcome, TypeOK
    <2>7. \/ UNCHANGED status
          \/ \E e \in Disputes : CreateDispute(e)
          \/ \E h \in Handlers : SubmitEvidence(h) \/ CommitOutcome(h)
      BY <2>1
      DEF Next, Step, ReadForEvidence, SetOutcome, Start, CreateEvidence,
          LookupKey, InsertBooking, LookupCredits, RestoreCredits, UpdateStatus,
          ExpiredFails, CreditsFail, Expire, Fail, Crash, vars, db
    <2>. QED
      BY <2>3, <2>4, <2>5, <2>6, <2>7
  <1>. QED
    BY <1>1, DisputesInvariant, PTL DEF Spec, TerminalStays
-----------------------------------------------------------------------------
\* Behind the page of a patient admin only the awaited call is in progress.
Awaited ==
  /\ \A g, h \in by : g = h
  /\ Patient => \A h \in Handlers \ by : at[h] = NoDispute

PageInv == DisputesInv /\ PageTypeOK /\ Awaited

\* A handler goes on or ends.
LEMMA Proceeds ==
  ASSUME TypeOK, NEW h \in Handlers,
         Step(h) \/ CreditsFail(h) \/ Expire(h) \/ Fail(h)
  PROVE  /\ pc[h] # "idle"
         /\ pc' = [pc EXCEPT ![h] = pc'[h]]
         /\ \/ at' = at /\ pc'[h] # "idle"
            \/ at' = [at EXCEPT ![h] = NoDispute] /\ pc'[h] = "idle"
  BY DEF TypeOK, Step, CreateEvidence, SubmitEvidence, LookupKey, InsertBooking,
         LookupCredits, RestoreCredits, UpdateStatus, CommitOutcome,
         ExpiredFails, CreditsFail, Expire, Fail, Answer, Goto, Stage

\* What the page does by itself the service does not notice, and the call of a
\* patient admin finds no other on its dispute.
LEMMA PageStepIsCall ==
  ASSUME PageInv, PageNext
  PROVE  [Next]_vars
  <1>1. CASE Opened
    BY <1>1 DEF Opened, Next, PageInv, PageTypeOK
  <1>2. ASSUME NEW h \in Handlers, Reach(h)
        PROVE  [Next]_vars
    <2>1. CASE UNCHANGED vars
      BY <2>1
    <2>2. CASE ReadForEvidence(h, on) \/ \E o \in Outcomes : SetOutcome(h, on, o)
      <3>1. on \in Disputes /\ by = {}
        BY <1>2 DEF Reach, PageInv, PageTypeOK
      <3>2. MayCall(on)
        BY <3>1, NoDisputeAssumption DEF PageInv, Awaited, Patient, MayCall
      <3>. QED
        BY <2>2, <3>1, <3>2 DEF Next
    <2>. QED
      BY <1>2, <2>1, <2>2 DEF Reach
  <1>3. ASSUME NEW h \in Handlers, Serve(h)
        PROVE  [Next]_vars
    BY <1>3 DEF Serve, Next
  <1>4. CASE ServerFails
    BY <1>4 DEF ServerFails, Next
  <1>5. CASE UNCHANGED vars
    BY <1>5
  <1>. QED
    BY <1>1, <1>2, <1>3, <1>4, <1>5
    DEF PageNext, PageStep, Click, Answered, ReadStatus, Loaded, LoseCall,
        LoadFails, Reopen
\* What the service's steps may do to the page: the awaited call ends with an
\* answer or an error, and no other call matters to it.
LEMMA HeardStep ==
  ASSUME PageInv, TypeOK', NEW h \in Handlers, NEW good \in BOOLEAN,
         Step(h) \/ CreditsFail(h) \/ Expire(h) \/ Fail(h), Hears(h, good)
  PROVE  PageTypeOK' /\ Awaited'
  <1>1. TypeOK /\ Stages /\ PageTypeOK /\ Awaited
    BY DEF PageInv, DisputesInv
  <1>2. /\ pc[h] # "idle"
        /\ pc' = [pc EXCEPT ![h] = pc'[h]]
        /\ \/ at' = at /\ pc'[h] # "idle"
           \/ at' = [at EXCEPT ![h] = NoDispute] /\ pc'[h] = "idle"
    BY <1>1, Proceeds
  <1>3. \A g \in Handlers \ {h} : pc'[g] = pc[g] /\ at'[g] = at[g]
    BY <1>1, <1>2 DEF TypeOK
  <1>4. CASE h \in by /\ pc'[h] = "idle"
    <2>1. /\ by = {h} /\ step = "work" /\ ask = "none"
          /\ by' = {} /\ step' \in {"ok", "none"} /\ failed' \in BOOLEAN
          /\ UNCHANGED <<on, shown, ask, seen, losses>>
      BY <1>1, <1>4 DEF Hears, Refused, PageTypeOK, Awaited, Steps
    <2>2. at'[h] = NoDispute
      BY <1>1, <1>2, <1>4 DEF TypeOK
    <2>3. PageTypeOK'
      BY <1>1, <2>1 DEF PageTypeOK, Steps
    <2>4. Awaited'
      BY <1>1, <1>3, <2>1, <2>2 DEF Awaited, Patient
    <2>. QED
      BY <2>3, <2>4
  <1>5. CASE ~ (h \in by /\ pc'[h] = "idle")
    <2>1. UNCHANGED <<on, shown, failed, step, ask, by, seen, losses>>
      BY <1>5 DEF Hears
    <2>2. h \in by => pc'[h] # "idle" /\ at'[h] = at[h]
      BY <1>2, <1>5
    <2>3. h \notin by /\ at[h] = NoDispute => at'[h] = NoDispute
      BY <1>1, <1>2 DEF TypeOK
    <2>4. PageTypeOK'
      BY <1>1, <1>3, <2>1, <2>2 DEF PageTypeOK
    <2>5. Awaited'
      BY <1>1, <1>3, <2>1, <2>3 DEF Awaited, Patient
    <2>. QED
      BY <2>4, <2>5
  <1>. QED
    BY <1>4, <1>5

LEMMA PageNextInv ==
  ASSUME PageInv, [PageNext]_allVars
  PROVE  PageInv'
  <1>1. DisputesInv'
    BY PageStepIsCall, DisputesNext DEF PageInv, allVars
  <1>2. /\ TypeOK /\ TypeOK' /\ Stages /\ PageTypeOK /\ Awaited
    BY <1>1 DEF PageInv, DisputesInv
  <1>3. SUFFICES PageTypeOK' /\ Awaited'
    BY <1>1 DEF PageInv
  <1>4. CASE Opened
    BY <1>2, <1>4
    DEF Opened, CreateDispute, page, PageTypeOK, Awaited, Patient
  <1>5. ASSUME NEW what \in Outcomes \cup {"evidence"}, Click(what)
        PROVE  PageTypeOK' /\ Awaited'
    BY <1>2, <1>5, OutcomesAssumption
    DEF Click, Clickable, vars, PageTypeOK, Awaited, Patient, Steps, Outcome
  <1>6. ASSUME NEW h \in Handlers, Reach(h)
        PROVE  PageTypeOK' /\ Awaited'
    <2>1. /\ by = {} /\ step = "post" /\ ask' = "none" /\ pc[h] = "idle"
          /\ UNCHANGED <<on, shown, seen, losses>>
      BY <1>2, <1>6 DEF Reach, PageTypeOK
    <2>2. CASE UNCHANGED vars /\ Refused
      BY <1>2, <2>1, <2>2
      DEF Refused, vars, PageTypeOK, Awaited, Patient, Steps
    <2>3. CASE /\ ReadForEvidence(h, on) \/ \E o \in Outcomes : SetOutcome(h, on, o)
               /\ step' = "work" /\ by' = {h} /\ UNCHANGED failed
      <3>1. /\ pc'[h] # "idle" /\ at'[h] = on
            /\ \A g \in Handlers \ {h} : at'[g] = at[g]
        BY <1>2, <2>3
        DEF ReadForEvidence, SetOutcome, Start, Goto, TypeOK, PageTypeOK
      <3>. QED
        BY <1>2, <2>1, <2>3, <3>1 DEF PageTypeOK, Awaited, Patient, Steps
    <2>. QED
      BY <1>6, <2>2, <2>3 DEF Reach
  <1>7. ASSUME NEW h \in Handlers, Serve(h)
        PROVE  PageTypeOK' /\ Awaited'
    BY <1>2, <1>7, HeardStep DEF Serve
  <1>8. ASSUME NEW h \in Handlers,
               CreditsFail(h) \/ Expire(h) \/ Fail(h), Hears(h, FALSE)
        PROVE  PageTypeOK' /\ Awaited'
    BY <1>2, <1>8, HeardStep
  <1>9. ASSUME Crash, IF step = "work" THEN Refused ELSE UNCHANGED <<step, by, failed>>,
               UNCHANGED <<on, shown, ask, seen, losses>>
        PROVE  PageTypeOK' /\ Awaited'
    <2>1. at' = [h \in Handlers |-> NoDispute] /\ by' = {} /\ by' \in SUBSET Handlers
      BY <1>2, <1>9 DEF Crash, Refused, PageTypeOK
    <2>2. Awaited'
      BY <2>1 DEF Awaited
    <2>3. PageTypeOK'
      BY <1>2, <1>9, <2>1 DEF Refused, PageTypeOK, Steps
    <2>. QED
      BY <2>2, <2>3
  <1>10. CASE Answered \/ ReadStatus \/ Loaded \/ LoadFails
    <2>1. by = {} /\ by' = {} /\ ask = "none" /\ ask' = "none"
      BY <1>2, <1>10 DEF Answered, ReadStatus, Loaded, LoadFails, PageTypeOK
    <2>2. /\ UNCHANGED <<on, pc, at>>
          /\ step' \in {"none", "get", "got"}
          /\ failed' \in BOOLEAN
      BY <1>2, <1>10
      DEF Answered, ReadStatus, Loaded, LoadFails, vars, PageTypeOK
    <2>3. /\ shown' \in {"none"} \cup Open \cup Outcome
          /\ seen' \in {"none"} \cup Open \cup Outcome
      BY <1>2, <1>10
      DEF Answered, ReadStatus, Loaded, LoadFails, PageTypeOK, TypeOK
    <2>4. losses' \in 0 .. MaxLosses
      BY <1>2, <1>10, MaxLossesAssumption
      DEF Answered, ReadStatus, Loaded, LoadFails, Lose, PageTypeOK
    <2>. QED
      BY <1>2, <2>1, <2>2, <2>3, <2>4 DEF PageTypeOK, Awaited, Patient, Steps
  <1>11. CASE LoseCall \/ Reopen
    <2>1. by' = {} /\ ask' = "none" /\ (Patient => by = {})
      BY <1>2, <1>11 DEF LoseCall, Reopen, Refused, PageTypeOK
    <2>2. /\ UNCHANGED <<on, pc, at, seen>>
          /\ step' \in {"none", "get"}
          /\ failed' \in BOOLEAN
          /\ shown' \in {"none"} \cup Open \cup Outcome
      BY <1>2, <1>11 DEF LoseCall, Reopen, Refused, vars, PageTypeOK
    <2>3. losses' \in 0 .. MaxLosses
      BY <1>2, <1>11, MaxLossesAssumption DEF LoseCall, Reopen, Lose, PageTypeOK
    <2>. QED
      BY <1>2, <2>1, <2>2, <2>3 DEF PageTypeOK, Awaited, Patient, Steps
  <1>12. CASE UNCHANGED allVars
    BY <1>2, <1>12 DEF allVars, vars, page, PageTypeOK, Awaited, Patient
  <1>. QED
    BY <1>4, <1>5, <1>6, <1>7, <1>8, <1>9, <1>10, <1>11, <1>12
    DEF PageNext, PageStep, ServerFails

LEMMA PageInvariant == PageSpec => []PageInv
  <1>1. PageInit => PageInv
    <2>1. SUFFICES ASSUME PageInit PROVE PageInv
      OBVIOUS
    <2>2. DisputesInv
      BY <2>1, DisputesInit DEF PageInit
    <2>3. PageTypeOK
      <3>1. losses \in 0 .. MaxLosses
        BY <2>1, MaxLossesAssumption DEF PageInit
      <3>2. /\ TypeOK /\ on \in Disputes
            /\ shown = "none" /\ seen = "none" /\ ask = "none" /\ step = "get"
            /\ failed = FALSE /\ by = {}
        BY <2>1, <2>2 DEF PageInit, DisputesInv
      <3>. QED
        BY <3>1, <3>2 DEF PageTypeOK, Steps
    <2>4. Awaited
      BY <2>1 DEF PageInit, Init, Awaited
    <2>. QED
      BY <2>2, <2>3, <2>4 DEF PageInv
  <1>2. PageInv /\ [PageNext]_allVars => PageInv'
    BY PageNextInv
  <1>. QED
    BY <1>1, <1>2, PTL DEF PageSpec

\* The page's variables keep their types, and the call it waits for is in
\* progress on its dispute.
THEOREM DisputePageTypes == PageSpec => []PageTypeOK
  BY PageInvariant, PTL DEF PageInv

\* The page implements the calls of Disputes: the calls on a patient admin's
\* dispute are kept apart.
THEOREM PageKeepsApart == PageSpec => KeepsCallsApart
  <1>1. PageInit => Init
    BY DEF PageInit
  <1>2. PageInv /\ [PageNext]_allVars => [Next]_vars
    BY PageStepIsCall DEF allVars
  <1>. QED
    BY <1>1, <1>2, PageInvariant, PTL DEF PageSpec, KeepsCallsApart, Spec

\* Hence behind the page a patient admin's dispute is the case promised.
THEOREM PageImplementsCase == PageSpec => ImplementsCase
  BY PageKeepsApart, DisputesImplementCase DEF KeepsCallsApart
=============================================================================
