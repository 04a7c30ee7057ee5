------------------------ MODULE SubscriptionsProofs ------------------------
(***************************************************************************)
(* Theorems about Subscriptions.tla for any number of events and handlers.  *)
(*                                                                          *)
(* PlanIsPaidFor is not inductive: a commit writes what an earlier step has *)
(* prepared.  Needed are what each stage of an event has prepared (Drafts), *)
(* that its dedup row is not there yet and nobody else inserts it (IdsHeld) *)
(* and that one transaction at a time has written the subscription's row,   *)
(* which a cancellation found and no reset removes (RowLocked).             *)
(***************************************************************************)
EXTENDS Subscriptions, TLAPS

Drafts ==
  \A h \in Handlers :
    /\ pc[h] \in InTransaction \cup {"insert"} => ev[h] \in Events
    /\ pc[h] \notin {"gateway", "commit"} => draft[h] = NoRow
    /\ pc[h] \in {"upsert", "gateway"} => ev[h].kind = "activate"
    /\ pc[h] \in {"read", "cancel"} => ev[h].kind = "cancel"
    /\ pc[h] = "gateway" => draft[h] = Active(ev[h].plan)
    /\ pc[h] = "commit" /\ ev[h].kind = "activate" =>
         draft[h] = Active(ev[h].plan)
    /\ pc[h] = "commit" /\ ev[h].kind = "cancel" =>
         draft[h] \in {NoRow, Canceled}

IdsHeld ==
  \A h \in Handlers : pc[h] \in InTransaction =>
    /\ ev[h] \notin processed
    /\ \A g \in Handlers : HoldsId(g, ev[h]) => g = h

RowLocked ==
  \A h \in Handlers : draft[h] # NoRow =>
    /\ \A g \in Handlers : draft[g] # NoRow => g = h
    /\ ev[h].kind = "cancel" => sub # NoRow

SubscriptionsInv ==
  TypeOK /\ Drafts /\ IdsHeld /\ RowLocked /\ PlanIsPaidFor
-----------------------------------------------------------------------------
LEMMA RowTypes ==
  /\ \A p \in Plan : Active(p) \in Row /\ Active(p) # NoRow
  /\ Canceled \in Row /\ Canceled # NoRow
  <1>1. \A p \in Plan : Active(p) \in Row
    BY DEF Active, Row
  <1>2. Canceled \in Row
    BY DEF Canceled, Row, Plan
  <1>. QED
    BY <1>1, <1>2, NoRowAssumption

LEMMA EventFields ==
  \A e \in Events : e.plan \in Plan /\ e.kind \in {"activate", "cancel"}
  BY EventsAssumption DEF Event

LEMMA SubscriptionsInit == Init => SubscriptionsInv
  BY DEF Init, SubscriptionsInv, TypeOK, Drafts, IdsHeld, RowLocked,
         PlanIsPaidFor, InTransaction, HoldsId

\* A handler that is done holds nothing: enough that what becomes of the
\* committed rows suits the others.
LEMMA AnswerStep ==
  ASSUME SubscriptionsInv, NEW h \in Handlers, Answer(h),
         sub' \in Row \cup {NoRow},
         source' \in Events \cup {NoEvent},
         processed' \in SUBSET Events,
         \A g \in Handlers \ {h} :
           /\ pc[g] \in InTransaction => ev[g] \notin processed'
           /\ draft[g] # NoRow => sub' # NoRow \/ sub' = sub
  PROVE  TypeOK' /\ Drafts' /\ IdsHeld' /\ RowLocked'
  <1>1. TypeOK /\ Drafts /\ IdsHeld /\ RowLocked
    BY DEF SubscriptionsInv
  <1>2. /\ pc' = [pc EXCEPT ![h] = "idle"]
        /\ ev' = [ev EXCEPT ![h] = NoEvent]
        /\ draft' = [draft EXCEPT ![h] = NoRow]
    BY DEF Answer, Goto
  <1>3. TypeOK'
    BY <1>1, <1>2 DEF TypeOK
  <1>4. /\ pc'[h] = "idle" /\ draft'[h] = NoRow
        /\ \A g \in Handlers \ {h} :
             pc'[g] = pc[g] /\ ev'[g] = ev[g] /\ draft'[g] = draft[g]
    BY <1>1, <1>2 DEF TypeOK
  <1>5. Drafts'
    BY <1>1, <1>4 DEF Drafts, InTransaction
  <1>6. IdsHeld'
    BY <1>1, <1>4 DEF IdsHeld, HoldsId, InTransaction
  <1>7. RowLocked'
    BY <1>1, <1>4 DEF RowLocked
  <1>. QED
    BY <1>3, <1>5, <1>6, <1>7

\* A step of one handler that leaves what is committed alone: enough that it
\* arrives where its event may be, with an id and a row nobody else holds.
LEMMA HandlerStep ==
  ASSUME SubscriptionsInv, NEW h \in Handlers, UNCHANGED db,
         NEW l \in {"idle", "insert", "pend", "unpend", "drop"} \cup InTransaction,
         NEW e \in Events \cup {NoEvent}, NEW d \in Row \cup {NoRow},
         pc' = [pc EXCEPT ![h] = l],
         ev' = [ev EXCEPT ![h] = e],
         draft' = [draft EXCEPT ![h] = d],
         l \in InTransaction \cup {"insert"} => e \in Events,
         l \notin {"gateway", "commit"} => d = NoRow,
         l \in {"upsert", "gateway"} => e.kind = "activate",
         l \in {"read", "cancel"} => e.kind = "cancel",
         l = "gateway" => d = Active(e.plan),
         l = "commit" /\ e.kind = "activate" => d = Active(e.plan),
         l = "commit" /\ e.kind = "cancel" => d \in {NoRow, Canceled},
         l \in InTransaction =>
           /\ e \notin processed
           /\ \A g \in Handlers \ {h} : ~ HoldsId(g, e),
         d # NoRow =>
           /\ \A g \in Handlers \ {h} : draft[g] = NoRow
           /\ e.kind = "cancel" => sub # NoRow
  PROVE  SubscriptionsInv'
  <1>1. TypeOK /\ Drafts /\ IdsHeld /\ RowLocked /\ PlanIsPaidFor
    BY DEF SubscriptionsInv
  <1>2. TypeOK'
    BY <1>1 DEF TypeOK, db
  <1>3. /\ pc'[h] = l /\ ev'[h] = e /\ draft'[h] = d
        /\ \A g \in Handlers \ {h} :
             pc'[g] = pc[g] /\ ev'[g] = ev[g] /\ draft'[g] = draft[g]
    BY <1>1 DEF TypeOK
  <1>4. Drafts'
    BY <1>1, <1>3 DEF Drafts
  <1>5. IdsHeld'
    BY <1>1, <1>3 DEF IdsHeld, HoldsId, db
  <1>6. RowLocked'
    BY <1>1, <1>3 DEF RowLocked, db
  <1>7. PlanIsPaidFor'
    BY <1>1 DEF PlanIsPaidFor, db
  <1>. QED
    BY <1>2, <1>4, <1>5, <1>6, <1>7 DEF SubscriptionsInv

\* The same of a handler that goes on with its event.
LEMMA AdvanceStep ==
  ASSUME SubscriptionsInv, NEW h \in Handlers, UNCHANGED <<db, ev>>,
         NEW l \in InTransaction, NEW d \in Row \cup {NoRow},
         pc' = [pc EXCEPT ![h] = l],
         draft' = [draft EXCEPT ![h] = d],
         ev[h] \in Events, ev[h] \notin processed,
         \A g \in Handlers \ {h} : ~ HoldsId(g, ev[h]),
         l \notin {"gateway", "commit"} => d = NoRow,
         l \in {"upsert", "gateway"} => ev[h].kind = "activate",
         l \in {"read", "cancel"} => ev[h].kind = "cancel",
         l = "gateway" => d = Active(ev[h].plan),
         l = "commit" /\ ev[h].kind = "activate" => d = Active(ev[h].plan),
         l = "commit" /\ ev[h].kind = "cancel" => d \in {NoRow, Canceled},
         d # NoRow =>
           /\ \A g \in Handlers \ {h} : draft[g] = NoRow
           /\ ev[h].kind = "cancel" => sub # NoRow
  PROVE  SubscriptionsInv'
  <1>1. ev' = [ev EXCEPT ![h] = ev[h]]
    BY DEF SubscriptionsInv, TypeOK
  <1>2. UNCHANGED db /\ l \in InTransaction \cup {"insert"}
    OBVIOUS
  <1>. QED
    BY <1>1, <1>2, HandlerStep
-----------------------------------------------------------------------------
\* What an event prepares, up to its commit.
LEMMA PreparingStep ==
  ASSUME SubscriptionsInv, NEW h \in Handlers,
         \/ \E e \in Events : Deliver(h, e)
         \/ CancelAtPeriodEnd(h) \/ Reactivate(h) \/ CancelImmediately(h)
         \/ InsertDedup(h) \/ UpsertSubscription(h)
         \/ UpsertGatewaySubscription(h) \/ ReadForCancel(h)
         \/ UpdateCanceled(h) \/ Rollback(h)
  PROVE  SubscriptionsInv'
  <1>1. TypeOK /\ Drafts /\ IdsHeld /\ RowLocked
    BY DEF SubscriptionsInv
  <1>2. /\ pc = [pc EXCEPT ![h] = pc[h]]
        /\ ev = [ev EXCEPT ![h] = ev[h]]
        /\ draft = [draft EXCEPT ![h] = draft[h]]
        /\ ev[h] \in Events \cup {NoEvent}
        /\ draft[h] \in Row \cup {NoRow}
    BY <1>1 DEF TypeOK
  <1>3. ASSUME Answer(h), UNCHANGED db
        PROVE  SubscriptionsInv'
    BY <1>3, HandlerStep DEF Answer, Goto, InTransaction
  <1>4. CASE \E e \in Events : Deliver(h, e)
    <2>. PICK e \in Events : Deliver(h, e)
      BY <1>4
    <2>1. draft[h] = NoRow
      BY <1>1 DEF Drafts, Deliver
    <2>. QED
      BY <1>1, <1>2, <2>1, HandlerStep DEF Deliver, Goto, InTransaction
  <1>5. CASE CancelAtPeriodEnd(h) \/ Reactivate(h) \/ CancelImmediately(h)
    <2>1. draft[h] = NoRow
      BY <1>1, <1>5
      DEF Drafts, CancelAtPeriodEnd, Reactivate, CancelImmediately, ReadForUser
    <2>. QED
      BY <1>1, <1>2, <1>5, <2>1, HandlerStep
      DEF CancelAtPeriodEnd, Reactivate, CancelImmediately, ReadForUser, Goto,
          InTransaction
  <1>6. CASE InsertDedup(h)
    <2>1. CASE ev[h] \in processed
      BY <1>3, <1>6, <2>1 DEF InsertDedup
    <2>2. CASE ev[h] \notin processed
      <3>. DEFINE l == IF ev[h].kind = "activate" THEN "upsert" ELSE "read"
      <3>1. /\ ev[h] \in Events /\ draft[h] = NoRow
            /\ ev[h].kind \in {"activate", "cancel"}
        BY <1>1, <1>6, EventFields DEF Drafts, InsertDedup
      <3>2. /\ pc' = [pc EXCEPT ![h] = l] /\ UNCHANGED <<db, ev, draft>>
            /\ \A g \in Handlers \ {h} : ~ HoldsId(g, ev[h])
        BY <1>6, <2>2 DEF InsertDedup, Goto
      <3>3. l \in InTransaction /\ draft' = [draft EXCEPT ![h] = NoRow]
        BY <1>2, <3>1, <3>2 DEF InTransaction
      <3>. QED
        BY <2>2, <3>1, <3>2, <3>3, AdvanceStep
    <2>. QED
      BY <2>1, <2>2
  <1>7. CASE UpsertSubscription(h)
    <2>. DEFINE d == Active(ev[h].plan)
    <2>1. /\ ev[h] \in Events /\ ev[h].kind = "activate" /\ ev[h] \notin processed
          /\ \A g \in Handlers \ {h} : ~ HoldsId(g, ev[h])
      BY <1>1, <1>7 DEF Drafts, IdsHeld, UpsertSubscription, InTransaction
    <2>2. d \in Row
      BY <2>1, EventFields, RowTypes
    <2>3. /\ pc' = [pc EXCEPT ![h] = "gateway"]
          /\ draft' = [draft EXCEPT ![h] = d] /\ UNCHANGED <<db, ev>>
          /\ \A g \in Handlers : draft[g] = NoRow
      BY <1>7 DEF UpsertSubscription, Goto, RowFree
    <2>. QED
      BY <2>1, <2>2, <2>3, AdvanceStep DEF InTransaction
  <1>8. CASE UpsertGatewaySubscription(h)
    <2>1. /\ ev[h] \in Events /\ ev[h].kind = "activate" /\ ev[h] \notin processed
          /\ \A g \in Handlers \ {h} : ~ HoldsId(g, ev[h])
          /\ draft[h] = Active(ev[h].plan)
          /\ draft[h] # NoRow => \A g \in Handlers \ {h} : draft[g] = NoRow
      BY <1>1, <1>8
      DEF Drafts, IdsHeld, RowLocked, UpsertGatewaySubscription, InTransaction
    <2>2. pc' = [pc EXCEPT ![h] = "commit"] /\ UNCHANGED <<db, ev, draft>>
      BY <1>8 DEF UpsertGatewaySubscription, Goto
    <2>. QED
      BY <1>2, <2>1, <2>2, AdvanceStep DEF InTransaction
  <1>9. CASE ReadForCancel(h)
    <2>. DEFINE l == IF sub = NoRow THEN "commit" ELSE "cancel"
    <2>1. /\ ev[h] \in Events /\ ev[h].kind = "cancel" /\ ev[h] \notin processed
          /\ \A g \in Handlers \ {h} : ~ HoldsId(g, ev[h])
          /\ draft[h] = NoRow
      BY <1>1, <1>9 DEF Drafts, IdsHeld, ReadForCancel, InTransaction
    <2>2. pc' = [pc EXCEPT ![h] = l] /\ UNCHANGED <<db, ev, draft>>
      BY <1>9 DEF ReadForCancel, Goto
    <2>. QED
      BY <1>2, <2>1, <2>2, AdvanceStep DEF InTransaction
  <1>10. CASE UpdateCanceled(h)
    <2>1. CASE sub = NoRow
      BY <1>3, <1>10, <2>1 DEF UpdateCanceled
    <2>2. CASE sub # NoRow
      <3>1. /\ ev[h] \in Events /\ ev[h].kind = "cancel" /\ ev[h] \notin processed
            /\ \A g \in Handlers \ {h} : ~ HoldsId(g, ev[h])
        BY <1>1, <1>10 DEF Drafts, IdsHeld, UpdateCanceled, InTransaction
      <3>2. /\ pc' = [pc EXCEPT ![h] = "commit"]
            /\ draft' = [draft EXCEPT ![h] = Canceled] /\ UNCHANGED <<db, ev>>
            /\ \A g \in Handlers : draft[g] = NoRow
        BY <1>10, <2>2 DEF UpdateCanceled, Goto, RowFree
      <3>. QED
        BY <2>2, <3>1, <3>2, RowTypes, AdvanceStep DEF InTransaction
    <2>. QED
      BY <2>1, <2>2
  <1>11. CASE Rollback(h)
    BY <1>3, <1>11 DEF Rollback
  <1>. QED
    BY <1>4, <1>5, <1>6, <1>7, <1>8, <1>9, <1>10, <1>11

\* The commit of an event writes what it has prepared, and its ids with it.
LEMMA CommitStep ==
  ASSUME SubscriptionsInv, NEW h \in Handlers, Commit(h)
  PROVE  SubscriptionsInv'
  <1>1. TypeOK /\ Drafts /\ IdsHeld /\ RowLocked /\ PlanIsPaidFor
    BY DEF SubscriptionsInv
  <1>2. /\ ev[h] \in Events /\ ev[h] \notin processed
        /\ ev[h].kind \in {"activate", "cancel"} /\ ev[h].plan \in Plan
        /\ draft[h] \in Row \cup {NoRow}
        /\ \A g \in Handlers : HoldsId(g, ev[h]) => g = h
    BY <1>1, EventFields DEF Commit, Drafts, IdsHeld, InTransaction, TypeOK
  <1>3. /\ sub' \in Row \cup {NoRow}
        /\ source' \in Events \cup {NoEvent}
        /\ processed' \in SUBSET Events
    BY <1>1, <1>2 DEF Commit, TypeOK
  <1>4. ASSUME NEW g \in Handlers \ {h}
        PROVE  /\ pc[g] \in InTransaction => ev[g] \notin processed'
               /\ draft[g] # NoRow => sub' # NoRow \/ sub' = sub
    BY <1>1, <1>2 DEF Commit, IdsHeld, HoldsId
  <1>5. TypeOK' /\ Drafts' /\ IdsHeld' /\ RowLocked'
    BY <1>3, <1>4, AnswerStep DEF Commit
  <1>6. PlanIsPaidFor'
    <2>1. CASE ev[h].kind = "activate"
      <3>1. draft[h] = Active(ev[h].plan) /\ draft[h] # NoRow
        BY <1>1, <1>2, <2>1, RowTypes DEF Commit, Drafts
      <3>2. sub' = Active(ev[h].plan) /\ sub' # NoRow /\ source' = ev[h]
        BY <2>1, <3>1 DEF Commit
      <3>3. source' \in processed'
        BY <3>2 DEF Commit
      <3>. QED
        BY <3>2, <3>3 DEF PlanIsPaidFor, Active
    <2>2. CASE ev[h].kind = "cancel" /\ draft[h] = NoRow
      BY <1>1, <2>2 DEF Commit, PlanIsPaidFor
    <2>3. CASE ev[h].kind = "cancel" /\ draft[h] # NoRow
      <3>1. draft[h] = Canceled /\ sub # NoRow
        BY <1>1, <2>3 DEF Commit, Drafts, RowLocked
      <3>2. sub' = Canceled /\ sub' # NoRow /\ source' = source
        BY <2>3, <3>1 DEF Commit
      <3>3. source' \in processed'
        BY <1>1, <3>1, <3>2 DEF Commit, PlanIsPaidFor
      <3>. QED
        BY <3>2, <3>3 DEF PlanIsPaidFor, Canceled
    <2>. QED
      BY <1>2, <2>1, <2>2, <2>3
  <1>. QED
    BY <1>5, <1>6 DEF SubscriptionsInv

LEMMA UpdateForUserStep ==
  ASSUME SubscriptionsInv, NEW h \in Handlers, UpdateForUser(h)
  PROVE  SubscriptionsInv'
  <1>1. TypeOK /\ Drafts /\ IdsHeld /\ RowLocked /\ PlanIsPaidFor
    BY DEF SubscriptionsInv
  <1>2. CASE sub = NoRow
    <2>1. sub' = sub /\ source' = source /\ processed' = processed /\ Answer(h)
      BY <1>2 DEF UpdateForUser
    <2>2. TypeOK' /\ Drafts' /\ IdsHeld' /\ RowLocked'
      BY <1>1, <2>1, AnswerStep DEF TypeOK, IdsHeld
    <2>. QED
      BY <1>1, <2>1, <2>2 DEF SubscriptionsInv, PlanIsPaidFor
  <1>3. CASE sub # NoRow
    <2>1. /\ source' = source /\ processed' = processed /\ Answer(h)
          /\ \/ sub' = Canceled
             \/ sub' = [sub EXCEPT !.cancelAtPeriodEnd = (pc[h] = "pend")]
      BY <1>3 DEF UpdateForUser
    <2>2. sub \in Row
      BY <1>1, <1>3 DEF TypeOK
    <2>3. /\ sub' \in Row
          /\ \/ sub' = Canceled
             \/ sub'.plan = sub.plan /\ sub'.status = sub.status
      BY <2>1, <2>2, RowTypes DEF Row
    <2>4. sub' # NoRow
      BY <2>3, NoRowAssumption
    <2>5. TypeOK' /\ Drafts' /\ IdsHeld' /\ RowLocked'
      BY <1>1, <2>1, <2>3, <2>4, AnswerStep DEF TypeOK, IdsHeld
    <2>6. PlanIsPaidFor'
      BY <1>1, <1>3, <2>1, <2>3, <2>4 DEF PlanIsPaidFor, Canceled
    <2>. QED
      BY <2>5, <2>6 DEF SubscriptionsInv
  <1>. QED
    BY <1>2, <1>3

\* A reset finds no open transaction that has written the row.
LEMMA ResetStep == SubscriptionsInv /\ ResetUser => SubscriptionsInv'
  BY DEF SubscriptionsInv, ResetUser, TypeOK, Drafts, IdsHeld, RowLocked,
         PlanIsPaidFor, RowFree, HoldsId

LEMMA SubscriptionsNext ==
  SubscriptionsInv /\ [Next]_vars => SubscriptionsInv'
  <1>. SUFFICES ASSUME SubscriptionsInv, [Next]_vars
                PROVE  SubscriptionsInv'
    OBVIOUS
  <1>1. CASE UNCHANGED vars
    BY <1>1 DEF vars, SubscriptionsInv, TypeOK, Drafts, IdsHeld, RowLocked,
                PlanIsPaidFor, HoldsId
  <1>2. CASE ResetUser
    BY <1>2, ResetStep
  <1>3. ASSUME NEW h \in Handlers,
               \/ \E e \in Events : Deliver(h, e)
               \/ CancelAtPeriodEnd(h) \/ Reactivate(h) \/ CancelImmediately(h)
               \/ Step(h) \/ Rollback(h)
        PROVE  SubscriptionsInv'
    BY <1>3, PreparingStep, CommitStep, UpdateForUserStep DEF Step
  <1>. QED
    BY <1>1, <1>2, <1>3 DEF Next

LEMMA SubscriptionsInvariant == Spec => []SubscriptionsInv
  BY SubscriptionsInit, SubscriptionsNext, PTL DEF Spec
-----------------------------------------------------------------------------
\* Every row, event and handler stays in its type.
THEOREM SubscriptionsTypes == Spec => []TypeOK
  <1>1. SubscriptionsInv => TypeOK
    BY DEF SubscriptionsInv
  <1>. QED
    BY <1>1, SubscriptionsInvariant, PTL

\* createOrUpdateFromGateway and cancelImmediately, in their transactions and
\* beside the user's calls and resets, leave the plan of a payment that was
\* processed, and with it that payment's gateway ids.
THEOREM PlansArePaidFor == Spec => []PlanIsPaidFor
  <1>1. SubscriptionsInv => PlanIsPaidFor
    BY DEF SubscriptionsInv
  <1>. QED
    BY <1>1, SubscriptionsInvariant, PTL

\* A step that makes a subscription active commits a payment that had no
\* dedup row before.
THEOREM ActivationsAreNew == Spec => OnlyNewPaymentsActivate
  <1>. DEFINE Activates ==
         (sub = NoRow \/ sub.status = "CANCELED")
           /\ sub' # NoRow /\ sub'.status = "ACTIVE"
  <1>1. ASSUME SubscriptionsInv, [Next]_vars, Activates
        PROVE  \E e \in processed' \ processed : e.kind = "activate"
    <2>1. TypeOK /\ Drafts /\ IdsHeld
      BY <1>1 DEF SubscriptionsInv
    <2>2. sub' # sub
      BY <1>1
    <2>3. PICK h \in Handlers : Commit(h) \/ UpdateForUser(h)
      BY <1>1, <2>2
      DEF Next, Step, vars, db, Deliver, CancelAtPeriodEnd, Reactivate,
          CancelImmediately, ReadForUser, InsertDedup, UpsertSubscription,
          UpsertGatewaySubscription, ReadForCancel, UpdateCanceled, Rollback,
          ResetUser
    <2>4. CASE Commit(h)
      <3>1. ev[h] \in Events /\ ev[h] \notin processed /\ sub' = draft[h]
        BY <2>1, <2>2, <2>4 DEF Commit, Drafts, IdsHeld, InTransaction
      <3>2. ev[h].kind \in {"activate", "cancel"}
        BY <3>1, EventFields
      <3>3. draft[h] # Canceled /\ draft[h] # NoRow
        BY <1>1, <3>1 DEF Canceled
      <3>4. ev[h].kind = "activate"
        BY <2>1, <2>4, <3>2, <3>3 DEF Commit, Drafts
      <3>. QED
        BY <2>4, <3>1, <3>4 DEF Commit
    <2>5. CASE UpdateForUser(h)
      <3>1. sub # NoRow /\ sub \in Row /\ sub.status = "CANCELED"
        BY <1>1, <2>1, <2>5 DEF UpdateForUser, TypeOK
      <3>2. sub'.status = "CANCELED"
        BY <2>5, <3>1 DEF UpdateForUser, Canceled, Row
      <3>. QED
        BY <1>1, <3>2
    <2>. QED
      BY <2>3, <2>4, <2>5
  <1>2. SubscriptionsInv /\ [Next]_vars =>
          [Activates => \E e \in processed' \ processed : e.kind = "activate"]_vars
    BY <1>1
  <1>. QED
    BY <1>2, SubscriptionsInvariant, PTL DEF Spec, OnlyNewPaymentsActivate
=============================================================================
