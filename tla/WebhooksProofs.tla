--------------------------- MODULE WebhooksProofs ---------------------------
(***************************************************************************)
(* Theorems about Webhooks.tla for any number of handlers, events, charges, *)
(* connections and faults.                                                  *)
(*                                                                          *)
(* EffectsExactlyOnce and OneReversalPerCharge are not inductive: they need *)
(* that a handler past its insert is the only one with its dedup id, which  *)
(* no committed row has (IdsHeld), and the same for the dispute it has      *)
(* inserted (DisputesHeld).  AckedIsSettledOrBeaten needs that a handler    *)
(* past its credits has granted (Granted), and CreditsAtMostOnce that one   *)
(* in its credits transaction is inside its outer one (InsideOuter).        *)
(*                                                                          *)
(* Every step is then one of the inbox of Inbox.tla, or none.               *)
(***************************************************************************)
EXTENDS Webhooks, TLAPS

Pcs == {"idle", "begin", "insert", "apply", "dispute", "upsert", "create",
        "lookup", "credit", "settle"}

\* Past the first thing that may be written.
Late == {"upsert", "create", "lookup", "credit", "settle"}

Types ==
  /\ processed \in SUBSET Ids
  /\ effects \in [Ids -> Nat]
  /\ reversals \in [Txns -> Nat]
  /\ ev \in [Handlers -> Events \cup {NoEvent}]
  /\ pc \in [Handlers -> Pcs]
  /\ outer \in [Handlers -> {"none", "open", "expired"}]
  /\ writes \in [Handlers -> BOOLEAN]
  /\ \A h \in Handlers : pc[h] # "idle" => ev[h] \in Events

\* A handler that is idle or about to open its transaction has none.
OuterStages ==
  \A h \in Handlers : pc[h] \in {"idle", "begin"} => outer[h] = "none"

IdsHeld ==
  \A h \in Handlers : HoldsId(h, ev[h].id) =>
    /\ ev[h].id \notin processed
    /\ \A g \in Handlers : HoldsId(g, ev[h].id) => g = h

DisputesHeld ==
  \A h \in Handlers : HoldsDispute(h, ev[h].txn) =>
    /\ reversals[ev[h].txn] = 0
    /\ \A g \in Handlers : HoldsDispute(g, ev[h].txn) => g = h

\* Only a handler past its insert has written anything.
WritersHoldIds ==
  \A h \in Handlers :
    writes[h] => pc[h] \in Late

WebhooksInv ==
  Types /\ OuterStages /\ WritersHoldIds /\ IdsHeld /\ DisputesHeld
    /\ EffectsExactlyOnce /\ OneReversalPerCharge
-----------------------------------------------------------------------------
LEMMA EventFields == \A e \in Events : e.id \in Ids /\ e.txn \in Txns
  BY EventsAssumption DEF Ids, Event

LEMMA WebhooksInit == Init => WebhooksInv
  BY DEF Init, WebhooksInv, Types, OuterStages, WritersHoldIds, IdsHeld,
         DisputesHeld, EffectsExactlyOnce, OneReversalPerCharge, HoldsId,
         HoldsDispute, Pcs, Late

\* A step of one handler that commits nothing under a unique key: enough that
\* whatever the handler comes to hold, nobody holds and no row has.
LEMMA HandlerStep ==
  ASSUME WebhooksInv, NEW h \in Handlers,
         UNCHANGED <<processed, effects, reversals>>,
         NEW l \in Pcs, pc' = [pc EXCEPT ![h] = l],
         NEW e \in Events \cup {NoEvent}, ev' = [ev EXCEPT ![h] = e],
         NEW o \in {"none", "open", "expired"}, outer' = [outer EXCEPT ![h] = o],
         NEW w \in BOOLEAN, writes' = [writes EXCEPT ![h] = w],
         l # "idle" => e \in Events,
         l \in {"idle", "begin"} => o = "none",
         w => l \in Late,
         HoldsId(h, e.id)' =>
           e.id \notin processed /\ ~ \E g \in Handlers \ {h} : HoldsId(g, e.id),
         HoldsDispute(h, e.txn)' =>
           /\ reversals[e.txn] = 0
           /\ ~ \E g \in Handlers \ {h} : HoldsDispute(g, e.txn)
  PROVE  WebhooksInv'
  <1>1. /\ Types /\ OuterStages /\ WritersHoldIds /\ IdsHeld /\ DisputesHeld
        /\ EffectsExactlyOnce /\ OneReversalPerCharge
    BY DEF WebhooksInv
  <1>2. /\ pc'[h] = l /\ ev'[h] = e /\ outer'[h] = o /\ writes'[h] = w
        /\ \A g \in Handlers : g # h =>
             /\ pc'[g] = pc[g] /\ ev'[g] = ev[g]
             /\ outer'[g] = outer[g] /\ writes'[g] = writes[g]
    BY <1>1 DEF Types
  <1>3. Types' /\ OuterStages' /\ WritersHoldIds'
    BY <1>1, <1>2 DEF Types, OuterStages, WritersHoldIds
  <1>4. \A i : \A g \in Handlers : g # h => (HoldsId(g, i)' <=> HoldsId(g, i))
    BY <1>2 DEF HoldsId
  <1>5. \A i : HoldsId(h, i)' => i = e.id
    BY <1>2 DEF HoldsId
  <1>6. \A t : \A g \in Handlers : g # h => (HoldsDispute(g, t)' <=> HoldsDispute(g, t))
    BY <1>2 DEF HoldsDispute
  <1>7. \A t : HoldsDispute(h, t)' => t = e.txn
    BY <1>2 DEF HoldsDispute
  <1>8. IdsHeld'
    BY <1>1, <1>2, <1>4, <1>5 DEF IdsHeld
  <1>9. DisputesHeld'
    BY <1>1, <1>2, <1>6, <1>7 DEF DisputesHeld
  <1>10. EffectsExactlyOnce' /\ OneReversalPerCharge'
    BY <1>1 DEF EffectsExactlyOnce, OneReversalPerCharge
  <1>. QED
    BY <1>3, <1>8, <1>9, <1>10, <1>1 DEF WebhooksInv

\* Answering ends the handler's hold on everything.
LEMMA FinishKeeps ==
  ASSUME WebhooksInv, NEW h \in Handlers, Finish(h),
         UNCHANGED <<processed, effects, reversals>>
  PROVE  WebhooksInv'
  <1>1. Types
    BY DEF WebhooksInv
  <1>2. ~ HoldsId(h, NoEvent.id)' /\ ~ HoldsDispute(h, NoEvent.txn)'
    BY <1>1 DEF Finish, HoldsId, HoldsDispute, Types
  <1>. QED
    BY <1>2, HandlerStep DEF Finish, Goto, Pcs, Late

\* What a step leaves alone, in the form HandlerStep takes it.
LEMMA Same ==
  ASSUME Types, NEW h \in Handlers
  PROVE  /\ pc = [pc EXCEPT ![h] = pc[h]] /\ pc[h] \in Pcs
         /\ ev = [ev EXCEPT ![h] = ev[h]] /\ ev[h] \in Events \cup {NoEvent}
         /\ outer = [outer EXCEPT ![h] = outer[h]]
         /\ outer[h] \in {"none", "open", "expired"}
         /\ writes = [writes EXCEPT ![h] = writes[h]] /\ writes[h] \in BOOLEAN
  BY DEF Types

\* A step inside the outer transaction that inserts nothing unique: the
\* handler holds what it held.
LEMMA InsideKeeps ==
  ASSUME WebhooksInv, NEW h \in Handlers,
         UNCHANGED <<processed, effects, reversals, ev, outer>>,
         NEW l \in Late \cup {"dispute"}, pc[h] \in Late \cup {"apply", "dispute"},
         pc' = [pc EXCEPT ![h] = l],
         NEW w \in BOOLEAN, writes' = [writes EXCEPT ![h] = w],
         w => l # "dispute",
         w => \/ writes[h] \/ ev[h].type # "chargeback.received"
              \/ /\ reversals[ev[h].txn] = 0
                 /\ ~ \E g \in Handlers \ {h} : HoldsDispute(g, ev[h].txn)
  PROVE  WebhooksInv'
  <1>1. Types /\ IdsHeld /\ DisputesHeld /\ OuterStages
    BY DEF WebhooksInv
  <1>2. pc'[h] = l /\ writes'[h] = w /\ ev[h] \in Events
    BY <1>1 DEF Types, Late
  <1>3. HoldsId(h, ev[h].id)' => HoldsId(h, ev[h].id)
    BY <1>2 DEF HoldsId, Late
  <1>4. HoldsDispute(h, ev[h].txn)' =>
          \/ HoldsDispute(h, ev[h].txn)
          \/ /\ reversals[ev[h].txn] = 0
             /\ ~ \E g \in Handlers \ {h} : HoldsDispute(g, ev[h].txn)
    BY <1>2 DEF HoldsDispute
  <1>5. HoldsId(h, ev[h].id)' =>
          /\ ev[h].id \notin processed
          /\ ~ \E g \in Handlers \ {h} : HoldsId(g, ev[h].id)
    BY <1>1, <1>3 DEF IdsHeld
  <1>6. HoldsDispute(h, ev[h].txn)' =>
          /\ reversals[ev[h].txn] = 0
          /\ ~ \E g \in Handlers \ {h} : HoldsDispute(g, ev[h].txn)
    BY <1>1, <1>4 DEF DisputesHeld
  <1>. QED
    BY <1>1, <1>2, <1>5, <1>6, Same, HandlerStep DEF Pcs, Late

\* Nothing of a handler and of the unique keys changes.
LEMMA IdleKeeps ==
  ASSUME WebhooksInv,
         UNCHANGED <<processed, effects, reversals, ev, pc, outer, writes>>
  PROVE  WebhooksInv'
  BY DEF WebhooksInv, Types, OuterStages, WritersHoldIds, IdsHeld,
         DisputesHeld, EffectsExactlyOnce, OneReversalPerCharge, HoldsId,
         HoldsDispute

LEMMA ReceiveKeeps ==
  ASSUME WebhooksInv, NEW h \in Handlers, NEW e \in Events, Receive(h, e)
  PROVE  WebhooksInv'
  <1>1. Types /\ OuterStages /\ WritersHoldIds /\ pc[h] = "idle"
    BY DEF WebhooksInv, Receive
  <1>2. CASE UNCHANGED <<ev, pc>>
    BY <1>2, IdleKeeps DEF Receive, db
  <1>3. CASE Goto(h, "begin") /\ ev' = [ev EXCEPT ![h] = e]
    <2>1. ~ writes[h] /\ outer[h] = "none"
      BY <1>1 DEF WritersHoldIds, OuterStages, Types, Late
    <2>2. ~ HoldsId(h, e.id)' /\ ~ HoldsDispute(h, e.txn)'
      BY <1>1, <1>3, <2>1 DEF HoldsId, HoldsDispute, Receive, Types
    <2>. QED
      BY <1>1, <1>3, <2>1, <2>2, Same, HandlerStep DEF Receive, db, Goto, Pcs
  <1>. QED
    BY <1>2, <1>3 DEF Receive

LEMMA OpenKeeps ==
  ASSUME WebhooksInv, NEW h \in Handlers, OpenOuter(h) \/ Expire(h)
  PROVE  WebhooksInv'
  <1>1. Types /\ OuterStages /\ WritersHoldIds
    BY DEF WebhooksInv
  <1>2. CASE OpenOuter(h)
    <2>1. ~ writes[h] /\ ev[h] \in Events
      BY <1>1, <1>2 DEF WritersHoldIds, OpenOuter, Types, Late
    <2>2. ~ HoldsId(h, ev[h].id)' /\ ~ HoldsDispute(h, ev[h].txn)'
      BY <1>1, <1>2, <2>1 DEF HoldsId, HoldsDispute, OpenOuter, Goto, Types
    <2>. QED
      BY <1>1, <1>2, <2>1, <2>2, Same, HandlerStep DEF OpenOuter, Goto, db, Pcs
  <1>3. CASE Expire(h)
    <2>1. ev[h] \in Events /\ pc[h] \notin {"idle", "begin"}
      BY <1>1, <1>3 DEF Expire, OuterStages, Types
    <2>2. ~ HoldsId(h, ev[h].id)' /\ ~ HoldsDispute(h, ev[h].txn)'
      BY <1>1, <1>3 DEF HoldsId, HoldsDispute, Expire, Types
    <2>. QED
      BY <1>1, <1>3, <2>1, <2>2, Same, HandlerStep
      DEF Expire, db, WritersHoldIds
  <1>. QED
    BY <1>2, <1>3

LEMMA InsertKeeps ==
  ASSUME WebhooksInv, NEW h \in Handlers, InsertDedup(h)
  PROVE  WebhooksInv'
  <1>1. Types /\ OuterStages /\ WritersHoldIds
    BY DEF WebhooksInv
  <1>2. CASE Answer200(h)
    BY <1>2, FinishKeeps DEF InsertDedup, Answer200, db
  <1>3. CASE Goto(h, "apply") /\ UNCHANGED <<ev, outer, writes>>
             /\ ev[h].id \notin processed
    <2>1. ~ writes[h] /\ ev[h] \in Events
      BY <1>1 DEF WritersHoldIds, InsertDedup, Types, Late
    <2>2. ~ HoldsDispute(h, ev[h].txn)'
      BY <1>1, <1>3, <2>1 DEF HoldsDispute
    <2>. QED
      BY <1>1, <1>3, <2>1, <2>2, Same, HandlerStep
      DEF InsertDedup, Goto, db, Pcs
  <1>. QED
    BY <1>2, <1>3 DEF InsertDedup

LEMMA ApplyKeeps ==
  ASSUME WebhooksInv, NEW h \in Handlers, ApplyEvent(h)
  PROVE  WebhooksInv'
  <1>1. Types /\ WritersHoldIds /\ pc[h] = "apply"
    BY DEF WebhooksInv, ApplyEvent
  <1>2. ~ writes[h] /\ writes[h] \in BOOLEAN
    BY <1>1 DEF Types, WritersHoldIds, Late
  <1>3. UNCHANGED <<processed, effects, reversals, ev, outer>>
    BY DEF ApplyEvent, db
  <1>4. PICK l \in {"dispute", "upsert", "lookup", "settle"}, w \in BOOLEAN :
          /\ pc' = [pc EXCEPT ![h] = l] /\ writes' = [writes EXCEPT ![h] = w]
          /\ w => l # "dispute" /\ ev[h].type # "chargeback.received"
    <2>1. CASE ev[h].type = "chargeback.received"
      BY <2>1 DEF ApplyEvent, Goto, Grants, Deducts
    <2>2. CASE ev[h].type # "chargeback.received"
      BY <2>2 DEF ApplyEvent, Goto, Grants, Deducts
    <2>. QED
      BY <2>1, <2>2
  <1>. QED
    BY <1>1, <1>3, <1>4, InsideKeeps DEF Late

LEMMA WriteDisputeKeeps ==
  ASSUME WebhooksInv, NEW h \in Handlers, WriteDispute(h)
  PROVE  WebhooksInv'
  <1>1. UNCHANGED <<processed, effects, reversals>> /\ pc[h] = "dispute"
    BY DEF WriteDispute, db
  <1>2. CASE Answer200(h) \/ Answer500(h)
    BY <1>1, <1>2, FinishKeeps DEF Answer200, Answer500
  <1>3. CASE /\ reversals[ev[h].txn] = 0 /\ Goto(h, "upsert")
             /\ writes' = [writes EXCEPT ![h] = TRUE]
             /\ UNCHANGED <<acked, ev, outer>>
    <2>1. ~ \E g \in Handlers \ {h} : HoldsDispute(g, ev[h].txn)
      BY DEF WriteDispute
    <2>2. "upsert" \in Late \cup {"dispute"} /\ pc[h] \in Late \cup {"apply", "dispute"}
      BY <1>1 DEF Late
    <2>. QED
      BY <1>1, <1>3, <2>1, <2>2, InsideKeeps DEF Goto
  <1>. QED
    BY <1>2, <1>3 DEF WriteDispute

\* The upserts hold what is held, or answer.
LEMMA RowKeeps ==
  ASSUME WebhooksInv, NEW h \in Handlers, FindRow(h) \/ CreateRow(h)
  PROVE  WebhooksInv'
  <1>1. UNCHANGED <<processed, effects, reversals>> /\ pc[h] \in Late
    BY DEF FindRow, CreateRow, db, Late
  <1>2. CASE Answer200(h) \/ Answer500(h)
    BY <1>1, <1>2, FinishKeeps DEF Answer200, Answer500
  <1>3. ASSUME NEW l \in Late, Goto(h, l), UNCHANGED <<acked, ev, outer, writes>>
        PROVE  WebhooksInv'
    BY <1>1, <1>3, Same, InsideKeeps DEF Goto, WebhooksInv, Late
  <1>4. Proceed(h) => \/ Answer500(h)
                      \/ /\ Goto(h, "lookup") \/ Goto(h, "settle")
                         /\ UNCHANGED <<acked, ev, outer, writes>>
    BY DEF Proceed
  <1>. QED
    BY <1>2, <1>3, <1>4 DEF FindRow, CreateRow, Late

\* The credits transaction and its errors change no hold.
LEMMA InnerErrorKeeps ==
  ASSUME WebhooksInv, NEW h \in Handlers, InnerError(h),
         pc[h] \in {"lookup", "credit"},
         UNCHANGED <<processed, effects, reversals>>
  PROVE  WebhooksInv'
  <1>1. CASE Answer500(h)
    BY <1>1, FinishKeeps DEF Answer500
  <1>2. CASE Goto(h, "settle") /\ UNCHANGED <<acked, ev, outer, writes>>
    <2>1. "settle" \in Late \cup {"dispute"} /\ pc[h] \in Late \cup {"apply", "dispute"}
      BY DEF Late
    <2>. QED
      BY <1>2, <2>1, Same, InsideKeeps DEF Goto, WebhooksInv
  <1>. QED
    BY <1>1, <1>2 DEF InnerError

LEMMA InnerKeeps ==
  ASSUME WebhooksInv, NEW h \in Handlers,
         InnerLookup(h) \/ InnerCommit(h) \/ InnerRollback(h)
  PROVE  WebhooksInv'
  <1>1. pc[h] \in {"lookup", "credit"} /\ UNCHANGED <<processed, effects, reversals>>
    BY DEF InnerLookup, InnerCommit, InnerRollback, db
  <1>2. \/ InnerError(h)
        \/ /\ Goto(h, "upsert") \/ Goto(h, "settle") \/ Goto(h, "credit")
           /\ UNCHANGED <<acked, ev, outer, writes>>
    BY DEF InnerLookup, InnerCommit, InnerRollback, AfterCredits
  <1>3. ASSUME NEW l \in Late, Goto(h, l), UNCHANGED <<acked, ev, outer, writes>>
        PROVE  WebhooksInv'
    BY <1>1, <1>3, Same, InsideKeeps DEF Goto, WebhooksInv, Late
  <1>. QED
    BY <1>1, <1>2, <1>3, InnerErrorKeeps DEF Late

LEMMA FailKeeps ==
  ASSUME WebhooksInv, NEW h \in Handlers,
         ExpiredFails(h) \/ AcquireTimeout(h) \/ OuterRollback(h)
  PROVE  WebhooksInv'
  <1>1. CASE ExpiredFails(h) \/ OuterRollback(h)
    BY <1>1, FinishKeeps DEF ExpiredFails, OuterRollback, Answer500, db
  <1>2. CASE AcquireTimeout(h)
    BY <1>2, FinishKeeps, InnerErrorKeeps DEF AcquireTimeout, Answer500, db
  <1>. QED
    BY <1>1, <1>2

LEMMA CrashKeeps ==
  ASSUME WebhooksInv, Crash
  PROVE  WebhooksInv'
  BY DEF WebhooksInv, Crash, Types, OuterStages, WritersHoldIds, IdsHeld,
         DisputesHeld, EffectsExactlyOnce, OneReversalPerCharge, HoldsId,
         HoldsDispute, db, Pcs, Late

\* The one step that commits: what it commits nobody had committed, and the
\* others hold other ids and other disputes.
LEMMA CommitKeeps ==
  ASSUME WebhooksInv, NEW h \in Handlers, CommitOuter(h)
  PROVE  WebhooksInv'
  <1>. DEFINE i == ev[h].id
              t == ev[h].txn
  <1>1. /\ Types /\ OuterStages /\ WritersHoldIds /\ IdsHeld /\ DisputesHeld
        /\ EffectsExactlyOnce /\ OneReversalPerCharge
    BY DEF WebhooksInv
  <1>2. pc[h] = "settle" /\ outer[h] = "open" /\ ev[h] \in Events
    BY <1>1 DEF CommitOuter, Types
  <1>3. i \in Ids /\ t \in Txns
    BY <1>2, EventFields
  <1>4. HoldsId(h, i)
    BY <1>2 DEF HoldsId
  <1>5. i \notin processed /\ effects[i] = 0
    <2>1. i \notin processed
      BY <1>1, <1>4 DEF IdsHeld
    <2>. QED
      BY <1>1, <1>3, <2>1 DEF EffectsExactlyOnce, Types
  <1>6. Finish(h) /\ processed' = processed \cup {i}
    BY DEF CommitOuter, Answer200, Answer500
  <1>7. /\ pc'[h] = "idle" /\ ev'[h] = NoEvent /\ outer'[h] = "none"
        /\ writes'[h] = FALSE
        /\ \A g \in Handlers : g # h =>
             /\ pc'[g] = pc[g] /\ ev'[g] = ev[g]
             /\ outer'[g] = outer[g] /\ writes'[g] = writes[g]
    BY <1>1, <1>6 DEF Types, Finish, Goto
  <1>8. effects' \in [Ids -> Nat] /\ EffectsExactlyOnce'
    <2>1. effects' = [effects EXCEPT ![i] = @ + 1] \/ effects' = effects
      BY DEF CommitOuter
    <2>. QED
      BY <1>1, <1>3, <1>5, <1>6, <2>1 DEF EffectsExactlyOnce, Types
  <1>9. \/ reversals' = reversals
        \/ HoldsDispute(h, t) /\ reversals' = [reversals EXCEPT ![t] = @ + 1]
    BY <1>2 DEF CommitOuter, HoldsDispute
  <1>10. HoldsDispute(h, t) => reversals[t] = 0
    BY <1>1 DEF DisputesHeld
  <1>11. reversals' \in [Txns -> Nat] /\ OneReversalPerCharge'
    BY <1>1, <1>3, <1>9, <1>10 DEF OneReversalPerCharge, Types
  <1>12. Types'
    BY <1>1, <1>3, <1>6, <1>7, <1>8, <1>11 DEF Types, Finish, Goto, Pcs
  <1>13. OuterStages' /\ WritersHoldIds'
    BY <1>1, <1>7 DEF OuterStages, WritersHoldIds, Late
  <1>14. /\ \A j : \A g \in Handlers : HoldsId(g, j)' <=> g # h /\ HoldsId(g, j)
         /\ \A j : \A g \in Handlers :
              HoldsDispute(g, j)' <=> g # h /\ HoldsDispute(g, j)
    BY <1>7 DEF HoldsId, HoldsDispute
  <1>15. IdsHeld'
    BY <1>1, <1>4, <1>6, <1>7, <1>14 DEF IdsHeld
  <1>16. \A g \in Handlers : g # h /\ HoldsDispute(g, ev[g].txn) =>
           reversals'[ev[g].txn] = 0
    <2>1. SUFFICES ASSUME NEW g \in Handlers, g # h, HoldsDispute(g, ev[g].txn)
                   PROVE  reversals'[ev[g].txn] = 0
      OBVIOUS
    <2>2. reversals[ev[g].txn] = 0 /\ ~ HoldsDispute(h, ev[g].txn)
      BY <1>1, <2>1 DEF DisputesHeld
    <2>3. ev[g].txn \in Txns
      BY <1>1, <2>1, EventFields DEF HoldsDispute, WritersHoldIds, Types, Late
    <2>. QED
      BY <1>1, <1>3, <1>9, <2>2, <2>3 DEF Types
  <1>17. DisputesHeld'
    BY <1>1, <1>7, <1>14, <1>16 DEF DisputesHeld
  <1>. QED
    BY <1>8, <1>11, <1>12, <1>13, <1>15, <1>17 DEF WebhooksInv

LEMMA WebhooksStep == WebhooksInv /\ [Next]_vars => WebhooksInv'
  <1>1. SUFFICES ASSUME WebhooksInv, [Next]_vars PROVE WebhooksInv'
    OBVIOUS
  <1>2. CASE UNCHANGED vars
    BY <1>1, <1>2, IdleKeeps DEF vars
  <1>3. CASE Crash
    BY <1>1, <1>3, CrashKeeps
  <1>4. ASSUME NEW h \in Handlers,
               \/ \E e \in Events : Receive(h, e)
               \/ Step(h) \/ Expire(h) \/ AcquireTimeout(h)
               \/ InnerRollback(h) \/ OuterRollback(h)
        PROVE  WebhooksInv'
    BY <1>1, <1>4, ReceiveKeeps, OpenKeeps, InsertKeeps, ApplyKeeps,
       WriteDisputeKeeps, RowKeeps, InnerKeeps, FailKeeps, CommitKeeps DEF Step
  <1>5. CASE OthersCreate
    BY <1>1, <1>5, IdleKeeps DEF OthersCreate
  <1>. QED
    BY <1>1, <1>2, <1>3, <1>4, <1>5 DEF Next

\* The inductive invariant of the callbacks.
THEOREM WebhooksInvariant == Spec => []WebhooksInv
  BY WebhooksInit, WebhooksStep, PTL DEF Spec

\* handleWebhook and handleConfirmation: whatever is replayed, delivered
\* twice at once, crashed or expired, the writes of an event's transaction
\* are committed once at most, and only with its dedup row.
THEOREM WritesHappenOnce == Spec => []EffectsExactlyOnce
  <1>1. WebhooksInv => EffectsExactlyOnce
    BY DEF WebhooksInv
  <1>. QED
    BY <1>1, WebhooksInvariant, PTL

\* createDispute: one chargeback told in any number of events is reversed in
\* the ledger once at most.
THEOREM ChargesAreReversedOnce == Spec => []OneReversalPerCharge
  <1>1. WebhooksInv => OneReversalPerCharge
    BY DEF WebhooksInv
  <1>. QED
    BY <1>1, WebhooksInvariant, PTL
-----------------------------------------------------------------------------
(* Credits.  A handler past the credits it grants has granted them; only    *)
(* chargebacks write disputes, only what needs a row looks for one, and no  *)
(* transaction of credits is about a negative amount.                       *)

MoneyTypes ==
  /\ credits \in Nat
  /\ creditRows \in [CreditKeys -> Nat]
  /\ rows \in SUBSET Rows
  /\ acked \in SUBSET Events
  /\ faults \in 0 .. MaxFaults

Moving ==
  \A h \in Handlers :
    /\ pc[h] = "credit" => ev[h].amount \in Nat
    /\ pc[h] = "dispute" => ev[h].type = "chargeback.received"
    /\ pc[h] \in {"upsert", "create"} => RowsOf(ev[h]) # {}

Granted ==
  \A h \in Handlers :
    pc[h] \in {"upsert", "create", "settle"} /\ Grants(ev[h]) =>
      creditRows[CreditKey(ev[h])] >= 1

\* A dedup row of a grant has its credits.
GrantedIfProcessed ==
  \A e \in Events :
    Grants(e) /\ e.id \in processed => creditRows[CreditKey(e)] >= 1

MoneyInv == MoneyTypes /\ Moving /\ Granted /\ GrantedIfProcessed

LEMMA KeyFields ==
  ASSUME NEW e \in Events
  PROVE  /\ CreditKey(e) \in CreditKeys
         /\ ~ (Grants(e) /\ Deducts(e))
         /\ e.amount \in Int
  <1>1. e \in Event
    BY EventsAssumption
  <1>2. e.txn \in Txns /\ e.amount \in Int
    BY <1>1 DEF Event
  <1>3. \E s \in {"charge", "refund", "chargeback", "solana"} :
          CreditKey(e) = <<s, e.txn>>
    BY DEF CreditKey
  <1>4. CreditKey(e) \in CreditKeys
    BY <1>2, <1>3 DEF CreditKeys
  <1>5. ~ (Grants(e) /\ Deducts(e))
    BY DEF Grants, Deducts
  <1>. QED
    BY <1>2, <1>4, <1>5

\* An id grants one key.
LEMMA IdGrantsKey ==
  ASSUME NEW e \in Events, NEW f \in Events, e.id = f.id, Grants(f)
  PROVE  Grants(e) /\ CreditKey(e) = CreditKey(f)
  <1>1. e.type = f.type /\ e.ref = f.ref /\ e.txn = f.txn
    BY IdsAssumption
  <1>2. Grants(e)
    BY <1>1 DEF Grants
  <1>3. CreditKey(e) = CreditKey(f)
    BY <1>1 DEF CreditKey
  <1>. QED
    BY <1>2, <1>3

LEMMA MoneyInit == Init => MoneyInv
  BY BoundsAssumption
  DEF Init, MoneyInv, MoneyTypes, Moving, Granted, GrantedIfProcessed

LEMMA RowFields == \A e \in Events : RowsOf(e) \subseteq Rows
  BY EventFields DEF RowsOf, Rows

LEMMA GrantsHaveRows == ASSUME NEW e, Grants(e) PROVE RowsOf(e) # {}
  BY DEF Grants, RowsOf

\* A step that commits nothing: h moves on to l, or answers.
LEMMA QuietMoney ==
  ASSUME Types, MoneyInv, NEW h \in Handlers,
         UNCHANGED <<processed, credits, creditRows, rows>>,
         faults' \in 0 .. MaxFaults,
         NEW l \in Pcs, pc' = [pc EXCEPT ![h] = l],
         NEW e \in Events \cup {NoEvent}, ev' = [ev EXCEPT ![h] = e],
         l = "credit" => e.amount \in Nat,
         l = "dispute" => e.type = "chargeback.received",
         l \in {"upsert", "create"} => RowsOf(e) # {},
         l \in {"upsert", "create", "settle"} /\ Grants(e) =>
           creditRows[CreditKey(e)] >= 1,
         acked' \in SUBSET Events
  PROVE  MoneyInv'
  <1>1. MoneyTypes /\ Moving /\ Granted /\ GrantedIfProcessed
    BY DEF MoneyInv
  <1>2. /\ pc'[h] = l /\ ev'[h] = e
        /\ \A g \in Handlers : g # h => pc'[g] = pc[g] /\ ev'[g] = ev[g]
    BY DEF Types
  <1>3. MoneyTypes'
    BY <1>1 DEF MoneyTypes
  <1>4. Moving'
    BY <1>1, <1>2 DEF Moving
  <1>5. Granted'
    BY <1>1, <1>2 DEF Granted
  <1>6. GrantedIfProcessed'
    BY <1>1 DEF GrantedIfProcessed
  <1>. QED
    BY <1>3, <1>4, <1>5, <1>6 DEF MoneyInv

\* The answer to a delivery that commits nothing.
LEMMA AnswerMoney ==
  ASSUME Types, MoneyInv, NEW h \in Handlers, ev[h] \in Events,
         Answer200(h) \/ Answer500(h),
         UNCHANGED <<processed, credits, creditRows, rows>>,
         faults' \in 0 .. MaxFaults
  PROVE  MoneyInv'
  <1>1. acked' \in SUBSET Events /\ Finish(h)
    BY DEF Answer200, Answer500, MoneyInv, MoneyTypes
  <1>. QED
    BY <1>1, QuietMoney DEF Finish, Goto, Pcs

LEMMA FaultTypes ==
  ASSUME MoneyInv, Fault
  PROVE  faults' \in 0 .. MaxFaults
  BY BoundsAssumption DEF MoneyInv, MoneyTypes, Fault

LEMMA InnerErrorMoney ==
  ASSUME Types, MoneyInv, NEW h \in Handlers, InnerError(h), ev[h] \in Events,
         UNCHANGED <<processed, credits, creditRows, rows>>,
         faults' \in 0 .. MaxFaults
  PROVE  MoneyInv'
  <1>1. CASE Deducts(ev[h])
    <2>1. ~ Grants(ev[h])
      BY <1>1, KeyFields
    <2>2. Goto(h, "settle") /\ UNCHANGED <<acked, ev>>
      BY <1>1 DEF InnerError
    <2>. QED
      BY <2>1, <2>2, Same, QuietMoney DEF Goto, Pcs, MoneyInv, MoneyTypes
  <1>2. CASE ~ Deducts(ev[h])
    BY <1>2, AnswerMoney DEF InnerError
  <1>. QED
    BY <1>1, <1>2
-----------------------------------------------------------------------------
LEMMA EarlyMoney ==
  ASSUME WebhooksInv, MoneyInv, NEW h \in Handlers,
         \/ \E e \in Events : Receive(h, e)
         \/ OpenOuter(h) \/ InsertDedup(h) \/ Expire(h)
  PROVE  MoneyInv'
  <1>1. Types /\ MoneyTypes
    BY DEF WebhooksInv, MoneyInv
  <1>2. ASSUME NEW e \in Events, Receive(h, e)
        PROVE  MoneyInv'
    <2>1. UNCHANGED <<processed, credits, creditRows, rows, faults>>
      BY <1>2 DEF Receive, db
    <2>2. CASE Goto(h, "begin") /\ ev' = [ev EXCEPT ![h] = e] /\ UNCHANGED acked
      BY <1>1, <2>1, <2>2, QuietMoney DEF Goto, Pcs, MoneyTypes
    <2>3. CASE acked' = acked \cup {e} /\ UNCHANGED <<ev, pc>>
      <3>1. pc[h] = "idle" /\ acked' \in SUBSET Events
        BY <1>1, <1>2, <2>3 DEF Receive, MoneyTypes
      <3>. QED
        BY <1>1, <2>1, <2>3, <3>1, Same, QuietMoney DEF MoneyTypes
    <2>. QED
      BY <1>2, <2>2, <2>3 DEF Receive
  <1>3. CASE OpenOuter(h)
    BY <1>1, <1>3, Same, QuietMoney DEF OpenOuter, Goto, db, Pcs, MoneyTypes
  <1>4. CASE InsertDedup(h)
    <2>1. UNCHANGED <<processed, credits, creditRows, rows, faults>>
      BY <1>4 DEF InsertDedup, db
    <2>2. ev[h] \in Events
      BY <1>1, <1>4 DEF InsertDedup, Types
    <2>3. CASE ev[h].id \in processed
      BY <1>1, <1>4, <2>1, <2>2, <2>3, AnswerMoney DEF InsertDedup, MoneyTypes
    <2>4. CASE ev[h].id \notin processed
      BY <1>1, <1>4, <2>1, <2>4, Same, QuietMoney
      DEF InsertDedup, Goto, Pcs, MoneyTypes
    <2>. QED
      BY <2>3, <2>4
  <1>5. CASE Expire(h)
    <2>1. UNCHANGED <<processed, credits, creditRows, rows, acked, pc, ev>>
          /\ faults' \in 0 .. MaxFaults
      BY <1>5, FaultTypes DEF Expire, db
    <2>. QED
      BY <1>1, <2>1
      DEF MoneyInv, MoneyTypes, Moving, Granted, GrantedIfProcessed
  <1>. QED
    BY <1>2, <1>3, <1>4, <1>5

LEMMA ApplyMoney ==
  ASSUME WebhooksInv, MoneyInv, NEW h \in Handlers,
         ApplyEvent(h) \/ WriteDispute(h) \/ FindRow(h) \/ CreateRow(h)
  PROVE  MoneyInv'
  <1>1. Types /\ MoneyTypes /\ Granted
    BY DEF WebhooksInv, MoneyInv
  <1>2. /\ UNCHANGED <<processed, credits, creditRows, rows, faults>>
        /\ ev[h] \in Events
    BY <1>1 DEF ApplyEvent, WriteDispute, FindRow, CreateRow, db, Types
  <1>3. CASE ApplyEvent(h)
    <2>1. PICK l \in {"settle", "upsert", "lookup", "dispute"} :
            /\ Goto(h, l) /\ UNCHANGED <<acked, ev>>
            /\ l \in {"settle", "upsert"} => ~ Grants(ev[h])
            /\ l = "upsert" => RowsOf(ev[h]) # {}
            /\ l = "dispute" => ev[h].type = "chargeback.received"
      <3>1. UNCHANGED <<acked, ev>>
        BY <1>3 DEF ApplyEvent
      <3>2. CASE /\ ev[h].type \in {"cancellation", "charge.refunded", "charge.approved"}
                 /\ ev[h].type # "cancellation" => ev[h].ref # "credits"
                 /\ Goto(h, "settle")
        BY <3>1, <3>2 DEF Grants
      <3>3. CASE /\ \/ ev[h].type = "subscription"
                    \/ ev[h].type = "charge.approved" /\ ev[h].ref = "none"
                 /\ Goto(h, "upsert")
        BY <3>1, <3>3 DEF Grants, RowsOf
      <3>4. CASE Goto(h, "lookup")
        BY <3>1, <3>4
      <3>5. CASE /\ ev[h].type = "chargeback.received"
                 /\ Goto(h, "settle") \/ Goto(h, "dispute")
        BY <3>1, <3>5 DEF Grants
      <3>. QED
        BY <1>3, <3>2, <3>3, <3>4, <3>5 DEF ApplyEvent
    <2>2. /\ acked' \in SUBSET Events /\ faults' \in 0 .. MaxFaults
          /\ ev[h] \in Events \cup {NoEvent} /\ ev' = [ev EXCEPT ![h] = ev[h]]
          /\ l \in Pcs
      BY <1>1, <1>2, <2>1, Same DEF Pcs, MoneyTypes
    <2>. QED
      BY <1>1, <1>2, <2>1, <2>2, QuietMoney DEF Goto
  <1>4. CASE Answer200(h) \/ Answer500(h)
    BY <1>1, <1>2, <1>4, AnswerMoney DEF MoneyTypes
  <1>5. CASE WriteDispute(h)
    <2>1. CASE Goto(h, "upsert") /\ UNCHANGED <<acked, ev>>
      <3>1. ~ Grants(ev[h]) /\ RowsOf(ev[h]) # {}
        BY <1>5 DEF WriteDispute, MoneyInv, Moving, Grants, RowsOf
      <3>. QED
        BY <1>1, <1>2, <2>1, <3>1, Same, QuietMoney DEF Goto, Pcs, MoneyTypes
    <2>. QED
      BY <1>4, <1>5, <2>1 DEF WriteDispute
  <1>6. CASE FindRow(h) \/ CreateRow(h)
    <2>1. /\ Grants(ev[h]) => creditRows[CreditKey(ev[h])] >= 1
          /\ RowsOf(ev[h]) # {}
      BY <1>1, <1>6 DEF FindRow, CreateRow, Granted, MoneyInv, Moving
    <2>2. ASSUME NEW l \in {"create", "lookup", "settle"}, Goto(h, l),
                 UNCHANGED <<acked, ev>>
          PROVE  MoneyInv'
      BY <1>1, <1>2, <2>1, <2>2, Same, QuietMoney DEF Goto, Pcs, MoneyTypes
    <2>. QED
      BY <1>4, <1>6, <2>2 DEF FindRow, CreateRow, Proceed
  <1>. QED
    BY <1>3, <1>5, <1>6

LEMMA InnerMoney ==
  ASSUME WebhooksInv, MoneyInv, NEW h \in Handlers,
         InnerLookup(h) \/ InnerRollback(h) \/ InnerCommit(h)
  PROVE  MoneyInv'
  <1>1. Types /\ MoneyTypes /\ Moving /\ Granted /\ GrantedIfProcessed
    BY DEF WebhooksInv, MoneyInv
  <1>2. ev[h] \in Events
    BY <1>1 DEF InnerLookup, InnerRollback, InnerCommit, Types
  <1>3. CreditKey(ev[h]) \in CreditKeys /\ ev[h].amount \in Int
    BY <1>2, KeyFields
  <1>4. CASE InnerLookup(h)
    <2>1. UNCHANGED <<processed, credits, creditRows, rows, faults>>
      BY <1>4 DEF InnerLookup, db
    <2>2. CASE InnerError(h)
      BY <1>1, <1>2, <2>1, <2>2, InnerErrorMoney DEF MoneyTypes
    <2>3. CASE /\ ev[h].amount > 0 /\ UNCHANGED <<acked, ev>>
               /\ creditRows[CreditKey(ev[h])] > 0
               /\ Goto(h, AfterCredits(ev[h]))
      <3>1. creditRows[CreditKey(ev[h])] >= 1
        BY <1>1, <1>3, <2>3 DEF MoneyTypes
      <3>2. faults' \in 0 .. MaxFaults
        BY <1>1, <2>1 DEF MoneyTypes
      <3>. QED
        BY <1>1, <2>1, <2>3, <3>1, <3>2, Same, GrantsHaveRows, QuietMoney
        DEF Goto, Pcs, MoneyTypes, AfterCredits
    <2>4. CASE /\ ev[h].amount > 0 /\ UNCHANGED <<acked, ev>>
               /\ Goto(h, "credit")
      <3>1. ev[h].amount \in Nat
        BY <1>3, <2>4
      <3>2. faults' \in 0 .. MaxFaults
        BY <1>1, <2>1 DEF MoneyTypes
      <3>. QED
        BY <1>1, <2>1, <2>4, <3>1, <3>2, Same, QuietMoney
        DEF Goto, Pcs, MoneyTypes
    <2>. QED
      BY <1>3, <1>4, <2>2, <2>3, <2>4 DEF InnerLookup
  <1>5. CASE InnerRollback(h)
    <2>1. UNCHANGED <<processed, credits, creditRows, rows>>
          /\ faults' \in 0 .. MaxFaults
      BY <1>5, FaultTypes DEF InnerRollback, db
    <2>. QED
      BY <1>1, <1>2, <1>5, <2>1, InnerErrorMoney DEF InnerRollback
  <1>6. CASE InnerCommit(h)
    <2>1. UNCHANGED <<processed, rows, faults>> /\ pc[h] = "credit"
      BY <1>6 DEF InnerCommit
    <2>2. CASE InnerError(h) /\ UNCHANGED <<credits, creditRows>>
      BY <1>1, <1>2, <2>1, <2>2, InnerErrorMoney DEF MoneyTypes
    <2>3. CASE /\ Grants(ev[h]) \/ credits >= ev[h].amount
               /\ credits' = IF Grants(ev[h]) THEN credits + ev[h].amount
                             ELSE credits - ev[h].amount
               /\ creditRows' = [creditRows EXCEPT ![CreditKey(ev[h])] = @ + 1]
               /\ Goto(h, AfterCredits(ev[h]))
               /\ UNCHANGED <<acked, ev>>
      <3>1. ev[h].amount \in Nat
        BY <1>1, <2>1 DEF Moving
      <3>2. credits' \in Nat
        BY <1>1, <2>3, <3>1 DEF MoneyTypes
      <3>3. /\ creditRows' \in [CreditKeys -> Nat]
            /\ creditRows'[CreditKey(ev[h])] >= 1
            /\ \A k \in CreditKeys : creditRows'[k] >= creditRows[k]
        BY <1>1, <1>3, <2>3 DEF MoneyTypes
      <3>4. MoneyTypes'
        BY <1>1, <2>1, <2>3, <3>2, <3>3 DEF MoneyTypes
      <3>5. /\ pc'[h] \in {"upsert", "settle"}
            /\ \A g \in Handlers : g # h => pc'[g] = pc[g]
        BY <1>1, <2>3 DEF Types, Goto, AfterCredits
      <3>6. Moving'
        BY <1>1, <2>3, <3>5, GrantsHaveRows DEF Moving, Goto, Types, AfterCredits
      <3>7. Granted'
        <4>1. SUFFICES ASSUME NEW g \in Handlers, g # h, Grants(ev[g]),
                              pc[g] \in {"upsert", "create", "settle"}
                       PROVE  creditRows'[CreditKey(ev[g])] >= 1
          BY <2>3, <3>3, <3>5 DEF Granted
        <4>2. ev[g] \in Events
          BY <1>1, <4>1 DEF Types
        <4>3. CreditKey(ev[g]) \in CreditKeys
          BY <4>2, KeyFields
        <4>. QED
          BY <1>1, <3>3, <4>1, <4>3 DEF Granted, MoneyTypes
      <3>8. GrantedIfProcessed'
        <4>1. \A e \in Events : CreditKey(e) \in CreditKeys
          BY KeyFields
        <4>. QED
          BY <1>1, <2>1, <3>3, <4>1 DEF GrantedIfProcessed, MoneyTypes
      <3>. QED
        BY <3>4, <3>6, <3>7, <3>8 DEF MoneyInv
    <2>. QED
      BY <1>6, <2>2, <2>3 DEF InnerCommit
  <1>. QED
    BY <1>4, <1>5, <1>6

LEMMA FailMoney ==
  ASSUME WebhooksInv, MoneyInv, NEW h \in Handlers,
         ExpiredFails(h) \/ AcquireTimeout(h) \/ OuterRollback(h)
  PROVE  MoneyInv'
  <1>1. Types /\ MoneyTypes
    BY DEF WebhooksInv, MoneyInv
  <1>2. UNCHANGED <<processed, credits, creditRows, rows>>
        /\ faults' \in 0 .. MaxFaults
    BY <1>1, FaultTypes
    DEF ExpiredFails, AcquireTimeout, OuterRollback, db, MoneyTypes
  <1>3. CASE Answer500(h)
    <2>1. acked' \in SUBSET Events /\ Finish(h)
      BY <1>1, <1>3 DEF Answer500, MoneyTypes
    <2>. QED
      BY <1>1, <1>2, <2>1, QuietMoney DEF Finish, Goto, Pcs
  <1>4. CASE pc[h] = "lookup" /\ InnerError(h)
    BY <1>1, <1>2, <1>4, InnerErrorMoney DEF Types
  <1>. QED
    BY <1>3, <1>4 DEF ExpiredFails, AcquireTimeout, OuterRollback

LEMMA CrashMoney ==
  ASSUME MoneyInv, Crash
  PROVE  MoneyInv'
  <1>1. faults' \in 0 .. MaxFaults
    BY FaultTypes DEF Crash
  <1>. QED
    BY <1>1
    DEF Crash, db, MoneyInv, MoneyTypes, Moving, Granted, GrantedIfProcessed

\* The commit of a granting event's dedup row finds its credits granted.
LEMMA CommitMoney ==
  ASSUME WebhooksInv, MoneyInv, NEW h \in Handlers, CommitOuter(h)
  PROVE  MoneyInv'
  <1>. DEFINE e == ev[h]
  <1>1. Types /\ MoneyTypes /\ Moving /\ Granted /\ GrantedIfProcessed
    BY DEF WebhooksInv, MoneyInv
  <1>2. /\ pc[h] = "settle" /\ e \in Events
        /\ Finish(h) /\ processed' = processed \cup {e.id}
        /\ UNCHANGED <<credits, creditRows>>
        /\ acked' \in {acked, acked \cup {e}}
        /\ rows' \in {rows, rows \cup RowsOf(e)}
    BY <1>1 DEF CommitOuter, Types, Answer200, Answer500
  <1>3. faults' \in 0 .. MaxFaults
    BY <1>1, FaultTypes DEF CommitOuter, MoneyTypes
  <1>4. MoneyTypes'
    BY <1>1, <1>2, <1>3, RowFields DEF MoneyTypes
  <1>5. /\ pc'[h] = "idle"
        /\ \A g \in Handlers : g # h => pc'[g] = pc[g] /\ ev'[g] = ev[g]
    BY <1>1, <1>2 DEF Types, Finish, Goto
  <1>6. Moving' /\ Granted'
    BY <1>1, <1>2, <1>5 DEF Moving, Granted
  <1>7. GrantedIfProcessed'
    <2>1. SUFFICES ASSUME NEW f \in Events, Grants(f), f.id = e.id
                   PROVE  creditRows[CreditKey(f)] >= 1
      BY <1>1, <1>2 DEF GrantedIfProcessed
    <2>2. Grants(e) /\ CreditKey(e) = CreditKey(f)
      BY <1>2, <2>1, IdGrantsKey
    <2>. QED
      BY <1>1, <1>2, <2>2 DEF Granted
  <1>. QED
    BY <1>4, <1>6, <1>7 DEF MoneyInv

LEMMA MoneyStep == WebhooksInv /\ MoneyInv /\ [Next]_vars => MoneyInv'
  <1>1. SUFFICES ASSUME WebhooksInv, MoneyInv, [Next]_vars PROVE MoneyInv'
    OBVIOUS
  <1>2. CASE UNCHANGED vars
    BY <1>1, <1>2
    DEF vars, MoneyInv, MoneyTypes, Moving, Granted, GrantedIfProcessed
  <1>3. CASE Crash
    BY <1>1, <1>3, CrashMoney
  <1>4. ASSUME NEW h \in Handlers,
               \/ \E e \in Events : Receive(h, e)
               \/ Step(h) \/ Expire(h) \/ AcquireTimeout(h)
               \/ InnerRollback(h) \/ OuterRollback(h)
        PROVE  MoneyInv'
    BY <1>1, <1>4, EarlyMoney, ApplyMoney, InnerMoney, FailMoney, CommitMoney
    DEF Step
  <1>5. CASE OthersCreate
    BY <1>1, <1>5
    DEF OthersCreate, MoneyInv, MoneyTypes, Moving, Granted, GrantedIfProcessed,
        Rows
  <1>. QED
    BY <1>1, <1>2, <1>3, <1>4, <1>5 DEF Next

THEOREM MoneyInvariant == Spec => []MoneyInv
  <1>1. Init => MoneyInv
    BY MoneyInit
  <1>. QED
    BY <1>1, MoneyStep, WebhooksInvariant, PTL DEF Spec

\* The variables of both controllers keep their types; the balance of credits
\* stays a natural number.
THEOREM WebhooksTypes == Spec => []TypeOK
  <1>1. WebhooksInv /\ MoneyInv => TypeOK
    BY DEF WebhooksInv, MoneyInv, Types, MoneyTypes, TypeOK, Pcs
  <1>. QED
    BY <1>1, WebhooksInvariant, MoneyInvariant, PTL

\* An answer with 200 that commits nothing.
LEMMA TellsOf ==
  ASSUME WebhooksInv, MoneyInv, NEW h \in Handlers,
         \/ \E f \in Events : Receive(h, f)
         \/ InsertDedup(h) \/ WriteDispute(h) \/ CreateRow(h),
         NEW e \in acked', e \notin acked
  PROVE  \/ Settled(e) /\ UNCHANGED db
         \/ Beaten(h, e)
  <1>1. /\ Types /\ OneReversalPerCharge /\ Moving /\ Granted
        /\ GrantedIfProcessed
    BY DEF WebhooksInv, MoneyInv
  <1>2. ASSUME NEW f \in Events, f.id \in processed
        PROVE  Settled(f)
    BY <1>1, <1>2 DEF Settled, GrantedIfProcessed
  <1>3. CASE \E f \in Events : Receive(h, f)
    BY <1>2, <1>3 DEF Receive, Settled
  <1>4. CASE InsertDedup(h)
    BY <1>1, <1>2, <1>4 DEF InsertDedup, Answer200, Types
  <1>5. CASE WriteDispute(h)
    <2>1. /\ e = ev[h] /\ reversals[e.txn] > 0 /\ e \in Events
          /\ e.type = "chargeback.received"
      BY <1>1, <1>5 DEF WriteDispute, Answer200, Types, Moving
    <2>2. reversals[e.txn] = 1
      BY <1>1, <2>1, EventFields DEF OneReversalPerCharge, Types
    <2>. QED
      BY <1>5, <2>1, <2>2 DEF Settled, WriteDispute
  <1>6. CASE CreateRow(h)
    <2>1. e = ev[h] /\ pc[h] = "create" /\ RowsOf(e) \subseteq rows
      BY <1>6 DEF CreateRow, Answer200, Answer500, Proceed
    <2>. QED
      BY <1>1, <2>1 DEF Beaten, Granted
  <1>. QED
    BY <1>3, <1>4, <1>5, <1>6

LEMMA AckStep ==
  ASSUME WebhooksInv, MoneyInv, [Next]_vars, NEW e \in acked', e \notin acked
  PROVE  Settled(e)' \/ \E h \in Handlers : Beaten(h, e)
  <1>1. ASSUME NEW h \in Handlers,
               \/ \E f \in Events : Receive(h, f)
               \/ InsertDedup(h) \/ WriteDispute(h) \/ CreateRow(h)
        PROVE  Settled(e)' \/ \E g \in Handlers : Beaten(g, e)
    BY <1>1, TellsOf DEF Settled, db
  <1>2. ASSUME NEW h \in Handlers, CommitOuter(h)
        PROVE  Settled(e)'
    <2>1. /\ e = ev[h] /\ e.id \in processed' /\ pc[h] = "settle"
          /\ UNCHANGED creditRows
      BY <1>2 DEF CommitOuter, Answer200, Answer500
    <2>2. Grants(e) => creditRows[CreditKey(e)] >= 1
      BY <2>1 DEF MoneyInv, Granted
    <2>. QED
      BY <2>1, <2>2 DEF Settled
  <1>3. ASSUME NEW h \in Handlers,
               \/ OpenOuter(h) \/ ApplyEvent(h) \/ FindRow(h) \/ InnerLookup(h)
               \/ InnerCommit(h) \/ ExpiredFails(h) \/ Expire(h)
               \/ AcquireTimeout(h) \/ InnerRollback(h) \/ OuterRollback(h)
        PROVE  FALSE
    <2>1. Answer500(h) \/ InnerError(h) \/ Proceed(h) => UNCHANGED acked
      BY DEF Answer500, InnerError, Proceed
    <2>2. UNCHANGED acked
      BY <1>3, <2>1
      DEF OpenOuter, ApplyEvent, FindRow, InnerLookup, InnerCommit,
          ExpiredFails, Expire, AcquireTimeout, InnerRollback, OuterRollback
    <2>. QED
      BY <2>2
  <1>4. CASE UNCHANGED vars \/ Crash \/ OthersCreate
    BY <1>4 DEF vars, Crash, OthersCreate
  <1>. QED
    BY <1>1, <1>2, <1>3, <1>4 DEF Next, Step

\* handleWebhook and handleConfirmation: an answer with 200 means that the
\* event has its dedup row and the credits it grants, or that its dispute has
\* its reversal, or that its handler was beaten to a row; whatever timeout,
\* rollback or crash came before.
THEOREM AcknowledgedIsSettledOrBeaten == Spec => AckedIsSettledOrBeaten
  <1>1. WebhooksInv /\ MoneyInv /\ [Next]_vars =>
          [\A e \in acked' \ acked :
             Settled(e)' \/ \E h \in Handlers : Beaten(h, e)]_vars
    BY AckStep
  <1>. QED
    BY <1>1, WebhooksInvariant, MoneyInvariant, PTL
    DEF Spec, AckedIsSettledOrBeaten
-----------------------------------------------------------------------------
(* Without the expiry of outer transactions, a handler in its credits       *)
(* transaction still holds its dedup id and its dispute, and with them the  *)
(* credits key.                                                             *)

InsideOuter ==
  \A h \in Handlers :
    /\ pc[h] \in {"lookup", "credit"} => outer[h] = "open" /\ Moves(ev[h])
    /\ pc[h] \in Late \ {"settle"} /\ ev[h].type = "chargeback.received" =>
         writes[h]

Unmoved ==
  \A h \in Handlers : pc[h] = "credit" => creditRows[CreditKey(ev[h])] = 0

OnceInv == InsideOuter /\ Unmoved /\ CreditsAtMostOnce

LEMMA KeyIsTypeAndTxn ==
  ASSUME NEW e \in Events, NEW f \in Events, Moves(e), Moves(f),
         CreditKey(e) = CreditKey(f)
  PROVE  e.type = f.type /\ e.txn = f.txn
  BY DEF Moves, Grants, Deducts, CreditKey

LEMMA KeyIsHeld ==
  ASSUME WebhooksInv, OnceInv, OneIdPerKey,
         NEW g \in Handlers, NEW h \in Handlers,
         pc[g] \in {"lookup", "credit"}, pc[h] \in {"lookup", "credit"},
         CreditKey(ev[g]) = CreditKey(ev[h])
  PROVE  g = h
  <1>1. Types /\ IdsHeld /\ DisputesHeld /\ InsideOuter
    BY DEF WebhooksInv, OnceInv
  <1>2. ev[g] \in Events /\ ev[h] \in Events
    BY <1>1 DEF Types
  <1>3. Moves(ev[g]) /\ Moves(ev[h]) /\ outer[g] = "open" /\ outer[h] = "open"
    BY <1>1 DEF InsideOuter
  <1>4. ev[g].type = ev[h].type /\ ev[g].txn = ev[h].txn
    BY <1>2, <1>3, KeyIsTypeAndTxn
  <1>5. CASE ev[h].type = "chargeback.received"
    <2>1. HoldsDispute(g, ev[h].txn) /\ HoldsDispute(h, ev[h].txn)
      BY <1>1, <1>3, <1>4, <1>5 DEF InsideOuter, HoldsDispute, Late
    <2>. QED
      BY <1>1, <2>1 DEF DisputesHeld
  <1>6. CASE ev[h].type # "chargeback.received"
    <2>1. ev[g].id = ev[h].id
      BY <1>2, <1>3, <1>4, <1>6 DEF OneIdPerKey
    <2>2. HoldsId(g, ev[h].id) /\ HoldsId(h, ev[h].id)
      BY <1>3, <2>1 DEF HoldsId
    <2>. QED
      BY <1>1, <2>2 DEF IdsHeld
  <1>. QED
    BY <1>5, <1>6

\* A step of h that commits no credits.
LEMMA QuietOnce ==
  ASSUME Types, OnceInv, NEW h \in Handlers, UNCHANGED creditRows,
         NEW l, pc' = [pc EXCEPT ![h] = l],
         l \in Late \ {"settle"} =>
           /\ ev'[h] = ev[h]
           /\ ev[h].type = "chargeback.received" => writes'[h],
         l \in {"lookup", "credit"} => outer'[h] = "open" /\ Moves(ev[h]),
         l = "credit" => creditRows[CreditKey(ev[h])] = 0,
         \A g \in Handlers : g # h =>
           ev'[g] = ev[g] /\ outer'[g] = outer[g] /\ writes'[g] = writes[g]
  PROVE  OnceInv'
  <1>1. InsideOuter /\ Unmoved /\ CreditsAtMostOnce
    BY DEF OnceInv
  <1>2. pc'[h] = l /\ \A g \in Handlers : g # h => pc'[g] = pc[g]
    BY DEF Types
  <1>3. InsideOuter'
    BY <1>1, <1>2 DEF InsideOuter, Late
  <1>4. Unmoved'
    BY <1>1, <1>2 DEF Unmoved, Late
  <1>5. CreditsAtMostOnce'
    BY <1>1 DEF CreditsAtMostOnce
  <1>. QED
    BY <1>3, <1>4, <1>5 DEF OnceInv

LEMMA FinishOnce ==
  ASSUME Types, OnceInv, NEW h \in Handlers, Finish(h), UNCHANGED creditRows
  PROVE  OnceInv'
  <1>1. \A g \in Handlers : g # h =>
          ev'[g] = ev[g] /\ outer'[g] = outer[g] /\ writes'[g] = writes[g]
    BY DEF Finish, Types
  <1>2. pc' = [pc EXCEPT ![h] = "idle"]
    BY DEF Finish, Goto
  <1>. QED
    BY <1>1, <1>2, QuietOnce DEF Late

LEMMA InnerErrorOnce ==
  ASSUME Types, OnceInv, NEW h \in Handlers, InnerError(h), UNCHANGED creditRows
  PROVE  OnceInv'
  <1>1. CASE Answer500(h)
    BY <1>1, FinishOnce DEF Answer500
  <1>2. CASE Goto(h, "settle") /\ UNCHANGED <<acked, ev, outer, writes>>
    BY <1>2, QuietOnce DEF Goto, Late
  <1>. QED
    BY <1>1, <1>2 DEF InnerError

LEMMA OuterOnce ==
  ASSUME WebhooksInv, MoneyInv, OnceInv, NEW h \in Handlers,
         \/ \E e \in Events : Receive(h, e)
         \/ OpenOuter(h) \/ InsertDedup(h) \/ ApplyEvent(h) \/ WriteDispute(h)
         \/ FindRow(h) \/ CreateRow(h) \/ CommitOuter(h)
         \/ ExpiredFails(h) \/ AcquireTimeout(h) \/ OuterRollback(h)
  PROVE  OnceInv'
  <1>1. Types
    BY DEF WebhooksInv
  <1>2. UNCHANGED creditRows
    BY DEF Receive, OpenOuter, InsertDedup, ApplyEvent, WriteDispute, FindRow,
           CreateRow, CommitOuter, ExpiredFails, AcquireTimeout, OuterRollback,
           db
  <1>3. CASE Finish(h)
    BY <1>1, <1>2, <1>3, FinishOnce
  <1>4. CASE InnerError(h)
    BY <1>1, <1>2, <1>4, InnerErrorOnce
  <1>5. ASSUME NEW e \in Events, Receive(h, e)
        PROVE  OnceInv'
    <2>1. UNCHANGED <<outer, writes>>
      BY <1>5 DEF Receive
    <2>2. CASE UNCHANGED <<ev, pc>>
      BY <1>2, <2>1, <2>2
      DEF OnceInv, InsideOuter, Unmoved, CreditsAtMostOnce
    <2>3. CASE Goto(h, "begin") /\ ev' = [ev EXCEPT ![h] = e]
      <3>1. \A g \in Handlers : g # h => ev'[g] = ev[g]
        BY <1>1, <2>3 DEF Types
      <3>. QED
        BY <1>1, <1>2, <2>1, <2>3, <3>1, QuietOnce DEF Goto, Late
    <2>. QED
      BY <1>5, <2>2, <2>3 DEF Receive
  <1>6. CASE OpenOuter(h)
    <2>1. pc' = [pc EXCEPT ![h] = "insert"] /\ UNCHANGED <<ev, writes>>
          /\ \A g \in Handlers : g # h => outer'[g] = outer[g]
      BY <1>1, <1>6 DEF OpenOuter, Goto, Types
    <2>. QED
      BY <1>1, <1>2, <2>1, QuietOnce DEF Late
  <1>7. CASE Goto(h, "apply") /\ UNCHANGED <<ev, outer, writes>>
    BY <1>1, <1>2, <1>7, QuietOnce DEF Goto, Late
  <1>8. CASE ApplyEvent(h)
    <2>1. outer[h] = "open" /\ UNCHANGED <<ev, outer>>
      BY <1>8 DEF ApplyEvent
    <2>2. PICK l \in {"settle", "upsert", "lookup", "dispute"}, w \in BOOLEAN :
            /\ Goto(h, l) /\ writes' = [writes EXCEPT ![h] = w]
            /\ l \in {"upsert", "lookup"} => ev[h].type # "chargeback.received"
            /\ l = "lookup" => Moves(ev[h])
      <3>1. CASE ev[h].type = "chargeback.received"
        BY <1>8, <3>1 DEF ApplyEvent, Grants, Deducts
      <3>2. CASE ev[h].type # "chargeback.received"
        BY <1>8, <3>2 DEF ApplyEvent, Grants, Deducts, Moves
      <3>. QED
        BY <3>1, <3>2
    <2>3. \A g \in Handlers : g # h => writes'[g] = writes[g]
      BY <1>1, <2>2 DEF Types
    <2>. QED
      BY <1>1, <1>2, <2>1, <2>2, <2>3, QuietOnce DEF Goto, Late
  <1>9. CASE /\ Goto(h, "upsert") /\ writes' = [writes EXCEPT ![h] = TRUE]
             /\ UNCHANGED <<acked, ev, outer>>
    <2>1. writes'[h] /\ \A g \in Handlers : g # h => writes'[g] = writes[g]
      BY <1>1, <1>9 DEF Types
    <2>. QED
      BY <1>1, <1>2, <1>9, <2>1, QuietOnce DEF Goto, Late
  <1>10. CASE WriteDispute(h)
    BY <1>3, <1>9, <1>10 DEF WriteDispute, Answer200
  <1>13. CASE FindRow(h) \/ CreateRow(h)
    <2>1. /\ outer[h] = "open"
          /\ ev[h].type = "chargeback.received" => writes[h]
      BY <1>13 DEF FindRow, CreateRow, OnceInv, InsideOuter, Late
    <2>2. CASE Goto(h, "create") /\ UNCHANGED <<ev, outer, writes>>
      BY <1>1, <1>2, <2>1, <2>2, QuietOnce DEF Goto, Late
    <2>3. CASE /\ Goto(h, IF ev[h].type = "chargeback.received"
                          THEN "lookup" ELSE "settle")
               /\ UNCHANGED <<ev, outer, writes>>
      BY <1>1, <1>2, <2>1, <2>3, QuietOnce DEF Goto, Late, Moves, Deducts
    <2>. QED
      BY <1>3, <1>13, <2>2, <2>3
      DEF FindRow, CreateRow, Proceed, Answer200, Answer500
  <1>11. CASE InsertDedup(h)
    BY <1>3, <1>7, <1>11 DEF InsertDedup, Answer200
  <1>12. CASE \/ CommitOuter(h) \/ ExpiredFails(h) \/ AcquireTimeout(h)
              \/ OuterRollback(h)
    BY <1>3, <1>4, <1>12
    DEF CommitOuter, ExpiredFails, AcquireTimeout, OuterRollback, Answer200,
        Answer500
  <1>. QED
    BY <1>5, <1>6, <1>8, <1>10, <1>11, <1>12, <1>13

\* A handler that commits under a key is the only one in a transaction for it.
LEMMA InnerOnce ==
  ASSUME WebhooksInv, MoneyInv, OnceInv, OneIdPerKey, NEW h \in Handlers,
         InnerLookup(h) \/ InnerRollback(h) \/ InnerCommit(h)
  PROVE  OnceInv'
  <1>1. Types /\ InsideOuter /\ Unmoved /\ CreditsAtMostOnce /\ MoneyTypes
    BY DEF WebhooksInv, OnceInv, MoneyInv
  <1>2. ev[h] \in Events /\ pc[h] \in {"lookup", "credit"}
    BY <1>1 DEF InnerLookup, InnerRollback, InnerCommit, Types
  <1>3. CreditKey(ev[h]) \in CreditKeys
    BY <1>2, KeyFields
  <1>4. CASE InnerError(h) /\ UNCHANGED creditRows
    BY <1>1, <1>4, InnerErrorOnce
  <1>5. CASE /\ InnerLookup(h) /\ UNCHANGED <<creditRows, ev, outer, writes>>
             /\ Goto(h, IF creditRows[CreditKey(ev[h])] > 0
                        THEN AfterCredits(ev[h]) ELSE "credit")
    <2>1. creditRows[CreditKey(ev[h])] \in Nat
      BY <1>1, <1>3 DEF MoneyTypes
    <2>2. /\ outer[h] = "open" /\ Moves(ev[h])
          /\ ev[h].type = "chargeback.received" => writes[h]
      BY <1>1, <1>2 DEF InsideOuter, Late
    <2>3. CASE creditRows[CreditKey(ev[h])] = 0
      BY <1>1, <1>5, <2>2, <2>3, QuietOnce DEF Goto
    <2>4. CASE creditRows[CreditKey(ev[h])] > 0
      BY <1>1, <1>5, <2>2, <2>4, QuietOnce DEF Goto, AfterCredits
    <2>. QED
      BY <2>1, <2>3, <2>4
  <1>6. CASE /\ pc[h] = "credit"
             /\ creditRows' = [creditRows EXCEPT ![CreditKey(ev[h])] = @ + 1]
             /\ Goto(h, AfterCredits(ev[h])) /\ UNCHANGED <<ev, outer, writes>>
    <2>1. /\ pc'[h] \in {"upsert", "settle"}
          /\ \A g \in Handlers : g # h => pc'[g] = pc[g]
      BY <1>1, <1>6 DEF Types, Goto, AfterCredits
    <2>2. InsideOuter'
      BY <1>1, <1>6, <2>1 DEF InsideOuter, Late
    <2>3. creditRows[CreditKey(ev[h])] = 0
      BY <1>1, <1>6 DEF Unmoved
    <2>4. CreditsAtMostOnce'
      BY <1>1, <1>3, <1>6, <2>3 DEF CreditsAtMostOnce, MoneyTypes
    <2>5. Unmoved'
      <3>1. SUFFICES ASSUME NEW g \in Handlers, g # h, pc[g] = "credit"
                     PROVE  creditRows'[CreditKey(ev[g])] = 0
        BY <1>6, <2>1 DEF Unmoved
      <3>2. CreditKey(ev[g]) # CreditKey(ev[h])
        BY <1>2, <3>1, KeyIsHeld
      <3>3. CreditKey(ev[g]) \in CreditKeys
        BY <1>1, <3>1, KeyFields DEF Types
      <3>. QED
        BY <1>1, <1>3, <1>6, <3>1, <3>2, <3>3 DEF Unmoved, MoneyTypes
    <2>. QED
      BY <2>2, <2>4, <2>5 DEF OnceInv
  <1>. QED
    BY <1>4, <1>5, <1>6 DEF InnerLookup, InnerRollback, InnerCommit, db

LEMMA OnceStep ==
  ASSUME ~ Expiry, OneIdPerKey, WebhooksInv, MoneyInv, OnceInv, [Next]_vars
  PROVE  OnceInv'
  <1>1. CASE UNCHANGED vars
    BY <1>1 DEF vars, OnceInv, InsideOuter, Unmoved, CreditsAtMostOnce
  <1>2. CASE Crash
    BY <1>2 DEF Crash, db, OnceInv, InsideOuter, Unmoved, CreditsAtMostOnce, Late
  <1>3. ASSUME NEW h \in Handlers,
               \/ \E e \in Events : Receive(h, e)
               \/ Step(h) \/ AcquireTimeout(h)
               \/ InnerRollback(h) \/ OuterRollback(h)
        PROVE  OnceInv'
    BY <1>3, OuterOnce, InnerOnce DEF Step
  <1>4. CASE OthersCreate
    BY <1>4 DEF OthersCreate, OnceInv, InsideOuter, Unmoved, CreditsAtMostOnce
  <1>. QED
    BY <1>1, <1>2, <1>3, <1>4 DEF Next, Expire

\* CreditsService inside a webhook: as long as outer transactions do not expire
\* under their handlers, and the credits of a transaction are told of under one
\* id, an idempotency key moves credits once.
THEOREM CreditsMoveOnce ==
  ASSUME ~ Expiry, OneIdPerKey
  PROVE  Spec => []CreditsAtMostOnce
  <1>1. Init => OnceInv
    BY DEF Init, OnceInv, InsideOuter, Unmoved, CreditsAtMostOnce, Late
  <1>2. WebhooksInv /\ MoneyInv /\ OnceInv /\ [Next]_vars => OnceInv'
    BY OnceStep
  <1>3. OnceInv => CreditsAtMostOnce
    BY DEF OnceInv
  <1>. QED
    BY <1>1, <1>2, <1>3, WebhooksInvariant, MoneyInvariant, PTL DEF Spec
-----------------------------------------------------------------------------
(* The callbacks implement the inbox.  What a handler writes and moves is   *)
(* what its event is about (Told), and with that its steps are those of the *)
(* inbox: the commit of its credits, the commit of its outer transaction,   *)
(* its answer; every other step is none.                                    *)

\* What the transaction of e writes, where w says whether it does and n
\* reversals of the charge are committed.
Told(e, w, n) ==
  IF e.type = "chargeback.received" THEN w \/ n > 0 ELSE w <=> e \in Writing

TellInv ==
  \A h \in Handlers :
    /\ pc[h] \in Late => Told(ev[h], writes[h], reversals[ev[h].txn])
    /\ pc[h] \in {"lookup", "credit"} => Moves(ev[h])
    /\ pc[h] = "credit" => ev[h].amount > 0

LEMMA ToldStays ==
  ASSUME NEW e, NEW w, NEW m, NEW n, Told(e, w, m), m > 0 => n > 0
  PROVE  Told(e, w, n)
  BY DEF Told

\* A step of h that takes back no reversal and comes to l.
LEMMA StepTells ==
  ASSUME Types, TellInv, NEW h \in Handlers,
         NEW l, pc' = [pc EXCEPT ![h] = l],
         \A t \in Txns : reversals[t] > 0 => reversals'[t] > 0,
         \A g \in Handlers : g # h => ev'[g] = ev[g] /\ writes'[g] = writes[g],
         l \in Late => /\ ev[h] \in Events /\ ev'[h] = ev[h]
                       /\ Told(ev[h], writes'[h], reversals[ev[h].txn]),
         l \in {"lookup", "credit"} => Moves(ev[h]),
         l = "credit" => ev[h].amount > 0
  PROVE  TellInv'
  <1>1. pc'[h] = l /\ \A g \in Handlers : g # h => pc'[g] = pc[g]
    BY DEF Types
  <1>2. ASSUME NEW g \in Handlers, pc'[g] \in Late
        PROVE  Told(ev'[g], writes'[g], reversals'[ev'[g].txn])
    <2>1. /\ ev[g] \in Events /\ ev'[g] = ev[g]
          /\ Told(ev[g], writes'[g], reversals[ev[g].txn])
      <3>1. CASE g = h
        BY <1>1, <1>2, <3>1
      <3>2. CASE g # h
        <4>1. pc[g] \in Late /\ pc[g] # "idle"
          BY <1>1, <1>2, <3>2 DEF Late
        <4>2. /\ ev[g] \in Events
              /\ Told(ev[g], writes[g], reversals[ev[g].txn])
          BY <4>1 DEF Types, TellInv
        <4>. QED
          BY <3>2, <4>2
      <3>. QED
        BY <3>1, <3>2
    <2>2. reversals[ev[g].txn] > 0 => reversals'[ev[g].txn] > 0
      BY <2>1, EventFields
    <2>3. Told(ev[g], writes'[g], reversals'[ev[g].txn])
      BY <2>1, <2>2, ToldStays
    <2>. QED
      BY <2>1, <2>3
  <1>3. \A g \in Handlers :
          /\ pc'[g] \in {"lookup", "credit"} => Moves(ev'[g])
          /\ pc'[g] = "credit" => ev'[g].amount > 0
    BY <1>1 DEF TellInv, Late
  <1>. QED
    BY <1>2, <1>3 DEF TellInv

\* A step that leaves the handlers' events and writes alone.
LEMMA MoveTells ==
  ASSUME Types, TellInv, NEW h \in Handlers,
         NEW l, pc' = [pc EXCEPT ![h] = l],
         UNCHANGED <<reversals, ev, writes>>,
         l \in Late => pc[h] \in Late,
         l \in {"lookup", "credit"} => Moves(ev[h]),
         l = "credit" => ev[h].amount > 0
  PROVE  TellInv'
  <1>1. l \in Late => /\ ev[h] \in Events
                      /\ Told(ev[h], writes[h], reversals[ev[h].txn])
    BY DEF Types, TellInv, Late
  <1>. QED
    BY <1>1, StepTells

LEMMA FinishTells ==
  ASSUME Types, TellInv, NEW h \in Handlers, Finish(h),
         \A t \in Txns : reversals[t] > 0 => reversals'[t] > 0
  PROVE  TellInv'
  <1>1. /\ pc' = [pc EXCEPT ![h] = "idle"]
        /\ \A g \in Handlers : g # h => ev'[g] = ev[g] /\ writes'[g] = writes[g]
    BY DEF Finish, Goto, Types
  <1>. QED
    BY <1>1, StepTells DEF Late

LEMMA InnerErrorTells ==
  ASSUME Types, TellInv, NEW h \in Handlers, InnerError(h),
         pc[h] \in {"lookup", "credit"}, UNCHANGED reversals
  PROVE  TellInv'
  <1>1. CASE Answer500(h)
    BY <1>1, FinishTells DEF Answer500
  <1>2. CASE Goto(h, "settle") /\ UNCHANGED <<acked, ev, outer, writes>>
    BY <1>2, MoveTells DEF Goto, Late
  <1>. QED
    BY <1>1, <1>2 DEF InnerError

\* Where an event's writes are decided.
LEMMA ApplyTells ==
  ASSUME Types, Moving, TellInv, NEW h \in Handlers,
         ApplyEvent(h) \/ WriteDispute(h) \/ FindRow(h) \/ CreateRow(h)
  PROVE  TellInv'
  <1> DEFINE e == ev[h]
  <1>1. e \in Events /\ UNCHANGED reversals
    BY DEF ApplyEvent, WriteDispute, FindRow, CreateRow, db, Types
  <1>2. ASSUME NEW l, NEW w, Goto(h, l), writes' = [writes EXCEPT ![h] = w],
               UNCHANGED ev,
               l \in Late => Told(e, w, reversals[e.txn]),
               l = "lookup" => Moves(e), l # "credit"
        PROVE  TellInv'
    <2>1. writes'[h] = w /\ \A g \in Handlers : g # h => writes'[g] = writes[g]
      BY <1>2 DEF Types
    <2>. QED
      BY <1>1, <1>2, <2>1, StepTells DEF Goto
  <1>3. CASE ApplyEvent(h)
    <2>1. UNCHANGED ev
      BY <1>3 DEF ApplyEvent
    <2>2. CASE /\ e.type \in {"cancellation", "subscription"}
               /\ Goto(h, "settle") \/ Goto(h, "upsert")
               /\ writes' = [writes EXCEPT ![h] = TRUE]
      <3>1. Told(e, TRUE, reversals[e.txn])
        BY <1>1, <2>2 DEF Told, Writing
      <3>. QED
        BY <1>2, <2>1, <2>2, <3>1
    <2>3. CASE /\ e.type \in {"charge.approved", "charge.refunded"}
               /\ e.ref # "credits"
               /\ Goto(h, "settle") \/ Goto(h, "upsert")
               /\ writes' = [writes EXCEPT ![h] =
                               (e.type = "charge.approved" /\ e.ref = "none")]
      <3>1. Told(e, e.type = "charge.approved" /\ e.ref = "none", reversals[e.txn])
        BY <1>1, <2>3 DEF Told, Writing, Grants
      <3>. QED
        BY <1>2, <2>1, <2>3, <3>1
    <2>4. CASE /\ e.type # "chargeback.received" /\ (Grants(e) \/ Deducts(e))
               /\ Goto(h, "lookup") /\ writes' = [writes EXCEPT ![h] = Grants(e)]
      <3>1. Told(e, Grants(e), reversals[e.txn])
        BY <1>1, <2>4 DEF Told, Writing, Grants, Deducts
      <3>. QED
        BY <1>2, <2>1, <2>4, <3>1 DEF Moves
    <2>5. CASE /\ e.type = "chargeback.received"
               /\ Goto(h, IF reversals[e.txn] > 0 THEN "settle" ELSE "dispute")
               /\ writes' = [writes EXCEPT ![h] = FALSE]
      <3>1. CASE reversals[e.txn] > 0
        <4>1. Told(e, FALSE, reversals[e.txn])
          BY <2>5, <3>1 DEF Told
        <4>. QED
          BY <1>2, <2>1, <2>5, <3>1, <4>1
      <3>2. CASE ~ (reversals[e.txn] > 0)
        BY <1>2, <2>1, <2>5, <3>2 DEF Late
      <3>. QED
        BY <3>1, <3>2
    <2>. QED
      BY <1>3, <2>2, <2>3, <2>4, <2>5 DEF ApplyEvent
  <1>4. CASE WriteDispute(h)
    <2>1. e.type = "chargeback.received"
      BY <1>4 DEF WriteDispute, Moving
    <2>2. CASE Finish(h)
      BY <1>1, <2>2, FinishTells
    <2>3. CASE /\ Goto(h, "upsert") /\ writes' = [writes EXCEPT ![h] = TRUE]
               /\ UNCHANGED ev
      <3>1. Told(e, TRUE, reversals[e.txn])
        BY <2>1 DEF Told
      <3>. QED
        BY <1>2, <2>3, <3>1
    <2>. QED
      BY <1>4, <2>2, <2>3 DEF WriteDispute, Answer200
  <1>5. CASE FindRow(h) \/ CreateRow(h)
    <2>1. pc[h] \in Late
      BY <1>5 DEF FindRow, CreateRow, Late
    <2>2. CASE Finish(h)
      BY <1>1, <2>2, FinishTells
    <2>3. CASE Goto(h, "create") /\ UNCHANGED <<ev, writes>>
      BY <1>1, <2>1, <2>3, MoveTells DEF Goto
    <2>4. CASE /\ Goto(h, IF e.type = "chargeback.received"
                          THEN "lookup" ELSE "settle")
               /\ UNCHANGED <<ev, writes>>
      BY <1>1, <2>1, <2>4, MoveTells DEF Goto, Moves, Deducts
    <2>. QED
      BY <1>5, <2>2, <2>3, <2>4
      DEF FindRow, CreateRow, Proceed, Answer200, Answer500
  <1>. QED
    BY <1>3, <1>4, <1>5

\* No committed reversal is taken back.
LEMMA ReversalsStay ==
  ASSUME Types, NEW h \in Handlers, CommitOuter(h)
  PROVE  \A t \in Txns : reversals[t] > 0 => reversals'[t] > 0
  <1>1. ev[h].txn \in Txns
    BY EventFields DEF CommitOuter, Types
  <1>. QED
    BY <1>1 DEF CommitOuter, Types

LEMMA TellStep ==
  ASSUME WebhooksInv, MoneyInv, TellInv, [Next]_vars
  PROVE  TellInv'
  <1>1. Types /\ Moving
    BY DEF WebhooksInv, MoneyInv
  <1>2. CASE UNCHANGED <<reversals, ev, pc, writes>>
    BY <1>2 DEF TellInv
  <1>3. CASE Crash
    BY <1>3 DEF Crash, TellInv, Late
  <1>4. ASSUME NEW h \in Handlers, NEW e \in Events, Receive(h, e)
        PROVE  TellInv'
    <2>1. CASE Goto(h, "begin") /\ ev' = [ev EXCEPT ![h] = e]
      <3>1. /\ \A g \in Handlers : g # h => ev'[g] = ev[g]
            /\ UNCHANGED <<reversals, writes>>
        BY <1>1, <1>4, <2>1 DEF Receive, db, Types
      <3>. QED
        BY <1>1, <2>1, <3>1, StepTells DEF Goto, Late
    <2>2. CASE UNCHANGED <<ev, pc>>
      BY <1>2, <1>4, <2>2 DEF Receive, db
    <2>. QED
      BY <1>4, <2>1, <2>2 DEF Receive
  <1>5. ASSUME NEW h \in Handlers, OpenOuter(h) \/ InsertDedup(h)
        PROVE  TellInv'
    <2>1. UNCHANGED reversals
      BY <1>5 DEF OpenOuter, InsertDedup, db
    <2>2. CASE Finish(h)
      BY <1>1, <2>1, <2>2, FinishTells
    <2>3. CASE (Goto(h, "insert") \/ Goto(h, "apply")) /\ UNCHANGED <<ev, writes>>
      BY <1>1, <2>1, <2>3, MoveTells DEF Goto, Late
    <2>. QED
      BY <1>5, <2>2, <2>3 DEF OpenOuter, InsertDedup, Answer200
  <1>6. ASSUME NEW h \in Handlers,
               InnerLookup(h) \/ InnerCommit(h) \/ InnerRollback(h)
        PROVE  TellInv'
    <2>1. /\ pc[h] \in {"lookup", "credit"} /\ UNCHANGED reversals
          /\ ev[h] \in Events
      BY <1>1, <1>6 DEF InnerLookup, InnerCommit, InnerRollback, db, Types
    <2>2. CASE InnerError(h)
      BY <1>1, <2>1, <2>2, InnerErrorTells
    <2>3. CASE (Goto(h, "settle") \/ Goto(h, "upsert")) /\ UNCHANGED <<ev, writes>>
      BY <1>1, <2>1, <2>3, MoveTells DEF Goto, Late
    <2>4. CASE /\ ~ (ev[h].amount <= 0) /\ Goto(h, "credit")
               /\ UNCHANGED <<ev, writes>>
      <3>1. ev[h].amount > 0 /\ Moves(ev[h])
        BY <2>1, <2>4, KeyFields DEF TellInv
      <3>. QED
        BY <1>1, <2>1, <2>4, <3>1, MoveTells DEF Goto, Late
    <2>. QED
      BY <1>6, <2>2, <2>3, <2>4
      DEF InnerLookup, InnerCommit, InnerRollback, AfterCredits
  <1>7. ASSUME NEW h \in Handlers, CommitOuter(h)
        PROVE  TellInv'
    <2>1. Finish(h)
      BY <1>7 DEF CommitOuter, Answer200, Answer500
    <2>. QED
      BY <1>1, <1>7, <2>1, ReversalsStay, FinishTells
  <1>8. ASSUME NEW h \in Handlers,
               ExpiredFails(h) \/ OuterRollback(h) \/ AcquireTimeout(h)
        PROVE  TellInv'
    <2>1. UNCHANGED reversals
      BY <1>8 DEF ExpiredFails, OuterRollback, AcquireTimeout, db
    <2>2. CASE Finish(h)
      BY <1>1, <2>1, <2>2, FinishTells
    <2>3. CASE pc[h] = "lookup" /\ InnerError(h)
      BY <1>1, <2>1, <2>3, InnerErrorTells
    <2>. QED
      BY <1>8, <2>2, <2>3 DEF ExpiredFails, OuterRollback, AcquireTimeout, Answer500
  <1>9. ASSUME NEW h \in Handlers, Expire(h)
        PROVE  TellInv'
    BY <1>2, <1>9 DEF Expire, db
  <1>10. CASE UNCHANGED vars \/ OthersCreate
    BY <1>2, <1>10 DEF vars, OthersCreate
  <1>. QED
    BY <1>1, <1>3, <1>4, <1>5, <1>6, <1>7, <1>8, <1>9, <1>10, ApplyTells
    DEF Next, Step

\* What a handler works on is not too shallow.
DeepEnough == \A h \in Handlers : pc[h] # "idle" => ev[h] \notin Early

\* A handler at work goes on with its event, or is done with it.
LEMMA StepShape ==
  ASSUME WebhooksInv, NEW h \in Handlers,
         \/ Step(h) \/ Expire(h) \/ AcquireTimeout(h) \/ InnerRollback(h)
         \/ OuterRollback(h)
  PROVE  /\ \A g \in Handlers \ {h} : pc'[g] = pc[g] /\ ev'[g] = ev[g]
         /\ pc'[h] = "idle" \/ (pc[h] # "idle" /\ ev'[h] = ev[h])
  <1>1. Types /\ OuterStages
    BY DEF WebhooksInv
  <1> DEFINE Shape ==
         /\ \A g \in Handlers \ {h} : pc'[g] = pc[g] /\ ev'[g] = ev[g]
         /\ pc'[h] = "idle" \/ (pc[h] # "idle" /\ ev'[h] = ev[h])
  <1>2. CASE Answer200(h) \/ Answer500(h)
    BY <1>1, <1>2 DEF Answer200, Answer500, Finish, Goto, Types
  <1>3. ASSUME pc[h] # "idle", UNCHANGED ev,
               pc' = pc \/ \E l : pc' = [pc EXCEPT ![h] = l]
        PROVE  Shape
    BY <1>1, <1>3 DEF Types
  <1>4. ASSUME pc[h] # "idle", InnerError(h) \/ Proceed(h)
        PROVE  Shape
    BY <1>2, <1>3, <1>4 DEF InnerError, Proceed, Goto
  <1>5. CASE OpenOuter(h) \/ InsertDedup(h) \/ ApplyEvent(h) \/ WriteDispute(h)
    BY <1>2, <1>3, <1>5 DEF OpenOuter, InsertDedup, ApplyEvent, WriteDispute, Goto
  <1>6. CASE \/ FindRow(h) \/ CreateRow(h) \/ InnerLookup(h) \/ InnerCommit(h)
             \/ CommitOuter(h)
    BY <1>2, <1>3, <1>4, <1>6
    DEF FindRow, CreateRow, InnerLookup, InnerCommit, CommitOuter, Goto
  <1>7. CASE \/ ExpiredFails(h) \/ Expire(h) \/ AcquireTimeout(h)
             \/ InnerRollback(h) \/ OuterRollback(h)
    BY <1>1, <1>2, <1>3, <1>4, <1>7
    DEF ExpiredFails, Expire, AcquireTimeout, InnerRollback, OuterRollback,
        OuterStages
  <1>. QED
    BY <1>5, <1>6, <1>7 DEF Step

LEMMA DeepStep ==
  ASSUME WebhooksInv, DeepEnough, [Next]_vars
  PROVE  DeepEnough'
  <1>1. Types
    BY DEF WebhooksInv
  <1>2. CASE UNCHANGED <<ev, pc>>
    BY <1>2 DEF DeepEnough
  <1>3. CASE Crash
    BY <1>3 DEF Crash, DeepEnough
  <1>4. ASSUME NEW h \in Handlers, NEW e \in Events, Receive(h, e)
        PROVE  DeepEnough'
    BY <1>1, <1>2, <1>4 DEF Receive, Goto, Early, Types, DeepEnough
  <1>5. ASSUME NEW h \in Handlers,
               \A g \in Handlers \ {h} : pc'[g] = pc[g] /\ ev'[g] = ev[g],
               pc'[h] = "idle" \/ (pc[h] # "idle" /\ ev'[h] = ev[h])
        PROVE  DeepEnough'
    BY <1>5 DEF DeepEnough
  <1>6. ASSUME NEW h \in Handlers,
               \/ Step(h) \/ Expire(h) \/ AcquireTimeout(h) \/ InnerRollback(h)
               \/ OuterRollback(h)
        PROVE  DeepEnough'
    <2>1. /\ \A g \in Handlers \ {h} : pc'[g] = pc[g] /\ ev'[g] = ev[g]
          /\ pc'[h] = "idle" \/ (pc[h] # "idle" /\ ev'[h] = ev[h])
      BY <1>1, <1>6, StepShape
    <2>. QED
      BY <1>5, <2>1
  <1>7. CASE OthersCreate
    BY <1>2, <1>7 DEF OthersCreate
  <1>. QED
    BY <1>2, <1>3, <1>4, <1>6, <1>7 DEF Next, vars

\* What changes no row and answers nothing is no step of the inbox.
LEMMA SilentInbox ==
  ASSUME UNCHANGED <<db, acked>>
  PROVE  UNCHANGED Promise!vars
  BY DEF db, MovedKeys, Promise!vars

\* An answer with 200 to what is settled.
LEMMA AnswerInbox ==
  ASSUME NEW e \in Events, Settled(e),
         UNCHANGED db, acked' = acked \cup {e}
  PROVE  [Promise!Next]_(Promise!vars)
  <1>1. \/ e.id \in processed
        \/ e \in Claiming /\ reversals[e.txn] > 0
        \/ e \in Early
    BY DEF Settled, Claiming, Early
  <1>2. MovedKeys' = MovedKeys /\ UNCHANGED <<processed, effects, reversals, credits, rows>>
    BY DEF db, MovedKeys
  <1>3. Promise!Answer(e)
    BY <1>1, <1>2 DEF Promise!Answer
  <1>. QED
    BY <1>3 DEF Promise!Next

\* The commit of the credits transaction, where a key moves credits once: the
\* handler has its dedup id, and nothing has moved under its key.
LEMMA NotMovedYet ==
  ASSUME WebhooksInv, OnceInv, NEW h \in Handlers, pc[h] = "credit"
  PROVE  CreditKey(ev[h]) \notin MovedKeys /\ ev[h].id \notin processed
  <1>1. IdsHeld /\ InsideOuter /\ Unmoved
    BY DEF WebhooksInv, OnceInv
  <1>2. CreditKey(ev[h]) \notin MovedKeys
    BY <1>1 DEF Unmoved, MovedKeys
  <1>3. HoldsId(h, ev[h].id)
    BY <1>1 DEF InsideOuter, HoldsId
  <1>. QED
    BY <1>1, <1>2, <1>3 DEF IdsHeld

LEMMA MoveInbox ==
  ASSUME WebhooksInv, MoneyInv, TellInv, DeepEnough, KeysOnce => OnceInv,
         NEW h \in Handlers, pc[h] = "credit",
         Grants(ev[h]) \/ credits >= ev[h].amount,
         credits' = IF Grants(ev[h]) THEN credits + ev[h].amount
                    ELSE credits - ev[h].amount,
         creditRows' = [creditRows EXCEPT ![CreditKey(ev[h])] = @ + 1],
         UNCHANGED <<processed, effects, reversals, rows, acked>>
  PROVE  [Promise!Next]_(Promise!vars)
  <1> DEFINE e == ev[h]
             k == CreditKey(e)
  <1>1. /\ e \in Events /\ Moves(e) /\ e.amount > 0 /\ e.amount \in Int
        /\ k \in CreditKeys
    BY KeyFields DEF WebhooksInv, Types, TellInv
  <1>2. credits \in Nat /\ creditRows \in [CreditKeys -> Nat]
    BY DEF MoneyInv, MoneyTypes
  <1>3. Moved(e) # 0 /\ credits + Moved(e) >= 0 /\ credits' = credits + Moved(e)
    <2>1. CASE Grants(e)
      BY <1>1, <1>2, <2>1 DEF Moved
    <2>2. CASE ~ Grants(e)
      BY <1>1, <1>2, <2>2 DEF Moved, Moves
    <2>. QED
      BY <2>1, <2>2
  <1>4. MovedKeys' = MovedKeys \cup {k}
    BY <1>1, <1>2 DEF MovedKeys
  <1>5. KeysOnce => k \notin MovedKeys /\ e.id \notin processed
    BY NotMovedYet
  <1>6. Promise!Move(e)
    BY <1>1, <1>3, <1>4, <1>5 DEF Promise!Move, DeepEnough
  <1>. QED
    BY <1>1, <1>6 DEF Promise!Next

\* The outer COMMIT: the dedup row, what goes with it, and the answer unless it
\* is lost.
LEMMA HandleInbox ==
  ASSUME WebhooksInv, MoneyInv, TellInv, DeepEnough, NEW h \in Handlers, CommitOuter(h)
  PROVE  [Promise!Next]_(Promise!vars)
  <1> DEFINE e == ev[h]
             k == CreditKey(e)
             reverses == e \in Claiming /\ reversals[e.txn] = 0
  <1>1. /\ Types /\ IdsHeld /\ DisputesHeld /\ Granted
        /\ creditRows \in [CreditKeys -> Nat]
    BY DEF WebhooksInv, MoneyInv, MoneyTypes
  <1>2. pc[h] = "settle" /\ outer[h] = "open" /\ e \in Events
    BY <1>1 DEF CommitOuter, Types
  <1>3. e.id \in Ids /\ e.txn \in Txns /\ k \in CreditKeys
    BY <1>2, EventFields, KeyFields
  <1>4. e.id \notin processed
    BY <1>1, <1>2 DEF IdsHeld, HoldsId
  <1>5. e \in Granting => k \in MovedKeys
    BY <1>1, <1>2, <1>3 DEF Granting, Granted, MovedKeys
  <1>6. Told(e, writes[h], reversals[e.txn])
    BY <1>2 DEF TellInv, Late
  <1>7. e \in Claiming <=> e.type = "chargeback.received"
    BY <1>2 DEF Claiming
  <1>8. e.type = "chargeback.received" => (writes[h] <=> reversals[e.txn] = 0)
    <2>1. ASSUME e.type = "chargeback.received", writes[h]
          PROVE  reversals[e.txn] = 0
      BY <1>1, <1>2, <2>1 DEF DisputesHeld, HoldsDispute
    <2>2. ASSUME e.type = "chargeback.received", ~ writes[h]
          PROVE  reversals[e.txn] # 0
      BY <1>6, <2>2 DEF Told
    <2>. QED
      BY <2>1, <2>2
  <1>9. writes[h] /\ e.type = "chargeback.received" <=> reverses
    BY <1>7, <1>8
  <1>10. writes[h] <=> reverses \/ e \in Writing
    <2>1. CASE e.type = "chargeback.received"
      BY <1>7, <1>8, <2>1 DEF Writing, Grants
    <2>2. CASE e.type # "chargeback.received"
      BY <1>6, <1>7, <2>2 DEF Told
    <2>. QED
      BY <2>1, <2>2
  <1>11. /\ processed' = processed \cup {e.id}
         /\ effects' = IF reverses \/ e \in Writing
                       THEN [effects EXCEPT ![e.id] = @ + 1] ELSE effects
         /\ reversals' = IF reverses THEN [reversals EXCEPT ![e.txn] = @ + 1]
                         ELSE reversals
         /\ rows' = IF reverses \/ e \in Writing THEN rows \cup RowsOf(e)
                    ELSE rows
         /\ UNCHANGED <<credits, creditRows>>
         /\ acked' \in {acked, acked \cup {e}}
    BY <1>9, <1>10 DEF CommitOuter, Answer200, Answer500
  <1>12. MovedKeys' = MovedKeys
    BY <1>11 DEF MovedKeys
  <1>13. Promise!Handle(e)
    BY <1>2, <1>4, <1>5, <1>11, <1>12 DEF Promise!Handle, DeepEnough
  <1>. QED
    BY <1>2, <1>13 DEF Promise!Next

\* An answer with 200 to what was lost to a row; the handler holds the dedup
\* id.
LEMMA LoseInbox ==
  ASSUME WebhooksInv, MoneyInv, NEW h \in Handlers, CreateRow(h),
         ~ UNCHANGED acked, Beaten(h, ev[h])
  PROVE  [Promise!Next]_(Promise!vars)
  <1> DEFINE e == ev[h]
  <1>1. /\ Types /\ IdsHeld /\ creditRows \in [CreditKeys -> Nat]
    BY DEF WebhooksInv, MoneyInv, MoneyTypes
  <1>2. /\ pc[h] = "create" /\ outer[h] = "open" /\ e \in Events
        /\ RowsOf(e) \subseteq rows /\ acked' = acked \cup {e} /\ UNCHANGED db
    BY <1>1 DEF CreateRow, Proceed, Answer500, Answer200, Types
  <1>3. e.id \notin processed
    BY <1>1, <1>2 DEF IdsHeld, HoldsId
  <1>4. e \in Granting => CreditKey(e) \in MovedKeys
    BY <1>1, <1>2, KeyFields DEF Granting, Beaten, MovedKeys
  <1>5. RowsOf(e) # {}
    BY <1>2 DEF MoneyInv, Moving
  <1>6. MovedKeys' = MovedKeys /\ UNCHANGED <<processed, effects, reversals, credits, rows>>
    BY <1>2 DEF db, MovedKeys
  <1>7. Promise!Lose(e)
    BY <1>2, <1>3, <1>4, <1>5, <1>6 DEF Promise!Lose
  <1>. QED
    BY <1>2, <1>7 DEF Promise!Next

\* A delivery answered before its transaction, or by a unique key.
LEMMA EarlyInbox ==
  ASSUME WebhooksInv, MoneyInv, NEW h \in Handlers,
         \/ \E e \in Events : Receive(h, e)
         \/ InsertDedup(h) \/ WriteDispute(h) \/ CreateRow(h)
  PROVE  [Promise!Next]_(Promise!vars)
  <1>1. UNCHANGED db
    BY DEF Receive, InsertDedup, WriteDispute, CreateRow
  <1>2. CASE UNCHANGED acked
    BY <1>1, <1>2, SilentInbox
  <1>3. CASE ~ UNCHANGED acked
    <2>1. PICK e \in Events :
            /\ acked' = acked \cup {e}
            /\ e = ev[h] \/ \E f \in Events : Receive(h, f)
      BY <1>3
      DEF Receive, InsertDedup, WriteDispute, CreateRow, Proceed, Answer200,
          Answer500, WebhooksInv, Types
    <2>2. e \in acked' /\ e \notin acked
      BY <1>3, <2>1
    <2>3. CASE Settled(e)
      BY <1>1, <2>1, <2>3, AnswerInbox
    <2>4. CASE Beaten(h, e)
      BY <1>3, <2>1, <2>4, LoseInbox
      DEF Beaten, Receive, InsertDedup, WriteDispute
    <2>. QED
      BY <2>2, <2>3, <2>4, TellsOf
  <1>. QED
    BY <1>2, <1>3

LEMMA InnerInbox ==
  ASSUME WebhooksInv, MoneyInv, TellInv, DeepEnough, KeysOnce => OnceInv,
         NEW h \in Handlers, InnerLookup(h) \/ InnerCommit(h) \/ InnerRollback(h)
  PROVE  [Promise!Next]_(Promise!vars)
  <1>1. CASE UNCHANGED <<db, acked>>
    BY <1>1, SilentInbox
  <1>2. InnerError(h) => UNCHANGED acked
    BY DEF InnerError, Answer500
  <1>3. CASE InnerLookup(h) \/ InnerRollback(h)
    BY <1>1, <1>2, <1>3 DEF InnerLookup, InnerRollback
  <1>4. CASE InnerCommit(h)
    <2>1. CASE InnerError(h) /\ UNCHANGED <<credits, creditRows>>
      BY <1>1, <1>2, <1>4, <2>1 DEF InnerCommit, db
    <2>2. CASE /\ Grants(ev[h]) \/ credits >= ev[h].amount
               /\ credits' = IF Grants(ev[h]) THEN credits + ev[h].amount
                             ELSE credits - ev[h].amount
               /\ creditRows' = [creditRows EXCEPT ![CreditKey(ev[h])] = @ + 1]
               /\ UNCHANGED acked
      BY <1>4, <2>2, MoveInbox DEF InnerCommit
    <2>. QED
      BY <1>4, <2>1, <2>2 DEF InnerCommit
  <1>. QED
    BY <1>3, <1>4

LEMMA InboxStep ==
  ASSUME WebhooksInv, MoneyInv, TellInv, DeepEnough, KeysOnce => OnceInv,
         [Next]_vars
  PROVE  [Promise!Next]_(Promise!vars)
  <1>1. CASE UNCHANGED <<db, acked>>
    BY <1>1, SilentInbox
  <1>2. CASE UNCHANGED vars \/ Crash
    BY <1>1, <1>2 DEF vars, db, Crash
  <1>3. ASSUME NEW h \in Handlers,
               \/ OpenOuter(h) \/ ApplyEvent(h) \/ FindRow(h) \/ ExpiredFails(h)
               \/ Expire(h) \/ AcquireTimeout(h) \/ OuterRollback(h)
        PROVE  UNCHANGED <<db, acked>>
    <2>1. UNCHANGED db
      BY <1>3 DEF OpenOuter, ApplyEvent, FindRow, ExpiredFails, Expire,
                  AcquireTimeout, OuterRollback
    <2>2. Answer500(h) \/ InnerError(h) \/ Proceed(h) => UNCHANGED acked
      BY DEF Answer500, InnerError, Proceed
    <2>3. UNCHANGED acked
      BY <1>3, <2>2 DEF OpenOuter, ApplyEvent, FindRow, ExpiredFails, Expire,
                        AcquireTimeout, OuterRollback
    <2>. QED
      BY <2>1, <2>3
  <1>4. ASSUME NEW h \in Handlers,
               \/ \E e \in Events : Receive(h, e)
               \/ InsertDedup(h) \/ WriteDispute(h) \/ CreateRow(h)
        PROVE  [Promise!Next]_(Promise!vars)
    BY <1>4, EarlyInbox
  <1>5. ASSUME NEW h \in Handlers,
               InnerLookup(h) \/ InnerCommit(h) \/ InnerRollback(h)
        PROVE  [Promise!Next]_(Promise!vars)
    BY <1>5, InnerInbox
  <1>6. ASSUME NEW h \in Handlers, CommitOuter(h)
        PROVE  [Promise!Next]_(Promise!vars)
    BY <1>6, HandleInbox
  <1>7. CASE OthersCreate
    <2>1. Promise!Appear
      BY <1>7 DEF OthersCreate, Promise!Appear, MovedKeys
    <2>. QED
      BY <2>1 DEF Promise!Next
  <1>. QED
    BY <1>1, <1>2, <1>3, <1>4, <1>5, <1>6, <1>7 DEF Next, Step

\* handleWebhook and handleConfirmation implement the inbox: an event is
\* handled in one step and once per dedup id, with what it grants moved before;
\* where outer transactions do not expire and a key is told under one id, its
\* credits move once and ahead of the dedup row; and only what is settled is
\* answered, or what was lost to a row that somebody else made.
THEOREM WebhooksImplementInbox == Spec => ImplementsInbox
  <1>1. Init => Promise!Init
    BY DEF Init, Promise!Init, MovedKeys
  <1>2. Init => TellInv /\ OnceInv /\ DeepEnough
    BY DEF Init, TellInv, DeepEnough, Late, OnceInv, InsideOuter, Unmoved, CreditsAtMostOnce
  <1>3. WebhooksInv /\ MoneyInv /\ TellInv /\ [Next]_vars => TellInv'
    BY TellStep
  <1>4. WebhooksInv /\ MoneyInv /\ (KeysOnce => OnceInv) /\ [Next]_vars
          => (KeysOnce => OnceInv)'
    BY OnceStep DEF KeysOnce
  <1>5. WebhooksInv /\ MoneyInv /\ TellInv /\ DeepEnough /\ (KeysOnce => OnceInv)
          /\ [Next]_vars => [Promise!Next]_(Promise!vars)
    BY InboxStep
  <1>6. WebhooksInv /\ DeepEnough /\ [Next]_vars => DeepEnough'
    BY DeepStep
  <1>. QED
    BY <1>1, <1>2, <1>3, <1>4, <1>5, <1>6, WebhooksInvariant, MoneyInvariant, PTL
    DEF Spec, ImplementsInbox, Promise!Spec
=============================================================================
