--------------------------- MODULE Subscriptions ---------------------------
(***************************************************************************)
(* SubscriptionsService (apps/api/src/billing/subscriptions.service.ts):    *)
(* the subscription of one user, written by gateway events and by the       *)
(* user's own calls.                                                        *)
(*                                                                          *)
(* A webhook inserts its dedup row and writes the subscription in one       *)
(* transaction; the rows it updated stay locked and unseen until it         *)
(* commits.  A user's call reads the subscription, checks what it read and  *)
(* updates the row by its user in a statement of its own.  Events come at   *)
(* least once and in any order, and nothing in them is compared with what   *)
(* came before.  Nothing in the code runs when a period is over (so the     *)
(* passing of time changes nothing), and nothing tells a gateway that its   *)
(* subscription was cancelled.                                              *)
(***************************************************************************)
EXTENDS Integers, FiniteSets

CONSTANTS
  Handlers,   \* requests being handled at the same time
  Events,     \* what the gateways deliver about the user: see Event
  NoEvent,    \* there is no gateway_subscriptions row; an idle handler's event
  NoRow       \* there is no subscriptions row; nothing written yet

Plan == {"BASIC", "STANDARD", "PREMIUM"}

\* "activate": subscription.created, subscription.renewed, a confirmation with
\* a plan; "cancel": subscription.canceled, charge.failed.
Event ==
  [id : STRING, kind : {"activate", "cancel"}, plan : Plan]

ASSUME EventsAssumption == Events \subseteq Event

VARIABLES
  sub,        \* the committed subscriptions row
  source,     \* the event whose ids the gateway_subscriptions row holds
  processed,  \* events with a committed dedup row
  ev,         \* the event each handler works on
  pc,         \* where each handler is
  draft       \* the row its open transaction has written

db == <<sub, source, processed>>
vars == <<sub, source, processed, ev, pc, draft>>

Row ==
  [plan : Plan, status : {"ACTIVE", "CANCELED"}, cancelAtPeriodEnd : BOOLEAN]

Active(plan) ==
  [plan |-> plan, status |-> "ACTIVE", cancelAtPeriodEnd |-> FALSE]

Canceled ==
  [plan |-> "BASIC", status |-> "CANCELED", cancelAtPeriodEnd |-> FALSE]

ASSUME NoRowAssumption == NoRow \notin Row

\* In a transaction with the event's dedup row inserted.
InTransaction == {"upsert", "gateway", "read", "cancel", "commit"}

HoldsId(h, e) == pc[h] \in InTransaction /\ ev[h] = e

\* No open transaction has written the subscriptions row.
RowFree == \A h \in Handlers : draft[h] = NoRow

Init ==
  /\ sub = NoRow
  /\ source = NoEvent
  /\ processed = {}
  /\ ev = [h \in Handlers |-> NoEvent]
  /\ pc = [h \in Handlers |-> "idle"]
  /\ draft = [h \in Handlers |-> NoRow]
-----------------------------------------------------------------------------
(* Gateway events. *)

Goto(h, l) == pc' = [pc EXCEPT ![h] = l]

Answer(h) ==
  /\ Goto(h, "idle")
  /\ ev' = [ev EXCEPT ![h] = NoEvent]
  /\ draft' = [draft EXCEPT ![h] = NoRow]

\* A delivery that the fast path does not answer.
Deliver(h, e) ==
  /\ pc[h] = "idle"
  /\ e \notin processed
  /\ Goto(h, "insert")
  /\ ev' = [ev EXCEPT ![h] = e]
  /\ UNCHANGED <<db, draft>>

\* Bug: the dedup id is not unique.
InsertDedupAnyway(h) ==
  /\ pc[h] = "insert"
  /\ Goto(h, IF ev[h].kind = "activate" THEN "upsert" ELSE "read")
  /\ UNCHANGED <<db, ev, draft>>

\* processedWebhook.create, then applyEvent's switch.
InsertDedup(h) ==
  /\ pc[h] = "insert"
  /\ ~ \E g \in Handlers \ {h} : HoldsId(g, ev[h])
  /\ IF ev[h] \in processed
     THEN Answer(h)
     ELSE /\ Goto(h, IF ev[h].kind = "activate" THEN "upsert" ELSE "read")
          /\ UNCHANGED <<ev, draft>>
  /\ UNCHANGED db

\* Bug: the service's own client is used for the transaction's.
UpsertSubscriptionOutside(h) ==
  /\ pc[h] = "upsert"
  /\ RowFree
  /\ sub' = Active(ev[h].plan)
  /\ draft' = [draft EXCEPT ![h] = Active(ev[h].plan)]
  /\ Goto(h, "gateway")
  /\ UNCHANGED <<source, processed, ev>>

\* createOrUpdateFromGateway, subscription.upsert: every field is written,
\* whatever the row held.
UpsertSubscription(h) ==
  /\ pc[h] = "upsert"
  /\ RowFree
  /\ draft' = [draft EXCEPT ![h] = Active(ev[h].plan)]
  /\ Goto(h, "gateway")
  /\ UNCHANGED <<db, ev>>

\* gatewaySubscription.upsert, of a row that the first upsert's lock guards.
UpsertGatewaySubscription(h) ==
  /\ pc[h] = "gateway"
  /\ Goto(h, "commit")
  /\ UNCHANGED <<db, ev, draft>>

\* cancelImmediately: without a row there is nothing to cancel.
ReadForCancel(h) ==
  /\ pc[h] = "read"
  /\ Goto(h, IF sub = NoRow THEN "commit" ELSE "cancel")
  /\ UNCHANGED <<db, ev, draft>>

\* The update of a row that a reset has removed fails, and the event with it.
UpdateCanceled(h) ==
  /\ pc[h] = "cancel"
  /\ RowFree
  /\ IF sub = NoRow
     THEN Answer(h)
     ELSE /\ draft' = [draft EXCEPT ![h] = Canceled]
          /\ Goto(h, "commit")
          /\ UNCHANGED ev
  /\ UNCHANGED db

\* The dedup row and what the event wrote, together.
Commit(h) ==
  /\ pc[h] = "commit"
  /\ processed' = processed \cup {ev[h]}
  /\ sub' = IF draft[h] = NoRow THEN sub ELSE draft[h]
  /\ source' = IF ev[h].kind = "activate" THEN ev[h] ELSE source
  /\ Answer(h)

\* An error, a timeout or a crash; the gateway delivers again.
Rollback(h) ==
  /\ pc[h] \in {"insert"} \cup InTransaction
  /\ Answer(h)
  /\ UNCHANGED db
-----------------------------------------------------------------------------
(* The user's calls: a read with its checks, and later an update. *)

ReadForUser(h, l) ==
  /\ pc[h] = "idle"
  /\ sub # NoRow
  /\ Goto(h, l)
  /\ UNCHANGED <<db, ev, draft>>

CancelAtPeriodEnd(h) == ReadForUser(h, "pend") /\ sub.status # "CANCELED"

Reactivate(h) ==
  ReadForUser(h, "unpend") /\ sub.cancelAtPeriodEnd /\ sub.status = "ACTIVE"

CancelImmediately(h) == ReadForUser(h, "drop")

\* Bug: the cancellation is stored in the status.
UpdateForUserStatus(h) ==
  /\ pc[h] \in {"pend", "unpend", "drop"}
  /\ RowFree
  /\ sub' = IF sub = NoRow THEN NoRow
            ELSE IF pc[h] = "pend" THEN [sub EXCEPT !.status = "CANCELING"]
            ELSE IF pc[h] = "drop" THEN Canceled
            ELSE [sub EXCEPT !.cancelAtPeriodEnd = FALSE]
  /\ Answer(h)
  /\ UNCHANGED <<source, processed>>

\* Each update names its own fields, and no condition but the user; without
\* a row it fails.
UpdateForUser(h) ==
  /\ pc[h] \in {"pend", "unpend", "drop"}
  /\ RowFree
  /\ sub' = IF sub = NoRow THEN NoRow
            ELSE IF pc[h] = "drop" THEN Canceled
            ELSE [sub EXCEPT !.cancelAtPeriodEnd = (pc[h] = "pend")]
  /\ Answer(h)
  /\ UNCHANGED <<source, processed>>

\* resetUser: deletes the subscription and its gateway row, once no open
\* transaction holds it, and keeps the dedup rows.
ResetUser ==
  /\ sub # NoRow /\ RowFree
  /\ sub' = NoRow
  /\ source' = NoEvent
  /\ UNCHANGED <<processed, ev, pc, draft>>

Step(h) ==
  InsertDedup(h) \/ UpsertSubscription(h) \/ UpsertGatewaySubscription(h)
    \/ ReadForCancel(h) \/ UpdateCanceled(h) \/ Commit(h) \/ UpdateForUser(h)

Next ==
  \/ \E h \in Handlers :
       \/ \E e \in Events : Deliver(h, e)
       \/ CancelAtPeriodEnd(h) \/ Reactivate(h) \/ CancelImmediately(h)
       \/ Step(h) \/ Rollback(h)
  \/ ResetUser

Spec == Init /\ [][Next]_vars
-----------------------------------------------------------------------------
TypeOK ==
  /\ sub \in Row \cup {NoRow}
  /\ source \in Events \cup {NoEvent}
  /\ processed \in SUBSET Events
  /\ ev \in [Handlers -> Events \cup {NoEvent}]
  /\ pc \in [Handlers -> {"idle", "insert", "pend", "unpend", "drop"}
                           \cup InTransaction]
  /\ draft \in [Handlers -> Row \cup {NoRow}]

\* The plan a user has is the one the gateway row says was paid for, by an
\* event that was processed, or BASIC after a cancellation: two events that
\* overlap never leave the subscription of one and the gateway ids of the
\* other.
PlanIsPaidFor ==
  IF sub = NoRow THEN source = NoEvent
  ELSE /\ source \in processed
       /\ sub.plan = IF sub.status = "ACTIVE" THEN source.plan ELSE "BASIC"

\* Access that was taken away comes back through a payment that had not been
\* processed before: no replay of an old event, and no reactivation that
\* overlaps a cancellation or a reset, restores it.
OnlyNewPaymentsActivate ==
  [][ (sub = NoRow \/ sub.status = "CANCELED")
        /\ sub' # NoRow /\ sub'.status = "ACTIVE"
      => \E e \in processed' \ processed : e.kind = "activate" ]_vars
=============================================================================
