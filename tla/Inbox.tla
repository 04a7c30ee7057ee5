------------------------------- MODULE Inbox -------------------------------
(***************************************************************************)
(* What the webhook routes promise, with no handlers and no transactions in *)
(* it: an inbox in which an event is handled in one step, once per dedup    *)
(* id.  The credits that go with it move ahead of that step, as they commit *)
(* apart: those it grants always, those it takes if there are enough of     *)
(* them.  An event may be lost: answered, and never handled, where somebody *)
(* else has made a row that it was to make.  Webhooks.tla implements it.    *)
(***************************************************************************)
EXTENDS Integers

CONSTANTS
  Events,
  Ids, Txns,
  Id,         \* the dedup id of each event
  Txn,        \* the charge it is about
  Key,        \* the idempotency key of its credits
  Delta,      \* the credits it grants, or takes; 0 for none
  Granting,   \* events that are handled only with their credits
  Claiming,   \* chargebacks, which reverse a charge unless one has
  Writing,    \* other events with writes of their own
  Early,      \* events that are only ever answered
  Makes,      \* the rows each event makes if they are missing
  Shared,     \* rows that others make too
  Once,       \* TRUE: credits move once per key, and before their event is done
  Opening     \* the user's credits before the first event

VARIABLES
  done,       \* ids of handled events
  effects,    \* how often the writes of each id have happened
  reversals,  \* how often each charge was reversed
  bal,        \* the user's credits
  moved,      \* keys whose credits have moved
  rows,       \* rows that are there
  answered    \* events that were answered with success

vars == <<done, effects, reversals, bal, moved, rows, answered>>

Init ==
  /\ done = {}
  /\ effects = [i \in Ids |-> 0]
  /\ reversals = [t \in Txns |-> 0]
  /\ bal = Opening
  /\ moved = {}
  /\ rows = {}
  /\ answered = {}

Move(e) ==
  /\ e \notin Early
  /\ Delta[e] # 0 /\ bal + Delta[e] >= 0
  /\ Once => Key[e] \notin moved /\ Id[e] \notin done
  /\ bal' = bal + Delta[e]
  /\ moved' = moved \cup {Key[e]}
  /\ UNCHANGED <<done, effects, reversals, rows, answered>>

\* Everything that goes with the dedup row; the answer may be lost.
Handle(e) ==
  LET reverses == e \in Claiming /\ reversals[Txn[e]] = 0
      acts == reverses \/ e \in Writing
  IN
  /\ e \notin Early /\ Id[e] \notin done
  /\ e \in Granting => Key[e] \in moved
  /\ done' = done \cup {Id[e]}
  /\ reversals' = IF reverses THEN [reversals EXCEPT ![Txn[e]] = @ + 1]
                  ELSE reversals
  /\ effects' = IF acts THEN [effects EXCEPT ![Id[e]] = @ + 1] ELSE effects
  /\ rows' = IF acts THEN rows \cup Makes[e] ELSE rows
  /\ answered' \in {answered, answered \cup {e}}
  /\ UNCHANGED <<bal, moved>>

\* An answer to what is settled: handled, or a chargeback that another event
\* has told of, or nothing to be handled yet.
Answer(e) ==
  /\ \/ Id[e] \in done
     \/ e \in Claiming /\ reversals[Txn[e]] > 0
     \/ e \in Early
  /\ answered' = answered \cup {e}
  /\ UNCHANGED <<done, effects, reversals, bal, moved, rows>>

\* An answer to what nothing but its credits has come of, nor will.
Lose(e) ==
  /\ Id[e] \notin done
  /\ Makes[e] # {} /\ Makes[e] \subseteq rows
  /\ e \in Granting => Key[e] \in moved
  /\ answered' = answered \cup {e}
  /\ UNCHANGED <<done, effects, reversals, bal, moved, rows>>

\* Others make rows of their own accord.
Appear ==
  /\ rows' \in {rows \cup {r} : r \in Shared}
  /\ UNCHANGED <<done, effects, reversals, bal, moved, answered>>

Next ==
  \/ \E e \in Events : Move(e) \/ Handle(e) \/ Answer(e) \/ Lose(e)
  \/ Appear

Spec == Init /\ [][Next]_vars
=============================================================================
