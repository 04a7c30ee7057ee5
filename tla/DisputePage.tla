---------------------------- MODULE DisputePage ----------------------------
(***************************************************************************)
(* The admin's page of one dispute (apps/web/src/app/admin/disputes/[id])   *)
(* over the DisputesService of Disputes.                                    *)
(*                                                                          *)
(* The page acts once at a time: a click disables every button until its    *)
(* POST has been answered and the dispute loaded again.  Whether the        *)
(* service then sees one call at a time depends on the admin, who may open  *)
(* the page anew while the server still works, and on the network.  On the  *)
(* disputes of Apart neither happens: the admin waits for the answer and    *)
(* the connection holds until it is there.                                  *)
(***************************************************************************)
EXTENDS Disputes

CONSTANT MaxLosses  \* bound on requests and answers of the page that are lost

ASSUME MaxLossesAssumption == MaxLosses \in Nat

VARIABLES
  on,      \* the dispute of the page, its id in the URL
  shown,   \* the status on the page; "none" without a dispute
  failed,  \* an error is shown
  step,    \* what the page waits for
  ask,     \* what its POST asks for
  by,      \* the handler that works on it
  seen,    \* the status it was answered
  losses

page == <<on, shown, failed, step, ask, by, seen, losses>>
allVars == <<vars, page>>

\* The admin and the network wait for the answer.
Patient == on \in Apart

Steps == {"none", "post", "work", "ok", "get", "got"}

PageInit ==
  /\ Init
  /\ on \in Disputes
  /\ shown = "none"
  /\ failed = FALSE
  /\ step = "get"
  /\ ask = "none"
  /\ by = {}
  /\ seen = "none"
  /\ losses = 0
-----------------------------------------------------------------------------
\* Bug: the buttons stay enabled.
ClickableAlways == shown \in Open

\* The page has buttons: it is not loading, acting or without a dispute, and
\* the dispute it shows is not resolved.
Clickable == step = "none" /\ shown \in Open

\* submitEvidence, setOutcome up to the POST.
Click(what) ==
  /\ Clickable
  /\ step' = "post"
  /\ ask' = what
  /\ failed' = FALSE
  /\ UNCHANGED <<vars, on, shown, by, seen, losses>>

\* The catch and finally blocks of a click.
Refused ==
  /\ step' = "none"
  /\ failed' = TRUE
  /\ by' = {}

\* The POST reaches a handler; an outcome of a decided dispute is a 400.
Reach(h) ==
  /\ step = "post" /\ pc[h] = "idle"
  /\ \/ /\ \/ ask = "evidence" /\ ReadForEvidence(h, on)
           \/ ask \in Outcomes /\ SetOutcome(h, on, ask)
        /\ step' = "work"
        /\ by' = {h}
        /\ UNCHANGED failed
     \/ /\ ask \in Outcomes /\ status[on] \notin Open
        /\ Refused
        /\ UNCHANGED vars
  /\ ask' = "none"
  /\ UNCHANGED <<on, shown, seen, losses>>

\* What the page learns when h's call ends, and how it was answered.
Hears(h, good) ==
  /\ IF h \in by /\ pc'[h] = "idle"
     THEN IF good THEN step' = "ok" /\ by' = {} /\ UNCHANGED failed ELSE Refused
     ELSE UNCHANGED <<step, by, failed>>
  /\ UNCHANGED <<on, shown, ask, seen, losses>>

\* The server goes on.  A lost race for the ledger key and an expired
\* transaction end in an error.
Serve(h) == Step(h) /\ Hears(h, pc[h] \notin {"insert", "update"})

ServerFails ==
  \/ \E h \in Handlers :
       (CreditsFail(h) \/ Expire(h) \/ Fail(h)) /\ Hears(h, FALSE)
  \/ /\ Crash
     /\ IF step = "work" THEN Refused ELSE UNCHANGED <<step, by, failed>>
     /\ UNCHANGED <<on, shown, ask, seen, losses>>

\* load up to its GET.
Answered ==
  /\ step = "ok"
  /\ step' = "get"
  /\ failed' = FALSE
  /\ UNCHANGED <<vars, on, shown, ask, by, seen, losses>>

Lose == losses < MaxLosses /\ losses' = losses + 1

\* The POST or its answer is lost, perhaps while the server works on it.
LoseCall ==
  /\ step \in {"post", "ok"} \/ (step = "work" /\ ~ Patient)
  /\ Lose
  /\ Refused
  /\ ask' = "none"
  /\ UNCHANGED <<vars, on, shown, seen>>

ReadStatus ==
  /\ step = "get"
  /\ step' = "got"
  /\ seen' = status[on]
  /\ UNCHANGED <<vars, on, shown, failed, ask, by, losses>>

Loaded ==
  /\ step = "got"
  /\ step' = "none"
  /\ shown' = seen
  /\ UNCHANGED <<vars, on, failed, ask, by, seen, losses>>

\* The status on the page stays; a page that had none has none.
LoadFails ==
  /\ step \in {"get", "got"}
  /\ Lose
  /\ step' = "none"
  /\ failed' = TRUE
  /\ UNCHANGED <<vars, on, shown, ask, by, seen>>

\* Bug: the old click is still waited for.
ReopenStillWaiting ==
  /\ step = "none" \/ (step = "work" /\ ~ Patient)
  /\ shown' = "none"
  /\ failed' = FALSE
  /\ step' = "get"
  /\ UNCHANGED <<vars, on, ask, by, seen, losses>>

\* The admin opens the page again.
Reopen ==
  /\ step = "none" \/ (step = "work" /\ ~ Patient)
  /\ shown' = "none"
  /\ failed' = FALSE
  /\ step' = "get"
  /\ by' = {}
  /\ UNCHANGED <<vars, on, ask, seen, losses>>
-----------------------------------------------------------------------------
\* The webhook opens the dispute.
Opened == CreateDispute(on) /\ UNCHANGED page

PageStep ==
  (\E h \in Handlers : Reach(h)) \/ Answered \/ ReadStatus \/ Loaded

PageNext ==
  \/ Opened
  \/ \E what \in Outcomes \cup {"evidence"} : Click(what)
  \/ PageStep
  \/ \E h \in Handlers : Serve(h)
  \/ ServerFails \/ LoseCall \/ LoadFails \/ Reopen

PageSpec == PageInit /\ [][PageNext]_allVars

\* Calls run on at both ends, and the admin marks as WON what can be marked
\* and opens the page again where it shows an error or no dispute.
FairPageSpec ==
  /\ PageSpec
  /\ \A h \in Handlers : SF_allVars(Serve(h))
  /\ SF_allVars(PageStep)
  /\ SF_allVars(Click("WON"))
  /\ SF_allVars(Reopen /\ (failed \/ shown = "none"))
-----------------------------------------------------------------------------
\* The types, and who works on the click that the page waits for.
PageTypeOK ==
  /\ TypeOK
  /\ on \in Disputes
  /\ shown \in {"none"} \cup Open \cup Outcome
  /\ failed \in BOOLEAN
  /\ step \in Steps
  /\ ask \in {"none", "evidence"} \cup Outcome
  /\ ask # "none" <=> step = "post"
  /\ by \in SUBSET Handlers
  /\ by # {} <=> step = "work"
  /\ \A h \in by : pc[h] # "idle" /\ at[h] = on
  /\ seen \in {"none"} \cup Open \cup Outcome
  /\ losses \in 0 .. MaxLosses

\* The page in front of a patient admin is what keeps the calls on a dispute
\* apart: whatever is lost or fails, the service sees the calls of Disputes.
KeepsCallsApart == Spec
=============================================================================
