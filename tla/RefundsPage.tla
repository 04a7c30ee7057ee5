---------------------------- MODULE RefundsPage ----------------------------
(***************************************************************************)
(* The admin's page of refund requests (apps/web/src/app/admin/refunds)     *)
(* over the RefundsService of Refunds: the calls of that module are the     *)
(* clicks on this page.                                                     *)
(*                                                                          *)
(* A click sends a POST, and what follows it runs when the answer comes: a  *)
(* reload of the list, or an error.  The page knows of one row it acts on;  *)
(* only that row's button is disabled, so that a click on another row can   *)
(* come in between, and the end of either call enables both.  Lists are     *)
(* read at the server before they are shown, and may be shown in another    *)
(* order than they were read in.  Opening the page again forgets the calls  *)
(* of the old one; the server finishes them.  Nobody else reviews requests. *)
(***************************************************************************)
EXTENDS Refunds

CONSTANTS
  Mount    \* the call that loads the list when the page is opened

ASSUME MountAssumption == Mount \notin Handlers

VARIABLES
  shown,    \* the list on the page: the status of each request
  loading,  \* the list is replaced by a spinner
  failed,   \* an error is shown
  acting,   \* the row whose button is disabled
  call,     \* what each of the page's calls waits for
  row,      \* the row it is about
  seen,     \* the list it was answered
  serial    \* history: since the page was opened, one call at a time

page == <<shown, loading, failed, acting, call, row, seen, serial>>
allVars == <<vars, page>>

Calls == Handlers \cup {Mount}

NoList == [r \in Requests |-> "none"]

\* The page as it is mounted; its effect loads the list.
Opened ==
  /\ shown' = NoList
  /\ loading' = TRUE
  /\ failed' = FALSE
  /\ acting' = NoRequest
  /\ call' = [k \in Calls |-> IF k = Mount THEN "get" ELSE "none"]
  /\ row' = [k \in Calls |-> NoRequest]
  /\ seen' = [k \in Calls |-> NoList]

PageInit ==
  /\ Init
  /\ shown = NoList
  /\ loading = TRUE
  /\ failed = FALSE
  /\ acting = NoRequest
  /\ call = [k \in Calls |-> IF k = Mount THEN "get" ELSE "none"]
  /\ row = [k \in Calls |-> NoRequest]
  /\ seen = [k \in Calls |-> NoList]
  /\ serial = TRUE

\* No call of this page, and none left behind by an earlier one.
Quiet == \A k \in Calls : call[k] = "none" /\ (k # Mount => pc[k] \in Idle)
-----------------------------------------------------------------------------
(* Calls that act on a row. *)

\* A row of the table, which is there when the spinner is not.
Listed(r) == ~ loading /\ shown[r] # "none"

\* The row's button, if it has one, is loading.
Disabled(r) == acting = r

\* The row has a button that can be pressed.
Clickable(r) ==
  Listed(r) /\ shown[r] \in {"PENDING", "APPROVED"} /\ ~ Disabled(r)

Await(k, l) == call' = [call EXCEPT ![k] = l]

\* approve, process up to the POST.
Click(h, r) ==
  /\ Clickable(r)
  /\ call[h] = "none" /\ pc[h] \in Idle
  /\ acting' = r
  /\ Await(h, IF shown[r] = "PENDING" THEN "approve" ELSE "process")
  /\ row' = [row EXCEPT ![h] = r]
  /\ serial' = (serial /\ Quiet)
  /\ UNCHANGED <<vars, shown, loading, failed, seen>>

\* The POST is read at the server; what does not fit the row's status is
\* refused.
Reach(h) ==
  LET r == row[h]
  IN
  /\ \/ call[h] = "approve" /\ status[r] = "PENDING" /\ Start(h, r, "approve")
     \/ call[h] = "process" /\ ReadForProcess(h, r)
     \/ /\ \/ call[h] = "approve" /\ status[r] # "PENDING"
           \/ call[h] = "process" /\ status[r] # "APPROVED"
        /\ Answer(h, "failed")
        /\ UNCHANGED <<rows, money, gateway, outer, wrote, faults>>
  /\ Await(h, "answer")
  /\ UNCHANGED <<shown, loading, failed, acting, row, seen, serial>>

\* A call that is over: its finally block enables every button.
End(k) ==
  /\ Await(k, "none")
  /\ acting' = IF k = Mount THEN acting ELSE NoRequest
  /\ row' = [row EXCEPT ![k] = NoRequest]
  /\ seen' = [seen EXCEPT ![k] = NoList]

\* Bug: the list is not loaded again.
AnsweredWithoutLoad(h) ==
  /\ call[h] = "answer" /\ pc[h] = "ok"
  /\ failed' = FALSE
  /\ End(h)
  /\ UNCHANGED <<vars, shown, loading, serial>>

\* load up to its GET.
Answered(h) ==
  /\ call[h] = "answer" /\ pc[h] = "ok"
  /\ Await(h, "get")
  /\ loading' = TRUE
  /\ failed' = FALSE
  /\ UNCHANGED <<vars, shown, acting, row, seen, serial>>

\* The catch block: the list stays as it is.
Refused(h) ==
  /\ call[h] = "answer" /\ pc[h] \in {"failed", "idle"}
  /\ failed' = TRUE
  /\ End(h)
  /\ UNCHANGED <<vars, shown, loading, serial>>

\* The answer, or the POST itself, is lost.
LoseAnswer(h) ==
  /\ call[h] \in {"approve", "process", "answer"}
  /\ Fault
  /\ failed' = TRUE
  /\ End(h)
  /\ serial' = FALSE
  /\ UNCHANGED <<rows, money, gateway, pc, local, shown, loading>>
-----------------------------------------------------------------------------
(* Lists. *)

ReadList(k) ==
  /\ call[k] = "get"
  /\ Await(k, "got")
  /\ seen' = [seen EXCEPT ![k] = status]
  /\ UNCHANGED <<vars, shown, loading, failed, acting, row, serial>>

\* setData, and the finally blocks of load and of the click.
Loaded(k) ==
  /\ call[k] = "got"
  /\ shown' = seen[k]
  /\ loading' = FALSE
  /\ End(k)
  /\ UNCHANGED <<vars, failed, serial>>

LoadFails(k) ==
  /\ call[k] \in {"get", "got"}
  /\ Fault
  /\ failed' = TRUE
  /\ loading' = FALSE
  /\ End(k)
  /\ UNCHANGED <<rows, money, gateway, pc, local, shown, serial>>

\* The admin opens the page again, for whatever reason.
Reopen ==
  /\ ~ loading
  /\ Opened
  /\ serial' = Quiet
  /\ UNCHANGED vars
-----------------------------------------------------------------------------
PageStep(k) ==
  \/ k \in Handlers /\ (Reach(k) \/ Answered(k) \/ Refused(k))
  \/ ReadList(k) \/ Loaded(k)

Serve(h) == Step(h) /\ UNCHANGED page

PageNext ==
  \/ \E r \in Requests :
       \/ CreateRefundRequest(r) /\ UNCHANGED page
       \/ \E h \in Handlers : Click(h, r)
  \/ \E k \in Calls : PageStep(k) \/ LoadFails(k)
  \/ \E h \in Handlers :
       \/ LoseAnswer(h)
       \/ Serve(h)
       \/ /\ \/ GatewayFails(h) \/ OuterRollback(h) \/ InnerRollback(h)
             \/ Expire(h) \/ StatementFails(h)
          /\ UNCHANGED page
  \/ Crash /\ UNCHANGED page
  \/ Reopen

PageSpec == PageInit /\ [][PageNext]_allVars

\* A request that has been made is not in the list.
Unlisted == \E r \in Requests : status[r] # "none" /\ shown[r] = "none"

\* Calls run on at both ends, and the admin presses what can be pressed and
\* looks again where the page shows an error or misses a request.
FairPageSpec ==
  /\ PageSpec
  /\ \A h \in Handlers : SF_allVars(Serve(h))
  /\ \A k \in Calls : SF_allVars(PageStep(k))
  /\ \A r \in Requests : SF_allVars(\E h \in Handlers : Click(h, r))
  /\ SF_allVars(Reopen /\ (failed \/ Unlisted))
-----------------------------------------------------------------------------
PageTypeOK ==
  /\ TypeOK
  /\ shown \in [Requests -> Statuses]
  /\ loading \in BOOLEAN
  /\ failed \in BOOLEAN
  /\ acting \in Requests \cup {NoRequest}
  /\ call \in [Calls -> {"none", "approve", "process", "answer", "get", "got"}]
  /\ row \in [Calls -> Requests \cup {NoRequest}]
  /\ seen \in [Calls -> [Requests -> Statuses]]
  /\ serial \in BOOLEAN

\* The page never waits for nothing: behind the spinner there is a list on its
\* way, and behind a disabled button a call about its row, however calls on
\* several rows overlap, fail or lose their answers.
WaitsForACall ==
  /\ loading => \E k \in Calls : call[k] \in {"get", "got"}
  /\ acting # NoRequest =>
       \E h \in Handlers : call[h] # "none" /\ row[h] = acting

\* An admin who makes one call at a time and sees no error sees what is
\* stored: what the server wrote after a list was read is followed by another
\* list.
SerialPageIsTrue ==
  serial /\ ~ failed /\ Quiet =>
    \A r \in Requests : shown[r] \in {"none", status[r]}

\* What is asked is in the end PROCESSED by an admin who has only this page,
\* past stale rows, lost answers and lists that overtake each other.
RequestSettles ==
  \A r \in Requests :
    status[r] = "PENDING" /\ Resolvable(r) ~> status[r] = "PROCESSED"
=============================================================================
