-------------------------- MODULE ContractsScreen --------------------------
(***************************************************************************)
(* ContractsPage: the student reads a contract, acknowledges it, and       *)
(* accepts or declines it before its deadline.                             *)
(***************************************************************************)
EXTENDS Screen

CONSTANT ContractIds

\* A list that has been read is told from one that has not.
ASSUME ContractsAssumption ==
  None \notin [ContractIds -> {"sent", "accepted", "declined", "awaiting_manager_decision"}]

\* server.status: of each contract; server.docs: whether the application, the
\* dormitory and the template behind its printed form can be read.
ContractsInit ==
  /\ page = [at |-> "contracts", list |-> None, docs |-> {}, error |-> FALSE,
             settled |-> FALSE, expanded |-> {}, acknowledged |-> {},
             pending |-> None, submitting |-> FALSE, actionError |-> FALSE,
             downloading |-> None]
  /\ server = [status |-> [c \in ContractIds |-> "sent"], settled |-> FALSE]
  /\ tasks = {Task("load", 1, None), Task("settled", 1, None)}
  /\ stale = FALSE

StatusOf(c) == IF page.list = None THEN None ELSE page.list[c]

\* The list is shown as soon as it is there; the printed forms follow, as many
\* of them as can be filled in.
ListReturns(t) ==
  /\ t.fn = "load" /\ t.wire # "sent"
  /\ IF t.wire = "failed" THEN End(t) /\ page' = [page EXCEPT !.error = TRUE]
     ELSE /\ GoOn(t, New("documents", None)) /\ page' = [page EXCEPT !.list = t.reply]
  /\ UNCHANGED <<server, stale>>

DocumentsReturn(t) ==
  /\ t.fn = "documents" /\ t.wire # "sent" /\ End(t)
  /\ page' = [page EXCEPT !.docs = IF t.wire = "ok" THEN ContractIds ELSE {}]
  /\ UNCHANGED <<server, stale>>

\* useIsSettled: asked once; a failure counts as no.
SettledReturns(t) ==
  /\ t.fn = "settled" /\ t.wire # "sent" /\ End(t)
  /\ page' = [page EXCEPT !.settled = t.wire = "ok" /\ t.reply]
  /\ UNCHANGED <<server, stale>>

ToggleExpanded(c) ==
  /\ c \in page.docs /\ page.pending = None
  /\ page' = [page EXCEPT !.expanded = IF c \in @ THEN @ \ {c} ELSE @ \cup {c}]
  /\ UNCHANGED <<tasks, server, stale>>

HandleDownload(c) ==
  /\ c \in page.expanded \cap page.docs /\ page.downloading # c /\ MayTap
  /\ page.pending = None
  /\ page' = [page EXCEPT !.downloading = c]
  /\ Start(New("download", c))
  /\ UNCHANGED <<server, stale>>

DownloadReturns(t) ==
  /\ t.fn = "download" /\ t.wire # "sent" /\ End(t)
  /\ page' = [page EXCEPT !.downloading = None]
  /\ UNCHANGED <<server, stale>>

Acknowledge(c) ==
  /\ StatusOf(c) = "sent" /\ c \notin page.acknowledged /\ page.pending = None
  /\ page' = [page EXCEPT !.acknowledged = @ \cup {c}]
  /\ UNCHANGED <<tasks, server, stale>>

AskAnswer(c, action) ==
  /\ StatusOf(c) = "sent" /\ c \in page.acknowledged /\ page.pending = None
  /\ page' = [page EXCEPT !.pending = [contract |-> c, action |-> action]]
  /\ UNCHANGED <<tasks, server, stale>>

CancelAnswer ==
  /\ page.pending # None /\ ~page.submitting
  /\ page' = [page EXCEPT !.pending = None]
  /\ UNCHANGED <<tasks, server, stale>>

HandleConfirm ==
  /\ page.pending # None /\ ~page.submitting /\ MayTap
  /\ page' = [page EXCEPT !.actionError = FALSE, !.submitting = TRUE]
  /\ Start(New("respond", page.pending))
  /\ UNCHANGED <<server, stale>>

\* Only a contract that is sent, and not overdue, takes an answer.
ServeContracts(t) ==
  \/ /\ Awaiting(t, {"load", "documents", "download"})
     /\ Serve(t, TRUE, server, server.status)
  \/ Awaiting(t, {"settled"}) /\ Serve(t, TRUE, server, server.settled)
  \/ /\ Awaiting(t, {"respond"})
     /\ Serve(t, server.status[t.arg.contract] = "sent",
              [server EXCEPT !.status[t.arg.contract] =
                               IF t.arg.action = "accept" THEN "accepted" ELSE "declined",
                             !.settled = @ \/ t.arg.action = "accept"], None)

\* Mutant: the list is not read again after an answer.
RespondReturnsMutant(t) ==
  /\ t.fn = "respond" /\ t.wire # "sent" /\ End(t)
  /\ page' = [page EXCEPT !.submitting = FALSE, !.pending = None]
  /\ UNCHANGED <<server, stale>>
RespondReturns(t) ==
  /\ t.fn = "respond" /\ t.wire # "sent"
  /\ IF t.wire = "failed"
       THEN End(t) /\ page' = [page EXCEPT !.submitting = FALSE, !.actionError = TRUE]
       ELSE /\ GoOn(t, New("load", None))
            /\ page' = [page EXCEPT !.submitting = FALSE, !.pending = None]
  /\ UNCHANGED <<server, stale>>

DeadlinePasses(c) ==
  /\ server.status[c] = "sent"
  /\ Elsewhere([server EXCEPT !.status[c] = "awaiting_manager_decision"])

ContractsNext ==
  \/ \E c \in ContractIds :
       \/ ToggleExpanded(c) \/ HandleDownload(c) \/ Acknowledge(c) \/ DeadlinePasses(c)
       \/ \E action \in {"accept", "decline"} : AskAnswer(c, action)
  \/ CancelAnswer \/ HandleConfirm
  \/ \E t \in tasks :
       \/ ServeContracts(t) \/ ListReturns(t) \/ DocumentsReturn(t)
       \/ SettledReturns(t) \/ DownloadReturns(t) \/ RespondReturns(t)

ContractsBusy == page.submitting \/ page.downloading # None \/ (page.list = None /\ ~page.error)
\* The page offers an answer for what the server would take one for, and shows
\* what it decided; a page that failed to load again says so.
ContractsAgree == page.list # None /\ ~page.error => page.list = server.status
=============================================================================
