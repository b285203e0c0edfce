------------------------------ MODULE Notices ------------------------------
(***************************************************************************)
(* NotificationsPage, which marks a notice read before the server has.     *)
(***************************************************************************)
EXTENDS Screen

CONSTANT NoticeIds

\* Null is neither a notice nor a list of notices.
ASSUME NoticesAssumption == \A s \in SUBSET NoticeIds : None \notin [s -> BOOLEAN] \cup s

\* The server keeps, for each notice of the caller, whether it is read; unsent
\* are those it has yet to send.
Rows == server.read
UnreadOf(rows) == {n \in DOMAIN rows : ~rows[n]}
WithRows(rows) == [server EXCEPT !.read = rows]
Only(rows, ids) == [n \in DOMAIN rows \cap ids |-> rows[n]]
MarkedRead(rows, ids) == [n \in DOMAIN rows |-> rows[n] \/ n \in ids]

NoticesInit ==
  /\ page = [at |-> "notices", list |-> None, error |-> FALSE, target |-> None,
             deleting |-> FALSE, clearOpen |-> FALSE, clearing |-> FALSE,
             deleteError |-> FALSE]
  /\ \E s \in SUBSET NoticeIds : \E r \in [s -> BOOLEAN] :
       server = [read |-> r, unsent |-> NoticeIds \ s]
  /\ tasks = {Task("load", 1, None)}
  /\ stale = FALSE

Listed == IF page.list = None THEN {} ELSE DOMAIN page.list

HandleClick(n) ==
  /\ MayTap /\ n \in Listed /\ ~page.list[n]
  /\ page' = [page EXCEPT !.list[n] = TRUE]
  /\ Start(New("markRead", n))
  /\ UNCHANGED <<server, stale>>

HandleMarkAllRead ==
  /\ MayTap /\ Listed # {} /\ UnreadOf(page.list) # {}
  /\ page' = [page EXCEPT !.list = MarkedRead(@, DOMAIN @)]
  /\ Start(New("markAll", UnreadOf(page.list)))
  /\ UNCHANGED <<server, stale>>

AskDelete(n) ==
  /\ n \in Listed /\ page.target = None /\ ~page.clearOpen
  /\ page' = [page EXCEPT !.target = n]
  /\ UNCHANGED <<tasks, server, stale>>

AskClearAll ==
  /\ Listed # {} /\ page.target = None /\ ~page.clearOpen
  /\ page' = [page EXCEPT !.clearOpen = TRUE]
  /\ UNCHANGED <<tasks, server, stale>>

\* Cancel is disabled while the deletion is under way.
CancelDialog ==
  /\ \/ page.target # None /\ ~page.deleting
     \/ page.clearOpen /\ ~page.clearing
  /\ page' = [page EXCEPT !.target = None, !.clearOpen = FALSE]
  /\ UNCHANGED <<tasks, server, stale>>

HandleDelete ==
  /\ MayTap /\ page.target # None /\ ~page.deleting
  /\ page' = [page EXCEPT !.deleting = TRUE, !.deleteError = FALSE]
  /\ Start(New("delete", page.target))
  /\ UNCHANGED <<server, stale>>

HandleClearAll ==
  /\ MayTap /\ page.clearOpen /\ ~page.clearing
  /\ page' = [page EXCEPT !.clearing = TRUE, !.deleteError = FALSE]
  /\ Start(New("clearAll", None))
  /\ UNCHANGED <<server, stale>>

\* The calls of notificationApi.
ServeNotices(t) ==
  /\ Awaiting(t, {"load", "markRead", "delete", "clearAll"})
  /\ LET rows == CASE t.fn = "markRead" -> MarkedRead(Rows, {t.arg})
                   [] t.fn = "delete" -> Only(Rows, NoticeIds \ {t.arg})
                   [] t.fn = "clearAll" -> Only(Rows, {})
                   [] OTHER -> Rows
     IN Serve(t, t.fn \in {"markRead", "delete"} => t.arg \in DOMAIN Rows,
              WithRows(rows), rows)

\* One call for each unread notice, in any order, failures ignored.
ServeMarkAll(t) ==
  /\ Awaiting(t, {"markAll"})
  /\ \E n \in t.arg :
       /\ server' \in {server, WithRows(MarkedRead(Rows, {n}))}
       /\ GoOn(t, [t EXCEPT !.arg = @ \ {n}, !.wire = IF t.arg = {n} THEN "ok" ELSE @])
  /\ stale' = (stale \/ (server' # server /\ ReadUnderWay(t)))
  /\ UNCHANGED page

\* Mutant: the notice stays marked when the call has failed.
MarkReadReturnsMutant(t) ==
  /\ t.fn = "markRead" /\ t.wire \in {"ok", "failed"} /\ End(t)
  /\ UNCHANGED <<page, server, stale>>
MarkReadReturns(t) ==
  /\ t.fn = "markRead"
  /\ \/ t.wire = "ok" /\ End(t)
     \/ t.wire = "failed" /\ GoOn(t, New("load", None))
  /\ UNCHANGED <<page, server, stale>>

MarkAllReturns(t) ==
  /\ Returned(t, "markAll") /\ GoOn(t, New("load", None))
  /\ UNCHANGED <<page, server, stale>>

\* Mutant: the dialog is only released when the deletion succeeded.
DeleteReturnsMutant(t) ==
  /\ t.fn = "delete" /\ t.wire # "sent" /\ End(t)
  /\ page' = IF t.wire = "failed" THEN [page EXCEPT !.deleteError = TRUE]
             ELSE [page EXCEPT !.list = Only(@, NoticeIds \ {t.arg}),
                               !.target = None, !.deleting = FALSE]
  /\ UNCHANGED <<server, stale>>
DeleteReturns(t) ==
  /\ t.fn = "delete" /\ t.wire # "sent" /\ End(t)
  /\ page' = IF t.wire = "failed"
               THEN [page EXCEPT !.deleteError = TRUE, !.deleting = FALSE]
               ELSE [page EXCEPT !.list = Only(@, NoticeIds \ {t.arg}),
                                 !.target = None, !.deleting = FALSE]
  /\ UNCHANGED <<server, stale>>

ClearAllReturns(t) ==
  /\ t.fn = "clearAll" /\ t.wire # "sent" /\ End(t)
  /\ page' = IF t.wire = "failed"
               THEN [page EXCEPT !.deleteError = TRUE, !.clearing = FALSE]
               ELSE [page EXCEPT !.list = Only(@, {}), !.clearOpen = FALSE,
                                 !.clearing = FALSE]
  /\ UNCHANGED <<server, stale>>

LoadNoticesReturns(t) ==
  /\ t.fn = "load" /\ t.wire # "sent" /\ End(t)
  /\ page' = IF t.wire = "failed" THEN [page EXCEPT !.error = TRUE]
             ELSE [page EXCEPT !.list = t.reply]
  /\ UNCHANGED <<server, stale>>

\* The backend notifies.
NoticeArrives(n) ==
  /\ n \in server.unsent
  /\ Elsewhere([read |-> [m \in DOMAIN Rows \cup {n} |-> m # n /\ Rows[m]],
                unsent |-> server.unsent \ {n}])

NoticesNext ==
  \/ \E n \in NoticeIds : HandleClick(n) \/ AskDelete(n) \/ NoticeArrives(n)
  \/ HandleMarkAllRead \/ AskClearAll \/ CancelDialog
  \/ HandleDelete \/ HandleClearAll
  \/ \E t \in tasks :
       \/ ServeNotices(t) \/ ServeMarkAll(t)
       \/ MarkReadReturns(t) \/ MarkAllReturns(t) \/ DeleteReturns(t)
       \/ ClearAllReturns(t) \/ LoadNoticesReturns(t)

\* What the page may still be waiting for, and what it shows.
NoticesBusy == page.deleting \/ page.clearing \/ (page.list = None /\ ~page.error)
NoticesAgree == page.list # None => Listed = DOMAIN Rows

\* A notice that the page shows as read is read on the server once nothing is
\* under way, whatever calls failed, unless the page says so: the optimistic
\* mark of handleClick and handleMarkAllRead is taken back.
ReadMeansRead ==
  page.at = "notices" /\ tasks = {} /\ page.list # None /\ ~page.error =>
    \A n \in DOMAIN page.list \cap DOMAIN Rows : page.list[n] => Rows[n]
=============================================================================
