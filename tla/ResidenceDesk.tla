--------------------------- MODULE ResidenceDesk ---------------------------
(***************************************************************************)
(* MyResidencePage and ResidenceRequestsSection: the place of a student,   *)
(* and the requests to leave it or to move to another room.                *)
(***************************************************************************)
EXTENDS Screen

\* A place that is shown is told from one that is not known.
ASSUME DeskAssumption == None # "shown"

Kinds == {"exit", "transfer"}

\* server: what the latest request of each kind is, and whether the student
\* still lives in a room.
DeskInit ==
  /\ page = [at |-> "residence", place |-> None, latest |-> [k \in Kinds |-> None],
             loaded |-> FALSE, loadError |-> FALSE, ask |-> None,
             sending |-> {}, error |-> {}, prefilled |-> None]
  /\ \E old \in [Kinds -> {"none", "pending", "rejected"}] :
       server = [latest |-> old, resident |-> TRUE]
  /\ tasks = {Task("place", 1, None), Task("load", 1, None)} /\ stale = FALSE

\* getMyResidence, then the dormitory; the roommates may fail without an error.
PlaceReturns(t) ==
  /\ t.fn \in {"place", "dormitory", "roommates"} /\ t.wire # "sent"
  /\ CASE t.wire = "failed" /\ t.fn # "roommates" ->
            End(t) /\ page' = [page EXCEPT !.loadError = TRUE]
       [] t.wire = "ok" /\ t.fn = "place" ->
            GoOn(t, New("dormitory", None)) /\ UNCHANGED page
       [] t.wire = "ok" /\ t.fn = "dormitory" ->
            GoOn(t, New("roommates", None)) /\ page' = [page EXCEPT !.place = "shown"]
       [] OTHER -> End(t) /\ UNCHANGED page
  /\ UNCHANGED <<server, stale>>

\* The three lists together, or an error.
DeskLoadReturns(t) ==
  /\ t.fn = "load" /\ t.wire # "sent" /\ End(t)
  /\ page' = IF t.wire = "failed" THEN [page EXCEPT !.loadError = TRUE]
             ELSE [page EXCEPT !.latest = t.reply, !.loaded = TRUE]
  /\ UNCHANGED <<server, stale>>

\* The assistant's link fills in one of the forms.
PrefillDraft(k) ==
  /\ page.prefilled = None /\ page' = [page EXCEPT !.prefilled = k]
  /\ UNCHANGED <<tasks, server, stale>>

\* The forms are there while nothing is pending.
NothingPending == \A k \in Kinds : page.latest[k] # "pending"
OpenConfirm(k) ==
  /\ ~page.loadError /\ page.place # None /\ NothingPending /\ page.ask = None
  /\ page' = [page EXCEPT !.ask = k]
  /\ UNCHANGED <<tasks, server, stale>>

CancelConfirm ==
  /\ page.ask # None /\ page.ask \notin page.sending
  /\ page' = [page EXCEPT !.ask = None]
  /\ UNCHANGED <<tasks, server, stale>>

ConfirmRequest ==
  /\ page.ask # None /\ page.ask \notin page.sending /\ MayTap
  /\ page' = [page EXCEPT !.error = @ \ {page.ask}, !.sending = @ \cup {page.ask}]
  /\ Start(New(page.ask, None))
  /\ UNCHANGED <<server, stale>>

\* A second request of a kind is refused while one is pending, and so is one of
\* a student who lives nowhere.
ServeDesk(t) ==
  \/ /\ Awaiting(t, {"place", "dormitory", "roommates", "load"})
     /\ Serve(t, t.fn = "place" => server.resident, server, server.latest)
  \/ /\ Awaiting(t, Kinds)
     /\ Serve(t, server.resident /\ server.latest[t.fn] # "pending",
              [server EXCEPT !.latest[t.fn] = "pending"], None)

RequestReturns(t) ==
  /\ t.fn \in Kinds /\ t.wire # "sent" /\ End(t)
  /\ page' = IF t.wire = "failed"
               THEN [page EXCEPT !.error = @ \cup {t.fn}, !.sending = @ \ {t.fn}]
               ELSE [page EXCEPT !.latest[t.fn] = "pending", !.ask = None,
                                 !.sending = @ \ {t.fn}, !.prefilled = None]
  /\ UNCHANGED <<server, stale>>

\* The manager decides; an approved request ends the residence or moves it.
DeskDecided(k) ==
  /\ server.latest[k] = "pending"
  /\ \E s \in {"approved", "rejected"} :
       Elsewhere([server EXCEPT !.latest[k] = s,
                    !.resident = @ /\ ~(k = "exit" /\ s = "approved")])

DeskNext ==
  \/ CancelConfirm \/ ConfirmRequest
  \/ \E k \in Kinds : PrefillDraft(k) \/ OpenConfirm(k) \/ DeskDecided(k)
  \/ \E t \in tasks : \/ ServeDesk(t) \/ PlaceReturns(t)
                      \/ DeskLoadReturns(t) \/ RequestReturns(t)

DeskBusy == page.sending # {} \/ (page.place = None /\ ~page.loadError)
\* A page that offers the forms, or shows a request, is right about it.
DeskAgree == page.loaded /\ ~page.loadError => page.latest = server.latest
=============================================================================
