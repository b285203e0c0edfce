------------------------- MODULE StudentApplications -------------------------
(***************************************************************************)
(* MyApplicationsPage, with the journey shown under each application, and  *)
(* ApplicationDetailPage, where a returned application is corrected by     *)
(* several forms that all resubmit it.                                     *)
(***************************************************************************)
EXTENDS Screen

CONSTANTS AppIds, SlotIds, RoomIds

\* Null is not a list of applications.
ASSUME StudentApplicationsAssumption ==
  \A s \in SUBSET AppIds : None \notin [s -> {"pending", "rejected"}]
\* Nor an application.
ASSUME DetailAssumption ==
  None \notin [status : {"pending", "needs_correction", "rejected", "deleted"},
               missing : SUBSET SlotIds, notes : {"blank", "typed"}, room : RoomIds \cup {None}]

------------------------------------------------------------------------------
\* MyApplicationsPage

MineInit ==
  /\ page = [at |-> "mine", list |-> None, error |-> FALSE, target |-> None,
             deleting |-> FALSE, deleteError |-> FALSE, journeys |-> << >>]
  /\ server = [a \in AppIds |-> "pending"]
  /\ tasks = {Task("load", 1, None)} /\ stale = FALSE

\* useApplicationJourneys: what the list now shows is a new key of the effect,
\* which gives up the run it had started (cancelled) and starts another.
Abandoned(ts) == {[u EXCEPT !.arg = None] : u \in {v \in ts : v.fn = "journeys"}}
                 \cup {u \in ts : u.fn # "journeys"}
\* Mutant: the run under way goes on to fill in the journeys.
FollowJourneysMutant(t, list) ==
  tasks' = (tasks \ {t})
    \cup IF list = page.list \/ DOMAIN list = {} THEN {} ELSE {New("journeys", list)}
FollowJourneys(t, list) ==
  tasks' = IF list = page.list THEN tasks \ {t}
           ELSE Abandoned(tasks \ {t})
             \cup IF DOMAIN list = {} THEN {} ELSE {New("journeys", list)}

MineLoadReturns(t) ==
  /\ t.fn = "load" /\ t.wire # "sent"
  /\ IF t.wire = "failed" THEN End(t) /\ page' = [page EXCEPT !.error = TRUE]
     ELSE FollowJourneys(t, t.reply) /\ page' = [page EXCEPT !.list = t.reply]
  /\ UNCHANGED <<server, stale>>

\* Each of its three requests may fail, which only leaves the step less exact.
JourneysReturn(t) ==
  /\ t.fn = "journeys" /\ t.wire # "sent" /\ End(t)
  /\ page' = IF t.arg = None THEN page ELSE [page EXCEPT !.journeys = t.arg]
  /\ UNCHANGED <<server, stale>>

AskRemoval(a) ==
  /\ page.list # None /\ a \in DOMAIN page.list /\ page.list[a] = "rejected"
  /\ page.target = None
  /\ page' = [page EXCEPT !.target = a, !.deleteError = FALSE]
  /\ UNCHANGED <<tasks, server, stale>>

CancelRemoval ==
  /\ page.target # None /\ ~page.deleting
  /\ page' = [page EXCEPT !.target = None]
  /\ UNCHANGED <<tasks, server, stale>>

ConfirmRemoval ==
  /\ page.target # None /\ ~page.deleting /\ MayTap
  /\ page' = [page EXCEPT !.deleting = TRUE, !.deleteError = FALSE]
  /\ Start(New("delete", page.target))
  /\ UNCHANGED <<server, stale>>

RemovalReturns(t) ==
  /\ t.fn = "delete" /\ t.wire # "sent"
  /\ IF t.wire = "failed"
       THEN End(t) /\ page' = [page EXCEPT !.deleting = FALSE, !.deleteError = TRUE]
       ELSE /\ GoOn(t, New("load", None))
            /\ page' = [page EXCEPT !.deleting = FALSE, !.target = None]
  /\ UNCHANGED <<server, stale>>

Except(f, a) == [b \in DOMAIN f \ {a} |-> f[b]]
ServeMine(t) ==
  \/ Awaiting(t, {"load", "journeys"}) /\ Serve(t, TRUE, server, server)
  \/ /\ Awaiting(t, {"delete"})
     /\ Serve(t, t.arg \in DOMAIN server, Except(server, t.arg), None)

MineDecided(a) ==
  /\ a \in DOMAIN server /\ server[a] = "pending"
  /\ Elsewhere([server EXCEPT ![a] = "rejected"])

MineNext ==
  \/ \E a \in AppIds : AskRemoval(a) \/ MineDecided(a)
  \/ CancelRemoval \/ ConfirmRemoval
  \/ \E t \in tasks : ServeMine(t) \/ MineLoadReturns(t) \/ JourneysReturn(t)
                      \/ RemovalReturns(t)

MineBusy == page.deleting \/ (page.list = None /\ ~page.error)
MineAgree == page.list # None /\ ~page.error => page.list = server

\* The journey drawn under an application is computed from the status shown
\* beside it, once nothing is under way, however its requests and those of the
\* lists before it overtake each other (useApplicationJourneys).
JourneysInStep ==
  page.at = "mine" /\ tasks = {} /\ page.list # None =>
    \A a \in DOMAIN page.list :
      a \in DOMAIN page.journeys /\ page.journeys[a] = page.list[a]

------------------------------------------------------------------------------
\* ApplicationDetailPage

Ways == {"resubmit", "notes", "room"}

DetailInit ==
  /\ \E s \in {"needs_correction", "rejected"}, m \in SUBSET SlotIds :
       server = [status |-> s, missing |-> m, notes |-> "blank", room |-> None]
  /\ page = [at |-> "application", app |-> None, error |-> FALSE, notes |-> "blank",
             editing |-> FALSE, picked |-> None, room |-> None, busy |-> {},
             uploading |-> None, deleting |-> FALSE, left |-> FALSE]
  /\ tasks = {Task("load", 1, None)} /\ stale = FALSE

Shows(status) == ~page.left /\ ~page.error /\ page.app # None /\ page.app.status = status
CanEdit == Shows("needs_correction") /\ ~page.deleting

\* load: the text being edited is replaced as well; the room that was asked for
\* follows.
DetailLoadReturns(t) ==
  /\ t.fn = "load" /\ t.wire # "sent"
  /\ IF t.wire = "failed" THEN End(t) /\ page' = [page EXCEPT !.error = TRUE]
     ELSE /\ page' = [page EXCEPT !.app = t.reply, !.notes = t.reply.notes,
                        !.room = IF t.reply.room = None THEN None ELSE @]
          /\ IF t.reply.room = None THEN End(t) ELSE GoOn(t, New("getRoom", t.reply.room))
  /\ UNCHANGED <<server, stale>>

RoomNumberReturns(t) ==
  /\ t.fn = "getRoom" /\ t.wire # "sent" /\ End(t)
  /\ page' = [page EXCEPT !.room = IF t.wire = "ok" THEN t.arg ELSE None]
  /\ UNCHANGED <<server, stale>>

EditNotes(on) ==
  /\ CanEdit /\ page.editing # on /\ page' = [page EXCEPT !.editing = on]
  /\ UNCHANGED <<tasks, server, stale>>
TypeNotes ==
  /\ CanEdit /\ page.editing /\ page.notes # "typed"
  /\ page' = [page EXCEPT !.notes = "typed"]
  /\ UNCHANGED <<tasks, server, stale>>
PickRoom(r) ==
  /\ CanEdit /\ page.picked # r /\ page' = [page EXCEPT !.picked = r]
  /\ UNCHANGED <<tasks, server, stale>>

\* handleResubmit, handleUpdateNotes, handleConfirmRoom: only the first waits
\* for the missing documents.
HandleResubmit(way) ==
  /\ CanEdit /\ way \notin page.busy /\ MayTap
  /\ way = "resubmit" => page.app.missing = {}
  /\ way = "notes" => page.editing
  /\ way = "room" => page.picked # None
  /\ page' = [page EXCEPT !.busy = @ \cup {way}]
  /\ Start(New(way, [notes |-> page.notes,
                     room |-> IF way = "room" THEN page.picked ELSE None]))
  /\ UNCHANGED <<server, stale>>

ResubmitReturns(t) ==
  /\ t.fn \in Ways /\ t.wire # "sent"
  /\ IF t.wire = "failed"
       THEN End(t) /\ page' = [page EXCEPT !.busy = @ \ {t.fn}]
       ELSE /\ GoOn(t, New("load", None))
            /\ page' = [page EXCEPT !.busy = @ \ {t.fn},
                          !.editing = @ /\ t.fn # "notes",
                          !.picked = IF t.fn = "room" THEN None ELSE @]
  /\ UNCHANGED <<server, stale>>

\* handleUploadMissing for one required document at a time; handleAddDocument
\* for any other (s = None).
HandleUpload(s) ==
  /\ CanEdit /\ MayTap
  /\ \/ /\ s = None /\ "add" \notin page.busy
        /\ page' = [page EXCEPT !.busy = @ \cup {"add"}]
        /\ Start(New("add", None))
     \/ /\ s \in page.app.missing /\ page.uploading = None
        /\ page' = [page EXCEPT !.uploading = s]
        /\ Start(New("file", s))
  /\ UNCHANGED <<server, stale>>

UploadMissingReturns(t) ==
  /\ t.fn \in {"file", "attach", "add"} /\ t.wire # "sent"
  /\ IF t.wire = "ok" /\ t.fn = "file"
       THEN GoOn(t, New("attach", t.arg)) /\ UNCHANGED page
       ELSE /\ IF t.wire = "ok" THEN GoOn(t, New("load", None)) ELSE End(t)
            /\ page' = [page EXCEPT !.uploading = IF t.fn = "add" THEN @ ELSE None,
                          !.busy = IF t.fn = "add" THEN @ \ {"add"} ELSE @]
  /\ UNCHANGED <<server, stale>>

HandleDeleteApplication ==
  /\ Shows("rejected") /\ ~page.deleting /\ MayTap
  /\ page' = [page EXCEPT !.deleting = TRUE]
  /\ Start(New("delete", None))
  /\ UNCHANGED <<server, stale>>
DeletionReturns(t) ==
  /\ t.fn = "delete" /\ t.wire # "sent" /\ End(t)
  /\ page' = [page EXCEPT !.deleting = FALSE, !.left = t.wire = "ok"]
  /\ UNCHANGED <<server, stale>>

\* Corrections are taken while the application is returned, documents and the
\* deletion as AddDocument and CancelOwn say; without another room it keeps its own.
ServeDetail(t) ==
  LET open == server.status = "needs_correction"
  IN \/ Awaiting(t, {"load", "getRoom", "file"})
        /\ Serve(t, t.fn = "load" => server.status # "deleted", server, server)
     \/ Awaiting(t, {"attach", "add"})
        /\ Serve(t, server.status \in {"pending", "needs_correction"},
                 [server EXCEPT !.missing = @ \ {t.arg}], None)
     \/ Awaiting(t, Ways)
        /\ Serve(t, open, [server EXCEPT !.status = "pending", !.notes = t.arg.notes,
                    !.room = IF t.arg.room = None THEN @ ELSE t.arg.room], None)
     \/ Awaiting(t, {"delete"})
        /\ Serve(t, server.status \in {"pending", "rejected"},
                 [server EXCEPT !.status = "deleted"], None)

DetailDecided ==
  /\ server.status = "pending"
  /\ \E s \in {"needs_correction", "rejected"} : Elsewhere([server EXCEPT !.status = s])

DetailNext ==
  \/ \E on \in BOOLEAN : EditNotes(on)
  \/ TypeNotes \/ HandleDeleteApplication \/ DetailDecided
  \/ \E r \in RoomIds : PickRoom(r)
  \/ \E way \in Ways : HandleResubmit(way)
  \/ \E s \in SlotIds \cup {None} : HandleUpload(s)
  \/ \E t \in tasks : \/ ServeDetail(t) \/ DetailLoadReturns(t) \/ RoomNumberReturns(t)
                      \/ ResubmitReturns(t) \/ UploadMissingReturns(t) \/ DeletionReturns(t)

DetailBusy == ~page.left /\
  (page.busy # {} \/ page.uploading # None \/ page.deleting \/ (page.app = None /\ ~page.error))
DetailAgree ==
  IF page.left THEN server.status = "deleted"
  ELSE page.app # None /\ ~page.error => page.app = server
=============================================================================
