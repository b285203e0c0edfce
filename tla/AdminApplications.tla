------------------------- MODULE AdminApplications -------------------------
(***************************************************************************)
(* The manager's side of the applications: ApplicationQueuePage with its   *)
(* bulk decisions and BulkDownloadDialog, ApplicationAdminDetailPage where *)
(* one application is decided, and the badges of the sidebar.              *)
(***************************************************************************)
EXTENDS Screen

CONSTANTS
  QueueIds, PlaceIds,
  Grounds   \* what triage looks at: the documents, their checks, the room

\* A list that has been read is told from one that has not.
ASSUME QueueAssumption ==
  None \notin [QueueIds -> {"green", "yellow", "approved", "needs_correction"}]
\* And so are rooms, and an application.
ASSUME ReviewAssumption ==
  /\ \A s \in SUBSET PlaceIds : s # None
  /\ None \notin [status : {"pending", "approved", "rejected", "needs_correction"},
                  preferred : PlaceIds \cup {None}, room : PlaceIds \cup {None},
                  gender : SUBSET PlaceIds]

------------------------------------------------------------------------------
\* ApplicationQueuePage

\* A row is what the tables say of an application: its status, and the grounds
\* on which triage finds fault with it (the red findings, which put it out of
\* reach of the bulk actions, are left out).  The list shows the colour of what
\* is pending, and the status of the others.
QueueRow == [status : {"pending", "approved", "needs_correction"}, lacks : SUBSET Grounds]
Shown(row) == CASE row.status # "pending" -> row.status
                [] row.lacks = {} -> "green"
                [] OTHER -> "yellow"
Listing(rows) == [a \in QueueIds |-> Shown(rows[a])]

\* server.bulk: what a bulk action decided without grounds.
QueueInit ==
  /\ page = [at |-> "queue", list |-> None, error |-> FALSE, ask |-> None,
             running |-> FALSE, bulkError |-> FALSE,
             picker |-> FALSE, selected |-> FALSE, downloading |-> FALSE]
  /\ \E lacks \in [QueueIds -> SUBSET Grounds] :
       server = [rows |-> [a \in QueueIds |-> [status |-> "pending", lacks |-> lacks[a]]],
                 bulk |-> {}]
  /\ tasks = {Task("load", 1, None)} /\ stale = FALSE

Modal == page.ask # None \/ page.picker
ColorOf(action) == IF action = "approve" THEN "green" ELSE "yellow"
StatusAfter(action) == IF action = "approve" THEN "approved" ELSE "needs_correction"

\* Every pending application of the colour, whichever the tab and colour
\* filters show.
BulkTargets(action) ==
  IF page.list = None THEN {} ELSE {a \in QueueIds : page.list[a] = ColorOf(action)}

\* The applications and grounds that speak for the action as the tables are,
\* and those that are enough: nothing may be wanting to approve.
Speaking(action, ids, rows) ==
  {p \in ids \X Grounds : p[2] \in rows[p[1]].lacks <=> action = "correct"}
Grounded(action, a, pairs) ==
  IF action = "approve" THEN \A g \in Grounds : <<a, g>> \in pairs
                        ELSE \E g \in Grounds : <<a, g>> \in pairs

\* A run of the effect; what it still had under way is given up (cancelled).
QueueLoadReturns(t) ==
  /\ t.fn = "load" /\ t.wire # "sent" /\ End(t)
  /\ page' = IF t.wire = "ok" THEN [page EXCEPT !.list = t.reply]
             ELSE [page EXCEPT !.error = TRUE]
  /\ UNCHANGED <<server, stale>>

AskBulk(action) ==
  /\ ~Modal /\ BulkTargets(action) # {}
  /\ page' = [page EXCEPT !.ask = action]
  /\ UNCHANGED <<tasks, server, stale>>

CancelBulk ==
  /\ page.ask # None /\ ~page.running /\ page' = [page EXCEPT !.ask = None]
  /\ UNCHANGED <<tasks, server, stale>>

\* ids: what the page sends; left, found: how far triage is; ever, a ghost: what
\* has spoken for the action at some moment since.
RunBulkAction ==
  /\ page.ask # None /\ ~page.running /\ MayTap
  /\ page' = [page EXCEPT !.running = TRUE, !.bulkError = FALSE]
  /\ LET ids == BulkTargets(page.ask)
     IN Start(New("list", [action |-> page.ask, ids |-> ids, left |-> {}, found |-> {},
                           ever |-> Speaking(page.ask, ids, server.rows)]))
  /\ UNCHANGED <<server, stale>>

\* The answer says nothing more of what it was about.
Over(t, wire) == GoOn(t, [t EXCEPT !.wire = wire, !.arg = None])

\* TriageService.bulk lists what is pending,
ListPending(t) ==
  /\ Awaiting(t, {"list"})
  /\ LET ids == {a \in t.arg.ids : server.rows[a].status = "pending"}
     IN GoOn(t, [t EXCEPT !.fn = "triage", !.arg.ids = ids, !.arg.left = ids \X Grounds])
  /\ UNCHANGED <<page, server, stale>>

\* reads the grounds, each in a statement of its own and in no transaction (in
\* an order of its own, which is left open here),
ReadGround(t, p) ==
  /\ Awaiting(t, {"triage"}) /\ p \in t.arg.left
  /\ GoOn(t, [t EXCEPT !.arg.left = @ \ {p},
                !.arg.found = IF p[2] \in server.rows[p[1]].lacks THEN @ \cup {p[1]} ELSE @])
  /\ UNCHANGED <<page, server, stale>>

\* Mutant: the batch is what was listed, whatever triage has found.
ReTriageMutant(t) ==
  /\ Awaiting(t, {"triage"}) /\ t.arg.left = {}
  /\ GoOn(t, [t EXCEPT !.fn = "decide"])
  /\ UNCHANGED <<page, server, stale>>
\* keeps those of the colour,
ReTriage(t) ==
  /\ Awaiting(t, {"triage"}) /\ t.arg.left = {}
  /\ GoOn(t, [t EXCEPT !.fn = "decide", !.arg.found = {},
                !.arg.ids = IF t.arg.action = "approve" THEN @ \ t.arg.found
                                                        ELSE @ \cap t.arg.found])
  /\ UNCHANGED <<page, server, stale>>

\* and decides one after the other; each decision may be refused (as those whose
\* documents are being checked are), a failure of another kind ends the batch
\* without a result.
DecideBatch(t) ==
  /\ Awaiting(t, {"decide"})
  /\ \E done \in SUBSET {a \in t.arg.ids : server.rows[a].status = "pending"} :
       /\ server' = [rows |-> [a \in QueueIds |-> IF a \in done
                        THEN [server.rows[a] EXCEPT !.status = StatusAfter(t.arg.action)]
                        ELSE server.rows[a]],
                     bulk |-> server.bulk \cup
                        {a \in done : ~Grounded(t.arg.action, a, t.arg.ever)}]
       /\ \/ Over(t, "ok") /\ stale' = (stale \/ (done # {} /\ ReadUnderWay(t)))
          \/ Over(t, "failed") /\ stale' = (stale \/ done # {})
  /\ UNCHANGED page

\* The list is read again (reloadKey), unless the batch failed.
BulkReturns(t) ==
  /\ t.fn \in {"list", "triage", "decide"} /\ t.wire # "sent"
  /\ page' = [page EXCEPT !.running = FALSE, !.ask = None,
                          !.bulkError = t.wire = "failed"]
  /\ IF t.wire = "failed" THEN End(t)
     ELSE tasks' = {u \in tasks \ {t} : u.fn # "load"} \cup {Task("load", 1, None)}
  /\ UNCHANGED <<server, stale>>

\* BulkDownloadDialog: opening it clears the selection of before, which is done
\* here when it closes.
OpenPicker ==
  /\ ~Modal /\ page.list # None
  /\ page' = [page EXCEPT !.picker = TRUE]
  /\ UNCHANGED <<tasks, server, stale>>

\* One of those the filters show, or all of them; what is selected is told by
\* whether anything is.
ToggleSelected(any) ==
  /\ page.picker /\ any # page.selected
  /\ page' = [page EXCEPT !.selected = any]
  /\ UNCHANGED <<tasks, server, stale>>

DownloadSelected ==
  /\ page.picker /\ page.selected /\ ~page.downloading /\ MayTap
  /\ page' = [page EXCEPT !.downloading = TRUE]
  /\ Start(New("download", None))
  /\ UNCHANGED <<server, stale>>

\* It stays open when it failed or documents could not be included.
DownloadEnds(t, skipped) ==
  /\ t.fn = "download" /\ t.wire # "sent" /\ End(t)
  /\ page' = [page EXCEPT !.downloading = FALSE,
                          !.picker = skipped \/ t.wire = "failed",
                          !.selected = @ /\ (skipped \/ t.wire = "failed")]
  /\ UNCHANGED <<server, stale>>

ClosePicker ==
  /\ page.picker /\ ~page.downloading
  /\ page' = [page EXCEPT !.picker = FALSE, !.selected = FALSE]
  /\ UNCHANGED <<tasks, server, stale>>

ServeQueue(t) ==
  \/ Awaiting(t, {"load"}) /\ Serve(t, TRUE, server, Listing(server.rows))
  \/ Awaiting(t, {"download"}) /\ Serve(t, TRUE, server, None)
  \/ /\ Awaiting(t, {"list", "triage"}) /\ Over(t, "failed")
     /\ UNCHANGED <<page, server, stale>>

\* A room fills up, a document is added or checked, another manager decides, the
\* student sends the application again; an approved one is out of the queue.
QueueMoves(a, row) ==
  /\ server.rows[a] # row /\ server.rows[a].status # "approved"
  /\ IF row.status = "approved" THEN row.lacks = {}
     ELSE row.status = server.rows[a].status \/ row.lacks = server.rows[a].lacks
  /\ server' = [server EXCEPT !.rows[a] = row] /\ stale' = TRUE
  /\ LET Since(t) == IF t.fn \in {"list", "triage", "decide"} /\ t.wire = "sent"
                       THEN [t EXCEPT !.arg.ever =
                               @ \cup Speaking(t.arg.action, t.arg.ids, server'.rows)]
                       ELSE t
     IN tasks' = {Since(t) : t \in tasks}
  /\ UNCHANGED page

QueueNext ==
  \/ \E action \in {"approve", "correct"} : AskBulk(action)
  \/ CancelBulk \/ RunBulkAction \/ OpenPicker \/ DownloadSelected \/ ClosePicker
  \/ \E any \in BOOLEAN : ToggleSelected(any)
  \/ \E t \in tasks : \/ ServeQueue(t) \/ ListPending(t) \/ ReTriage(t) \/ DecideBatch(t)
                      \/ \E p \in QueueIds \X Grounds : ReadGround(t, p)
                      \/ QueueLoadReturns(t) \/ BulkReturns(t)
                      \/ \E skipped \in BOOLEAN : DownloadEnds(t, skipped)
  \/ \E a \in QueueIds, row \in QueueRow : QueueMoves(a, row)

QueueBusy == page.running \/ page.downloading \/ (page.list = None /\ ~page.error)
QueueAgree == page.list # None /\ ~page.error => page.list = Listing(server.rows)

\* However old the list on the screen is, and though the tables change between
\* the statements of ApproveGreen's triage: a bulk approval decides only what
\* was in order on every ground, a bulk correction only what was at fault on
\* some, each at some moment after the manager confirmed (not all at one).
BulkIsFresh == page.at = "queue" => server.bulk = {}

------------------------------------------------------------------------------
\* ApplicationAdminDetailPage

\* server.gender: which rooms are for the other gender; room: the one assigned.
ReviewInit ==
  /\ page = [at |-> "review", app |-> None, rooms |-> None, room |-> None,
             panel |-> None, comment |-> FALSE, busy |-> FALSE, error |-> FALSE,
             actionError |-> FALSE, editing |-> None, saving |-> FALSE,
             gender |-> FALSE, decided |-> None, left |-> FALSE]
  /\ \E s \in {"pending", "approved"}, p \in PlaceIds \cup {None}, g \in SUBSET PlaceIds :
       server = [status |-> s, preferred |-> p, room |-> None, gender |-> g]
  /\ tasks = {Task("load", 1, None)} /\ stale = FALSE

Reviewing == page.app # None /\ ~page.error /\ ~page.left
CanDecide == Reviewing /\ page.app.status = "pending"
Covered == page.editing # None

\* load: the application, then the rooms of its dormitory, of which the one
\* wished for is selected; the decision may be taken before that.
ReviewLoadReturns(t) ==
  /\ t.fn = "load" /\ t.wire # "sent"
  /\ IF t.wire = "failed" THEN End(t) /\ page' = [page EXCEPT !.error = TRUE]
     ELSE /\ GoOn(t, [New("rooms", None) EXCEPT !.arg = t.reply.preferred])
          /\ page' = [page EXCEPT !.app = t.reply]
  /\ UNCHANGED <<server, stale>>

\* Without the students or the dormitory there is an error; without the rooms,
\* none to choose; without the profile, the student's gender is not known.
RoomsReturn(t) ==
  /\ t.fn = "rooms" /\ t.wire # "sent" /\ End(t)
  /\ \/ \E known \in BOOLEAN :
          page' = [page EXCEPT !.rooms = IF t.wire = "ok" THEN t.reply ELSE @,
                               !.room = t.arg, !.gender = known]
     \/ t.wire = "failed" /\ page' = [page EXCEPT !.error = TRUE]
  /\ UNCHANGED <<server, stale>>

\* handleSelectRoom: a room for the other gender opens the restrictions instead.
HandleSelectRoom(r) ==
  /\ CanDecide /\ page.rooms # None /\ ~Covered
  /\ page' = IF page.gender /\ r \in page.rooms THEN [page EXCEPT !.editing = r]
             ELSE [page EXCEPT !.room = IF @ = r THEN None ELSE r]
  /\ UNCHANGED <<tasks, server, stale>>

\* RoomRestrictionsDialog
SaveRestrictions ==
  /\ Covered /\ ~page.saving /\ MayTap
  /\ page' = [page EXCEPT !.saving = TRUE]
  /\ Start(New("restrictions", page.editing))
  /\ UNCHANGED <<server, stale>>

CloseRestrictions ==
  /\ Covered /\ ~page.saving /\ page' = [page EXCEPT !.editing = None]
  /\ UNCHANGED <<tasks, server, stale>>

RestrictionsReturn(t) ==
  /\ t.fn = "restrictions" /\ t.wire # "sent" /\ End(t)
  /\ page' = [page EXCEPT !.saving = FALSE,
       !.rooms = IF t.wire = "ok" THEN @ \ {t.arg} ELSE @,
       !.editing = IF t.wire = "ok" THEN None ELSE @]
  /\ UNCHANGED <<server, stale>>

\* The panel of the decisions that need a comment; resetPanel is not disabled
\* while one is under way.
OpenPanel(p) ==
  /\ ~Covered /\ page.panel # p
  /\ IF p = "cancel" THEN Reviewing /\ page.app.status = "approved" ELSE CanDecide
  /\ page' = [page EXCEPT !.panel = p]
  /\ UNCHANGED <<tasks, server, stale>>
WriteComment ==
  /\ Reviewing /\ page.panel # None /\ ~page.comment /\ ~Covered
  /\ page' = [page EXCEPT !.comment = TRUE]
  /\ UNCHANGED <<tasks, server, stale>>
ResetPanel ==
  /\ Reviewing /\ page.panel # None /\ ~Covered
  /\ page' = [page EXCEPT !.panel = None, !.comment = FALSE, !.actionError = FALSE]
  /\ UNCHANGED <<tasks, server, stale>>

Verdict == [approve |-> "approved", reject |-> "rejected",
            correction |-> "needs_correction", cancel |-> "rejected"]
HandleDecision(d) ==
  /\ ~page.busy /\ ~Covered /\ MayTap
  /\ IF d = "approve" THEN CanDecide ELSE Reviewing /\ page.panel = d /\ page.comment
  /\ page' = [page EXCEPT !.busy = TRUE, !.actionError = FALSE]
  /\ Start(New("decision", [to |-> d, room |-> IF d = "approve" THEN page.room ELSE None]))
  /\ UNCHANGED <<server, stale>>

\* Every decision leads back to the queue.
DecisionReturns(t) ==
  /\ t.fn = "decision" /\ t.wire # "sent" /\ End(t)
  /\ page' = [page EXCEPT !.busy = FALSE, !.actionError = t.wire = "failed",
                !.left = t.wire = "ok", !.decided = IF t.wire = "ok" THEN t.arg ELSE None]
  /\ UNCHANGED <<server, stale>>

\* Decide takes the preferred room when it is sent none, and any other only for
\* the student's gender; CancelApproved takes back an approved application.
Assigned(arg) == IF arg.room = None THEN server.preferred ELSE arg.room
ServeReview(t) ==
  \/ Awaiting(t, {"load"}) /\ Serve(t, TRUE, server, server)
  \/ Awaiting(t, {"rooms"}) /\ Serve(t, TRUE, server, server.gender)
  \/ /\ Awaiting(t, {"restrictions"})
     /\ Serve(t, TRUE, [server EXCEPT !.gender = @ \ {t.arg}], None)
  \/ /\ Awaiting(t, {"decision"})
     /\ CASE t.arg.to = "approve" ->
               Serve(t, server.status = "pending" /\ Assigned(t.arg) \notin server.gender,
                     [server EXCEPT !.status = "approved", !.room = Assigned(t.arg)], None)
          [] t.arg.to = "cancel" ->
               Serve(t, server.status = "approved",
                     [server EXCEPT !.status = "rejected", !.room = None], None)
          [] OTHER ->
               Serve(t, server.status = "pending",
                     [server EXCEPT !.status = Verdict[t.arg.to], !.room = None,
                        !.preferred = IF t.arg.to = "correction" THEN None ELSE @], None)

DecidedElsewhere(s) ==
  /\ server.status = "pending" /\ Elsewhere([server EXCEPT !.status = s])

ReviewNext ==
  \/ \E r \in PlaceIds : HandleSelectRoom(r)
  \/ SaveRestrictions \/ CloseRestrictions \/ WriteComment \/ ResetPanel
  \/ \E p \in {"reject", "correction", "cancel"} : OpenPanel(p)
  \/ \E d \in {"approve", "reject", "correction", "cancel"} : HandleDecision(d)
  \/ \E s \in {"approved", "rejected"} : DecidedElsewhere(s)
  \/ \E t \in tasks : \/ ServeReview(t) \/ ReviewLoadReturns(t) \/ RoomsReturn(t)
                      \/ RestrictionsReturn(t) \/ DecisionReturns(t)

ReviewBusy == ~page.left /\ (page.busy \/ page.saving \/ (page.app = None /\ ~page.error))
\* Leaving means decided, and approving a room that was on the screen, or none
\* to be placed later, or the one wished for.
ReviewDone ==
  page.left /\ ~stale =>
    /\ server.status = Verdict[page.decided.to]
    /\ page.decided.to = "approve" => server.room \in {page.decided.room, server.preferred}
ReviewAgree ==
  page.app # None /\ ~page.left /\ ~page.error =>
    /\ page.app.status = server.status
    /\ page.rooms # None => page.rooms = server.gender

------------------------------------------------------------------------------
\* The badges of the sidebar

\* server.created: when each application arrived (0: not yet) by the server's
\* clock, whose last tick is server.clock; page.seen: what the browser's clock
\* said at the last look, page.looked, a ghost, what the server's said; counted:
\* the badge.
BadgeInit ==
  /\ page = [at |-> "badge", seen |-> 0, looked |-> 0, counted |-> {}, failed |-> FALSE]
  /\ server = [created |-> [a \in QueueIds |-> 0], clock |-> 0]
  /\ tasks = {Task("load", 1, None)} /\ stale = FALSE

\* Every 30 seconds, a failure keeping the count.
Poll ==
  /\ MayTap /\ Start(New("load", page.seen)) /\ UNCHANGED <<page, server, stale>>

\* Mutant: the time of the last look is read before the call.
PollReturnsMutant(t) ==
  /\ t.fn = "load" /\ t.wire # "sent" /\ End(t)
  /\ page' = IF t.wire = "failed" THEN [page EXCEPT !.failed = TRUE]
             ELSE [page EXCEPT !.failed = FALSE,
                     !.counted = {a \in QueueIds : t.reply[a] > (IF t.arg = None THEN 0 ELSE t.arg)}]
  /\ UNCHANGED <<server, stale>>
PollReturns(t) ==
  /\ t.fn = "load" /\ t.wire # "sent" /\ End(t)
  /\ page' = IF t.wire = "failed" THEN [page EXCEPT !.failed = TRUE]
             ELSE [page EXCEPT !.failed = FALSE,
                     !.counted = {a \in QueueIds : t.reply[a] > page.seen}]
  /\ UNCHANGED <<server, stale>>

\* The queue has been loaded: the badge polls at once.  Date.now() may be behind
\* the server's clock, or ahead of it (by one arrival, a bound).
MarkApplicationsSeenNow(now) ==
  /\ MayTap
  /\ page' = [page EXCEPT !.seen = now, !.looked = server.clock]
  /\ Start(New("load", now))
  /\ UNCHANGED <<server, stale>>

ServePoll(t) == Awaiting(t, {"load"}) /\ Serve(t, TRUE, server, server.created)

ApplicationArrives(a) ==
  /\ server.created[a] = 0
  /\ Elsewhere([created |-> [server.created EXCEPT ![a] = server.clock + 1],
                clock |-> server.clock + 1])

BadgeNext ==
  \/ Poll \/ \E now \in 0..(server.clock + 1) : MarkApplicationsSeenNow(now)
  \/ \E a \in QueueIds : ApplicationArrives(a)
  \/ \E t \in tasks : ServePoll(t) \/ PollReturns(t)

\* In whatever order polls overtake each other, once one of them has come back
\* the badge counts nothing that arrived before the time the browser wrote down
\* at the last look, and nothing that had arrived by then unless the browser's
\* clock was behind the server's (usePendingApplicationsCount reads the time
\* after its call; created_at is the server's, markApplicationsSeenNow is not).
BadgeCleared ==
  page.at = "badge" /\ tasks = {} /\ ~page.failed =>
    \A a \in page.counted :
      /\ server.created[a] > page.seen
      /\ page.seen >= page.looked => server.created[a] > page.looked
=============================================================================
