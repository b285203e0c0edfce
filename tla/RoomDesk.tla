------------------------------ MODULE RoomDesk ------------------------------
(***************************************************************************)
(* The manager's side of the rooms: RoomResidentsView, RoomFormPage and    *)
(* PlaceStudentPage.                                                       *)
(***************************************************************************)
EXTENDS Screen

CONSTANTS Tenants, Houses

------------------------------------------------------------------------------
\* RoomResidentsView of a room with one bed; the room of another dormitory is
\* told by the dormitory.

Here == "here"
\* A list that has been read is told from one that has not.
ASSUME ResidentsAssumption == None \notin [Tenants -> {Here, "nowhere"} \cup Houses]
ASSUME PlaceAssumption == \A s \in SUBSET Tenants : s # None

ResidentsInit ==
  /\ page = [at |-> "residents", list |-> None, error |-> FALSE, chosen |-> None,
             assigning |-> FALSE, actionError |-> FALSE, release |-> None,
             releasing |-> FALSE, transfer |-> None, house |-> None, offered |-> None,
             room |-> None, transferring |-> FALSE, details |-> None, loading |-> FALSE]
  /\ \E first \in Tenants \cup {None} :
       server = [s \in Tenants |-> IF s = first THEN Here ELSE "nowhere"]
  /\ tasks = {Task("load", 1, None)} /\ stale = FALSE

LivingHere(where) == {s \in Tenants : where[s] = Here}
Loaded == page.list # None /\ ~page.error
Uncovered == Loaded /\ page.release = None /\ page.details = None

ResidentsLoadReturns(t) ==
  /\ t.fn = "load" /\ t.wire # "sent" /\ End(t)
  /\ page' = IF t.wire = "ok" THEN [page EXCEPT !.list = t.reply]
             ELSE [page EXCEPT !.error = TRUE]
  /\ UNCHANGED <<server, stale>>

\* Offered: those with a settled application here who do not live here.
ChooseStudent(s) ==
  /\ Uncovered /\ page.list[s] # Here /\ page.chosen # s
  /\ page' = [page EXCEPT !.chosen = s]
  /\ UNCHANGED <<tasks, server, stale>>

HandleAssign ==
  /\ Uncovered /\ page.chosen # None /\ ~page.assigning /\ MayTap
  /\ page' = [page EXCEPT !.assigning = TRUE, !.actionError = FALSE]
  /\ Start(New("assign", page.chosen))
  /\ UNCHANGED <<server, stale>>

AskRelease(s) ==
  /\ Uncovered /\ page.list[s] = Here
  /\ page' = [page EXCEPT !.release = s]
  /\ UNCHANGED <<tasks, server, stale>>

CancelRelease ==
  /\ page.release # None /\ ~page.releasing /\ page' = [page EXCEPT !.release = None]
  /\ UNCHANGED <<tasks, server, stale>>

HandleRelease ==
  /\ Loaded /\ page.release # None /\ ~page.releasing /\ MayTap
  /\ page' = [page EXCEPT !.releasing = TRUE, !.actionError = FALSE]
  /\ Start(New("release", page.release))
  /\ UNCHANGED <<server, stale>>

\* The form is opened on the dormitory of the room; its rooms are asked for
\* whenever the choice changes, and no reply is given up.
OpenTransfer(s, d) ==
  /\ Uncovered /\ page.list[s] = Here /\ MayTap
  /\ page.transfer # s \/ page.house # d
  /\ page' = [page EXCEPT !.transfer = s, !.house = d, !.room = None]
  /\ IF page.house = d THEN UNCHANGED tasks ELSE Start(New("rooms", d))
  /\ UNCHANGED <<server, stale>>

TransferRoomsReturn(t, ok) ==
  /\ Awaiting(t, {"rooms"}) /\ End(t)
  /\ page' = [page EXCEPT !.offered = IF ok THEN t.arg ELSE None]
  /\ UNCHANGED <<server, stale>>

ChooseRoom ==
  /\ Uncovered /\ page.transfer # None /\ page.offered # None /\ page.room # page.offered
  /\ page' = [page EXCEPT !.room = page.offered]
  /\ UNCHANGED <<tasks, server, stale>>

HandleTransfer ==
  /\ Uncovered /\ page.transfer # None /\ page.room # None /\ ~page.transferring /\ MayTap
  /\ page.list[page.transfer] = Here
  /\ page' = [page EXCEPT !.transferring = TRUE, !.actionError = FALSE]
  /\ Start(New("transfer", [student |-> page.transfer, to |-> page.room]))
  /\ UNCHANGED <<server, stale>>

\* handleAssign, handleRelease, handleTransfer: the room is read again.
SeatReturns(t) ==
  /\ t.fn \in {"assign", "release", "transfer"} /\ t.wire # "sent"
  /\ LET ok(fn) == t.wire = "ok" /\ t.fn = fn
     IN page' = [page EXCEPT !.actionError = t.wire = "failed",
          !.assigning = @ /\ t.fn # "assign", !.releasing = @ /\ t.fn # "release",
          !.transferring = @ /\ t.fn # "transfer",
          !.chosen = IF ok("assign") THEN None ELSE @,
          !.release = IF ok("release") THEN None ELSE @,
          !.transfer = IF ok("transfer") THEN None ELSE @]
  /\ IF t.wire = "ok" THEN GoOn(t, New("load", None)) ELSE End(t)
  /\ UNCHANGED <<server, stale>>

\* The card of a resident; closing it does not give its requests up.
OpenDetails(s) ==
  /\ Uncovered /\ page.list[s] = Here /\ MayTap
  /\ page' = [page EXCEPT !.details = s, !.loading = TRUE]
  /\ Start(New("profile", s))
  /\ UNCHANGED <<server, stale>>
CloseDetails ==
  /\ page.details # None /\ page' = [page EXCEPT !.details = None]
  /\ UNCHANGED <<tasks, server, stale>>
DetailsArrive(t) ==
  /\ Awaiting(t, {"profile"}) /\ End(t)
  /\ page' = [page EXCEPT !.loading = FALSE]
  /\ UNCHANGED <<server, stale>>

\* AddResident takes who lives nowhere while there is a bed; TransferResident
\* and MoveOut, who lives here.
ServeResidents(t) ==
  \/ Awaiting(t, {"load"}) /\ Serve(t, TRUE, server, server)
  \/ /\ Awaiting(t, {"assign"})
     /\ Serve(t, server[t.arg] = "nowhere" /\ LivingHere(server) = {},
              [server EXCEPT ![t.arg] = Here], None)
  \/ /\ Awaiting(t, {"release"})
     /\ Serve(t, server[t.arg] = Here, [server EXCEPT ![t.arg] = "nowhere"], None)
  \/ /\ Awaiting(t, {"transfer"})
     /\ Serve(t, server[t.arg.student] = Here,
              [server EXCEPT ![t.arg.student] = t.arg.to], None)

ResidentMoves(s) ==
  /\ \/ server[s] = Here /\ Elsewhere([server EXCEPT ![s] = "nowhere"])
     \/ server[s] = "nowhere" /\ LivingHere(server) = {} /\ Elsewhere([server EXCEPT ![s] = Here])

ResidentsNext ==
  \/ \E s \in Tenants : \/ ChooseStudent(s) \/ AskRelease(s) \/ OpenDetails(s)
                        \/ ResidentMoves(s) \/ \E d \in Houses : OpenTransfer(s, d)
  \/ HandleAssign \/ HandleRelease \/ CancelRelease \/ ChooseRoom \/ HandleTransfer
  \/ CloseDetails
  \/ \E t \in tasks : \/ ServeResidents(t) \/ ResidentsLoadReturns(t) \/ SeatReturns(t)
                      \/ DetailsArrive(t) \/ \E ok \in BOOLEAN : TransferRoomsReturn(t, ok)

ResidentsBusy ==
  \/ page.assigning \/ page.releasing \/ page.transferring \/ page.loading
  \/ page.list = None /\ ~page.error
ResidentsAgree == Loaded => page.list = server

------------------------------------------------------------------------------
\* RoomFormPage; "old", "v1", "v2" are the contents of its two halves.

FormInit ==
  /\ \E edit \in BOOLEAN :
       /\ page = [at |-> "roomForm", edit |-> edit, text |-> IF edit THEN None ELSE "v1",
                  error |-> FALSE, submitting |-> FALSE, left |-> None]
       /\ server = IF edit THEN [data |-> "old", rules |-> "old"] ELSE None
       /\ tasks = IF edit THEN {Task("load", 1, None)} ELSE {}
  /\ stale = FALSE

RoomFormLoads(t, ok) ==
  /\ Awaiting(t, {"load"}) /\ End(t)
  /\ page' = IF ok THEN [page EXCEPT !.text = "old"] ELSE [page EXCEPT !.left = "error"]
  /\ UNCHANGED <<server, stale>>

\* The fields stay open while it is saved; what is sent is what they held.
TypeRoom(v) ==
  /\ page.left = None /\ page.text # v /\ page' = [page EXCEPT !.text = v]
  /\ UNCHANGED <<tasks, server, stale>>

SubmitRoom ==
  /\ page.left = None /\ page.text # None /\ ~page.submitting /\ MayTap
  /\ page' = [page EXCEPT !.submitting = TRUE, !.error = FALSE]
  /\ Start(New("room", [data |-> page.text, rules |-> page.text]))
  /\ UNCHANGED <<server, stale>>

\* The room first, then its restrictions.
RoomSaved(t) ==
  /\ t.fn = "room" /\ t.wire = "ok" /\ GoOn(t, New("rules", t.arg))
  /\ UNCHANGED <<page, server, stale>>

RoomFormReturns(t) ==
  /\ \/ t.fn = "room" /\ t.wire = "failed"
     \/ t.fn = "rules" /\ t.wire # "sent"
  /\ End(t)
  /\ page' = [page EXCEPT !.submitting = FALSE, !.error = t.wire = "failed",
                          !.left = IF t.wire = "ok" THEN t.arg.data ELSE @]
  /\ UNCHANGED <<server, stale>>

\* A room of that number must not exist when it is created; restrictions that
\* exclude a resident are refused.
ServeRoomForm(t) ==
  \/ /\ Awaiting(t, {"room"})
     /\ Serve(t, page.edit \/ server = None,
              [data |-> t.arg.data,
               rules |-> IF server = None THEN "none" ELSE server.rules], None)
  \/ /\ Awaiting(t, {"rules"})
     /\ Serve(t, TRUE, [server EXCEPT !.rules = t.arg.rules], None)

FormNext ==
  \/ \E v \in {"v1", "v2"} : TypeRoom(v)
  \/ SubmitRoom
  \/ \E t \in tasks : \/ ServeRoomForm(t) \/ RoomSaved(t) \/ RoomFormReturns(t)
                      \/ \E ok \in BOOLEAN : RoomFormLoads(t, ok)

\* Leaving the form means that both halves of one version are stored.
FormDone ==
  page.left \notin {None, "error"} => server = [data |-> page.left, rules |-> page.left]

------------------------------------------------------------------------------
\* PlaceStudentPage; a dormitory is told from its one room only by the field.
\* server.where: of each student; server.barred: rooms for the other gender.

PlaceInit ==
  /\ page = [at |-> "place", step |-> "student", students |-> None, error |-> FALSE,
             student |-> None, house |-> None, rooms |-> None, loading |-> FALSE,
             room |-> None, editing |-> None, saving |-> FALSE, placing |-> FALSE,
             placeError |-> FALSE, success |-> None, dormitories |-> FALSE,
             dormitoriesError |-> FALSE]
  /\ \E b \in SUBSET Houses :
       server = [where |-> [s \in Tenants |-> None], barred |-> b]
  /\ tasks = {Task("load", 1, None), Task("dormitories", 1, None)} /\ stale = FALSE

AtPlacement == page.step = "placement" /\ page.student # None /\ page.editing = None

PlaceLoadReturns(t) ==
  /\ t.fn = "load" /\ t.wire # "sent" /\ End(t)
  /\ page' = IF t.wire = "ok" THEN [page EXCEPT !.students = t.reply]
             ELSE [page EXCEPT !.error = TRUE]
  /\ UNCHANGED <<server, stale>>

\* The dormitories are asked for once.
HousesReturn(t, ok) ==
  /\ Awaiting(t, {"dormitories"}) /\ End(t)
  /\ page' = IF ok THEN [page EXCEPT !.dormitories = TRUE]
             ELSE [page EXCEPT !.dormitoriesError = TRUE]
  /\ UNCHANGED <<server, stale>>

\* The profile and the benefits of the student, whose replies nothing gives up,
\* only warn about rooms.
SelectStudent(s) ==
  /\ page.step = "student" /\ page.students # None /\ s \in page.students
  /\ page.student # s
  /\ page' = [page EXCEPT !.student = s, !.placeError = FALSE, !.success = None]
  /\ UNCHANGED <<tasks, server, stale>>

GoToPlacement ==
  /\ page.step = "student" /\ page.student # None
  /\ page' = [page EXCEPT !.step = "placement"]
  /\ UNCHANGED <<tasks, server, stale>>

\* Mutant: a reply for the dormitory before is still taken.
InHouseMutant(p, d) ==
  /\ page' = [p EXCEPT !.house = d, !.room = None,
                !.rooms = IF d = None THEN None ELSE @, !.loading = @ \/ d # None]
  /\ tasks' = tasks \cup (IF d = None THEN {} ELSE {Task("rooms", 1, d)})
  /\ UNCHANGED <<server, stale>>
\* The effect on the dormitory gives up the rooms of the one before.
InHouse(p, d) ==
  /\ page' = [p EXCEPT !.house = d, !.room = None,
                !.rooms = IF d = None THEN None ELSE @, !.loading = @ \/ d # None]
  /\ tasks' = {t \in tasks : t.fn # "rooms"} \cup
       IF d = None THEN {} ELSE {Task("rooms", 1, d)}
  /\ UNCHANGED <<server, stale>>

BackToStudents == AtPlacement /\ InHouse([page EXCEPT !.step = "student"], None)
ChooseHouse(d) ==
  /\ AtPlacement /\ page.dormitories /\ page.house = None /\ MayTap
  /\ InHouse([page EXCEPT !.placeError = FALSE], d)
ChangeHouse == AtPlacement /\ page.house # None /\ InHouse(page, None)

HouseRoomsReturn(t) ==
  /\ t.fn = "rooms" /\ t.wire # "sent" /\ End(t)
  /\ page' = [page EXCEPT !.loading = FALSE,
       !.rooms = IF t.wire = "ok" THEN [of |-> t.arg, barred |-> t.arg \in t.reply] ELSE None]
  /\ UNCHANGED <<server, stale>>

SelectPlace ==
  /\ AtPlacement /\ page.house # None /\ ~page.loading /\ page.rooms # None
  /\ page' = IF page.rooms.barred THEN [page EXCEPT !.editing = page.rooms.of]
             ELSE [page EXCEPT !.room = IF @ = None THEN page.rooms.of ELSE None]
  /\ UNCHANGED <<tasks, server, stale>>

RelaxRoom ==
  /\ page.editing # None /\ ~page.saving /\ MayTap
  /\ page' = [page EXCEPT !.saving = TRUE] /\ Start(New("relax", page.editing))
  /\ UNCHANGED <<server, stale>>
RelaxReturns(t) ==
  /\ t.fn = "relax" /\ t.wire # "sent" /\ End(t)
  /\ page' = IF t.wire = "failed" THEN [page EXCEPT !.saving = FALSE]
             ELSE [page EXCEPT !.saving = FALSE, !.editing = None,
                     !.rooms = IF @ # None /\ @.of = t.arg
                                 THEN [@ EXCEPT !.barred = FALSE] ELSE @]
  /\ UNCHANGED <<server, stale>>
LeaveRestrictions ==
  /\ page.editing # None /\ ~page.saving /\ page' = [page EXCEPT !.editing = None]
  /\ UNCHANGED <<tasks, server, stale>>

HandlePlace ==
  /\ AtPlacement /\ page.room # None /\ ~page.placing /\ MayTap
  /\ page' = [page EXCEPT !.placing = TRUE, !.placeError = FALSE]
  /\ Start(New("place", [student |-> page.student, house |-> page.room]))
  /\ UNCHANGED <<server, stale>>

\* Back to the list, wherever the manager has gone meanwhile.
HandlePlaceReturns(t) ==
  /\ t.fn = "place" /\ t.wire # "sent"
  /\ IF t.wire = "failed"
       THEN End(t) /\ page' = [page EXCEPT !.placing = FALSE, !.placeError = TRUE]
       ELSE /\ tasks' = {u \in tasks \ {t} : u.fn # "rooms"} \cup {New("load", None)}
            /\ page' = [page EXCEPT !.placing = FALSE, !.success = t.arg, !.student = None,
                          !.house = None, !.room = None, !.rooms = None, !.step = "student"]
  /\ UNCHANGED <<server, stale>>

ServePlace(t) ==
  \/ /\ Awaiting(t, {"load"})
     /\ Serve(t, TRUE, server, {s \in Tenants : server.where[s] = None})
  \/ Awaiting(t, {"rooms"}) /\ Serve(t, TRUE, server, server.barred)
  \/ /\ Awaiting(t, {"relax"})
     /\ Serve(t, TRUE, [server EXCEPT !.barred = @ \ {t.arg}], None)
  \/ /\ Awaiting(t, {"place"})
     /\ Serve(t, server.where[t.arg.student] = None /\ t.arg.house \notin server.barred,
              [server EXCEPT !.where[t.arg.student] = t.arg.house], None)

PlaceNext ==
  \/ \E s \in Tenants : SelectStudent(s)
  \/ \E d \in Houses : ChooseHouse(d)
  \/ GoToPlacement \/ BackToStudents \/ ChangeHouse \/ SelectPlace \/ RelaxRoom
  \/ LeaveRestrictions \/ HandlePlace
  \/ \E t \in tasks : \/ ServePlace(t) \/ PlaceLoadReturns(t) \/ HouseRoomsReturn(t)
                      \/ RelaxReturns(t) \/ HandlePlaceReturns(t)
                      \/ \E ok \in BOOLEAN : HousesReturn(t, ok)

AwaitingStudents == page.step = "student" /\ page.students = None
AwaitingHouses ==
  page.step = "placement" /\ page.house = None /\ ~page.dormitories
PlaceWorks == page.placing \/ page.saving \/ (page.house # None /\ page.loading)
PlaceBusy == PlaceWorks \/ AwaitingStudents \/ AwaitingHouses
\* "Loading" stays under the message that the first reading of the students, or
\* of the dormitories, failed.
PlaceUnread ==
  /\ ~PlaceWorks
  /\ AwaitingStudents => page.error
  /\ AwaitingHouses => page.dormitoriesError
\* The success names who was placed and where.
PlaceDone == page.success # None => server.where[page.success.student] = page.success.house
\* Offered are those who live nowhere.
PlaceAgree ==
  page.students # None /\ ~page.error =>
    page.students = {s \in Tenants : server.where[s] = None}

\* The room that is marked as chosen is one of the dormitory named above it,
\* so that nobody is placed in a house that is not on the screen: replies for
\* the dormitory of before are given up (the cancelled flag).
RoomOfHouse == page.at = "place" /\ page.room # None => page.room = page.house
=============================================================================
