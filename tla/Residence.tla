----------------------------- MODULE Residence -----------------------------
(***************************************************************************)
(* Living in a dormitory: RoomService, TransferRequestService and          *)
(* ExitRequestService over the tables rooms, room_residents,               *)
(* transfer_requests and exit_requests.                                    *)
(*                                                                         *)
(* A service call that writes in several transactions is a handler: its    *)
(* checks are one action, every later statement is an action of its own,   *)
(* and other requests run in between.  Only the two Decide calls hold a    *)
(* row lock, on the request and not on the room.                           *)
(***************************************************************************)
EXTENDS Naturals, FiniteSets

CONSTANTS
  Students,       \* users with the role "student"
  Rooms,
  Rows,           \* identifiers of room_residents, drawn in this order
  Transfers, Exits,               \* identifiers of the two kinds of request
  Capacities,     \* what a form may put into rooms.capacity
  Profiles,       \* gender, course, degree and benefits, which rooms restrict
  Enrolled,       \* the profiles the students start with
  NextYear,       \* what the rollover of July 30 makes of a profile
  Restrictions,   \* what rooms.restrictions may say: the profiles it admits
  Edited,         \* bound: the rooms that are created, changed, deleted
  MaxRequests,    \* bound: requests for a transfer or an exit that are made
  MaxSaves,       \* bound: how often profiles are saved or rolled over
  MaxHandlers,    \* bound: calls that are between two statements at a time
  None            \* SQL NULL

ASSUME StudentsFinite == IsFiniteSet(Students)
ASSUME RowsAssumption == Rows \subseteq Nat /\ IsFiniteSet(Rows)
ASSUME CapacitiesAssumption == Capacities \subseteq Nat \ {0}
ASSUME RestrictionsAssumption ==
  /\ Profiles \in Restrictions /\ Restrictions \subseteq SUBSET Profiles
  /\ Enrolled \in [Students -> Profiles]
  /\ NextYear \in [Profiles -> Profiles]
ASSUME BoundsAssumption ==
  /\ Edited \subseteq Rooms
  /\ MaxRequests \in Nat /\ MaxSaves \in Nat /\ MaxHandlers \in Nat \ {0}
ASSUME NoneAssumption ==
  None \notin Students \cup Rooms \cup Rows \cup Transfers \cup Exits

VARIABLES
  present,        \* rooms: "none" before the INSERT, "there", "gone"
  capacity,       \* rooms.capacity
  admits,         \* rooms.restrictions
  profile,        \* student_profiles with student_benefits
  saves,          \* how often they were saved, for the bound
  stay,           \* room_residents
  transfer,       \* transfer_requests
  exit,           \* exit_requests
  handlers        \* requests between two of their transactions

(***************************************************************************)
(* History variables, which no service reads: rooms that two requests were  *)
(* after at once or whose request died half-way; rooms whose capacity was  *)
(* lowered below what they had let in; rooms, not of the first kind, whose *)
(* restrictions a resident, or somebody on the way there, stopped to       *)
(* satisfy with a new profile; rooms to which a transfer by the staff      *)
(* failed, though they were neither of the first nor of the third kind,    *)
(* with its student left in no room, or that were deleted, though not of   *)
(* the first kind, with somebody in them; transfer requests whose student  *)
(* an approval has moved; requests whose handler died between the room and *)
(* the decision.                                                           *)
(***************************************************************************)
VARIABLES contended, lowered, outgrown, harmed, moved, lost

roomVars == <<present, capacity, admits, profile, saves>>
ghostVars == <<contended, lowered, outgrown, harmed, moved, lost>>
vars == <<roomVars, stay, transfer, exit, handlers, ghostVars>>

Steps == {"add.insert", "restrict.save", "room.delete",
          "transfer.leave", "transfer.claim", "transfer.insert",
          "request.insert", "approve.leave", "approve.claim",
          "approve.insert", "approve.decide", "exit.insert", "exit.leave"}

Handler == [step : Steps, student : Students \cup {None},
            row : Rows \cup {None}, room : Rooms \cup {None},
            req : Transfers \cup Exits \cup {None},
            admits : SUBSET Profiles]

\* Columns are NOT NULL, which leaves None for rows that are not there.
NoStay == [state |-> "none", student |-> None, room |-> None]
GoneStay == [NoStay EXCEPT !.state = "gone"]
Stay == {NoStay, GoneStay}
          \cup [state : {"active", "out"}, student : Students, room : Rooms]

Decision == {"pending", "approved", "rejected"}
\* rooms: current_room_id, and requested_room_id unless it is NULL.
NoTransfer == [status |-> "none", student |-> None, rooms |-> {}]
TransferRow == {NoTransfer}
  \cup [status : Decision, student : Students, rooms : SUBSET Rooms]
NoExit == [status |-> "none", row |-> None]
ExitRow == {NoExit} \cup [status : Decision, row : Rows]

TypeOK ==
  /\ present \in [Rooms -> {"none", "there", "gone"}]
  /\ capacity \in [Rooms -> Nat]
  /\ admits \in [Rooms -> SUBSET Profiles]
  /\ profile \in [Students -> Profiles] /\ saves \in Nat
  /\ stay \in [Rows -> Stay]
  /\ transfer \in [Transfers -> TransferRow]
  /\ exit \in [Exits -> ExitRow]
  /\ handlers \subseteq Handler
  /\ contended \subseteq Rooms
  /\ lowered \subseteq Rooms
  /\ outgrown \subseteq Rooms
  /\ harmed \subseteq Rooms
  /\ moved \subseteq Transfers
  /\ lost \subseteq Transfers \cup Exits

\* The rooms that nobody will edit are there from the start, with one seat.
Init ==
  /\ present = [r \in Rooms |-> IF r \in Edited THEN "none" ELSE "there"]
  /\ capacity = [r \in Rooms |-> IF r \in Edited THEN 0 ELSE 1]
  /\ admits = [r \in Rooms |-> Profiles]
  /\ profile = Enrolled /\ saves = 0
  /\ stay = [w \in Rows |-> NoStay]
  /\ transfer = [t \in Transfers |-> NoTransfer]
  /\ exit = [e \in Exits |-> NoExit]
  /\ handlers = {}
  /\ contended = {}
  /\ lowered = {}
  /\ outgrown = {}
  /\ harmed = {}
  /\ moved = {}
  /\ lost = {}

-----------------------------------------------------------------------------
(* Queries, and the steps that requests have in common. *)

Active(w) == stay[w].state = "active"
Lives(s, w) == Active(w) /\ stay[w].student = s
Housed(s) == \E w \in Rows : Lives(s, w)
Residents(r) == {w \in Rows : Active(w) /\ stay[w].room = r}
\* Calls whose check for a seat in r has passed.
Inserting(r) ==
  {h \in handlers :
     h.step \in {"add.insert", "transfer.insert", "approve.insert"}
     /\ h.room = r}
NextRow(w) == /\ stay[w].state = "none"
              /\ \A v \in Rows : stay[v].state = "none" => w <= v

\* Mutant: one resident too many passes.
FreeSeatMutant(r) == Cardinality(Residents(r)) <= capacity[r]

FreeSeat(r) == Cardinality(Residents(r)) < capacity[r]

\* checkStudentAgainstRestrictions: against the profile the student has now.
Admitted(s, r) == profile[s] \in admits[r]

\* RoomService.ValidateAssignable.
ValidateAssignable(s, r) ==
  /\ present[r] = "there"
  /\ ~Housed(s)
  /\ FreeSeat(r)
  /\ Admitted(s, r)

\* A request that needs a further statement starts, goes on, or ends.  The
\* room it is after is contended from the moment a second one is after it.
Begin(h) ==
  /\ Cardinality(handlers) < MaxHandlers
  /\ h \notin handlers
  /\ handlers' = handlers \cup {h}
  /\ contended' = contended \cup
       {r \in Rooms : h.room = r /\ \E g \in handlers : g.room = r}
Continue(h, step) ==
  /\ handlers' = (handlers \ {h}) \cup {[h EXCEPT !.step = step]}
  /\ UNCHANGED contended
End(h) == handlers' = handlers \ {h} /\ UNCHANGED contended

\* Somebody has lost a room with no excuse for it.
Harm(r, some) == harmed' = IF some THEN harmed \cup {r} ELSE harmed

Request(step, s, w, r) ==
  [step |-> step, student |-> s, row |-> w, room |-> r, req |-> None,
   admits |-> {}]

\* UPDATE room_residents SET moved_out_at = now() WHERE moved_out_at IS NULL
CloseStay(w) == stay' = [stay EXCEPT ![w].state = "out"]

\* INSERT INTO room_residents: the partial unique index refuses a second
\* active row of the student and the foreign key a room that is gone, and
\* nothing counts the residents.
Insertable(s, r) == ~Housed(s) /\ present[r] = "there"
InsertStay(w, s, r) ==
  /\ NextRow(w)
  /\ stay' = [stay EXCEPT ![w] =
                [state |-> "active", student |-> s, room |-> r]]

-----------------------------------------------------------------------------
(* RoomService: the rooms. *)

CreateRoom(r, c) ==
  /\ present[r] = "none"
  /\ present' = [present EXCEPT ![r] = "there"]
  /\ capacity' = [capacity EXCEPT ![r] = c]
  /\ UNCHANGED <<admits, profile, saves, stay, transfer, exit, handlers,
                 ghostVars>>

\* Update: the new capacity is not compared with the residents.
UpdateRoom(r, c) ==
  /\ present[r] = "there" /\ r \in Edited
  /\ capacity[r] # c
  /\ capacity' = [capacity EXCEPT ![r] = c]
  /\ lowered' = IF c < Cardinality(Residents(r)) + Cardinality(Inserting(r))
                  THEN lowered \cup {r} ELSE lowered
  /\ contended' = IF \E g \in handlers : g.room = r
                    THEN contended \cup {r} ELSE contended
  /\ UNCHANGED <<present, admits, profile, saves, stay, transfer, exit,
                 handlers, outgrown, harmed, moved, lost>>

\* UpdateRestrictions: every resident satisfies them, then they are saved.
RestrictCheck(r, who) ==
  /\ present[r] = "there" /\ r \in Edited
  /\ admits[r] # who
  /\ \A w \in Residents(r) : profile[stay[w].student] \in who
  /\ Begin([Request("restrict.save", None, None, r) EXCEPT !.admits = who])
  /\ UNCHANGED <<roomVars, stay, transfer, exit, lowered, outgrown, harmed,
                 moved, lost>>
RestrictSave(h) ==
  /\ h.step = "restrict.save"
  /\ admits' = IF present[h.room] = "there"
                 THEN [admits EXCEPT ![h.room] = h.admits] ELSE admits
  /\ End(h)
  /\ UNCHANGED <<present, capacity, profile, saves, stay, transfer, exit,
                 lowered, outgrown, harmed, moved, lost>>

\* Delete: nobody lives there, then the row goes and its stays with it (ON
\* DELETE CASCADE), unless a request still refers to one of them.
DeleteCheck(r) ==
  /\ present[r] = "there" /\ r \in Edited
  /\ Residents(r) = {}
  /\ Begin(Request("room.delete", None, None, r))
  /\ UNCHANGED <<roomVars, stay, transfer, exit, lowered, outgrown, harmed,
                 moved, lost>>
Referenced(r) ==
  \/ \E t \in Transfers : r \in transfer[t].rooms
  \/ \E e \in Exits : exit[e].row # None /\ stay[exit[e].row].room = r
DeleteRow(h) ==
  /\ h.step = "room.delete"
  /\ present[h.room] = "there" /\ ~Referenced(h.room)
  /\ present' = [present EXCEPT ![h.room] = "gone"]
  /\ stay' = [w \in Rows |-> IF stay[w].room = h.room THEN GoneStay
                                                      ELSE stay[w]]
  /\ Harm(h.room, Residents(h.room) # {} /\ h.room \notin contended)
  /\ End(h)
  /\ UNCHANGED <<capacity, admits, profile, saves, transfer, exit, lowered,
                 outgrown, moved, lost>>

-----------------------------------------------------------------------------
(* ProfileService, BenefitService and the rollover, which ask no room. *)

\* The rooms that somebody lives in or is on the way to who does not satisfy
\* any more what they demand, or what is about to be saved for them.
Turned(p, r) ==
  \/ p \notin admits[r]
  \/ \E h \in handlers :
       h.step = "restrict.save" /\ h.room = r /\ p \notin h.admits
Outgrown(new) ==
  {r \in Rooms : \E s \in Students :
     /\ new[s] # profile[s] /\ Turned(new[s], r)
     /\ \/ \E w \in Residents(r) : stay[w].student = s
        \/ \E h \in handlers : h.student = s /\ h.room = r}
Reprofile(new) ==
  /\ new # profile /\ saves < MaxSaves /\ saves' = saves + 1
  /\ profile' = new
  /\ outgrown' = outgrown \cup (Outgrown(new) \ contended)
  /\ UNCHANGED <<present, capacity, admits, stay, transfer, exit, handlers,
                 contended, lowered, harmed, moved, lost>>

\* A student's course, degree or gender is saved, a benefit given or taken.
SaveProfile(s, p) == Reprofile([profile EXCEPT ![s] = p])
\* RollOverCourses: one UPDATE for everybody.
RollOver == Reprofile([s \in Students |-> NextYear[profile[s]]])

-----------------------------------------------------------------------------
(* RoomService: the residents. *)

AddResidentCheck(s, r) ==
  /\ ValidateAssignable(s, r)
  /\ Begin(Request("add.insert", s, None, r))
  /\ UNCHANGED <<roomVars, stay, transfer, exit, lowered, outgrown, harmed,
                 moved, lost>>
AddResidentInsert(h, w) ==
  /\ h.step = "add.insert"
  /\ Insertable(h.student, h.room)
  /\ InsertStay(w, h.student, h.room)
  /\ End(h)
  /\ UNCHANGED <<roomVars, transfer, exit, lowered, outgrown, harmed, moved,
                 lost>>

MoveOutResident(w) ==
  /\ Active(w)
  /\ CloseStay(w)
  /\ UNCHANGED <<roomVars, transfer, exit, handlers, ghostVars>>

\* Mutant: the destination is not looked at before the old room is left.
TransferResidentMutant(w, r) ==
  /\ Active(w)
  /\ stay[w].room # r
  /\ present[r] = "there"
  /\ Begin(Request("transfer.leave", stay[w].student, w, r))
  /\ UNCHANGED <<roomVars, stay, transfer, exit, lowered, outgrown, harmed,
                 moved, lost>>

\* TransferResident: the destination is looked at, the old room is left, the
\* destination is validated again, the new row is inserted.
TransferResident(w, r) ==
  /\ Active(w)
  /\ stay[w].room # r
  /\ present[r] = "there"
  /\ FreeSeat(r)
  /\ Admitted(stay[w].student, r)
  /\ Begin(Request("transfer.leave", stay[w].student, w, r))
  /\ UNCHANGED <<roomVars, stay, transfer, exit, lowered, outgrown, harmed,
                 moved, lost>>
TransferLeave(h) ==
  /\ h.step = "transfer.leave"
  /\ Active(h.row)
  /\ CloseStay(h.row)
  /\ Continue(h, "transfer.claim")
  /\ UNCHANGED <<roomVars, transfer, exit, lowered, outgrown, harmed, moved,
                 lost>>
TransferClaim(h) ==
  /\ h.step = "transfer.claim"
  /\ ValidateAssignable(h.student, h.room)
  /\ Continue(h, "transfer.insert")
  /\ UNCHANGED <<roomVars, stay, transfer, exit, lowered, outgrown, harmed,
                 moved, lost>>
TransferInsert(h, w) ==
  /\ h.step = "transfer.insert"
  /\ Insertable(h.student, h.room)
  /\ InsertStay(w, h.student, h.room)
  /\ End(h)
  /\ UNCHANGED <<roomVars, transfer, exit, lowered, outgrown, harmed, moved,
                 lost>>
\* The staff is told that it failed; the old stay remains closed.
TransferRefused(h) ==
  /\ \/ /\ h.step = "transfer.claim"
        /\ ~ValidateAssignable(h.student, h.room)
     \/ /\ h.step = "transfer.insert"
        /\ ~Insertable(h.student, h.room)
  /\ Harm(h.room, /\ ~Housed(h.student)
                  /\ h.room \notin contended \cup outgrown)
  /\ End(h)
  /\ UNCHANGED <<roomVars, stay, transfer, exit, lowered, outgrown, moved,
                 lost>>

-----------------------------------------------------------------------------
(* TransferRequestService. *)

RequestsLeft ==
  Cardinality({t \in Transfers : transfer[t].status # "none"})
    + Cardinality({e \in Exits : exit[e].status # "none"}) < MaxRequests

HasPendingTransfer(s) ==
  \E t \in Transfers :
    transfer[t].status = "pending" /\ transfer[t].student = s

\* Create reads the student's stay and looks for a pending request; the
\* INSERT is refused by uniq_transfer_requests_active_student and by the
\* foreign keys to the rooms.  The room the student asks for is stored and
\* not looked at: it plays no part in the decision.
RequestTransfer(w) ==
  /\ Active(w)
  /\ ~HasPendingTransfer(stay[w].student) /\ RequestsLeft
  /\ Begin(Request("request.insert", stay[w].student, w, None))
  /\ UNCHANGED <<roomVars, stay, transfer, exit, lowered, outgrown, harmed,
                 moved, lost>>

RequestTransferInsert(h, t, wanted) ==
  /\ h.step = "request.insert"
  /\ transfer[t].status = "none"
  /\ ~HasPendingTransfer(h.student) /\ RequestsLeft
  /\ stay[h.row].state # "gone"
  /\ wanted # None => present[wanted] = "there"
  /\ transfer' = [transfer EXCEPT ![t] =
       [status |-> "pending", student |-> h.student,
        rooms |-> {stay[h.row].room, wanted} \ {None}]]
  /\ End(h)
  /\ UNCHANGED <<roomVars, stay, exit, lowered, outgrown, harmed, moved,
                 lost>>

ApproveSteps == {"approve.leave", "approve.claim", "approve.insert",
                 "approve.decide"}
TransferLocked(t) == \E h \in handlers : h.step \in ApproveSteps /\ h.req = t

\* Decide keeps the request locked from here until its transaction ends, and
\* leaves the old room before it looks at the new one, each in a transaction
\* of its own.
ApproveTransfer(t, w, r) ==
  /\ transfer[t].status = "pending" /\ ~TransferLocked(t)
  /\ Lives(transfer[t].student, w)
  /\ Begin([Request("approve.leave", transfer[t].student, w, r)
              EXCEPT !.req = t])
  /\ UNCHANGED <<roomVars, stay, transfer, exit, lowered, outgrown, harmed,
                 moved, lost>>
ApproveLeave(h) ==
  /\ h.step = "approve.leave"
  /\ Active(h.row)
  /\ CloseStay(h.row)
  /\ Continue(h, "approve.claim")
  /\ UNCHANGED <<roomVars, transfer, exit, lowered, outgrown, harmed, moved,
                 lost>>
ApproveClaim(h) ==
  /\ h.step = "approve.claim"
  /\ ValidateAssignable(h.student, h.room)
  /\ Continue(h, "approve.insert")
  /\ UNCHANGED <<roomVars, stay, transfer, exit, lowered, outgrown, harmed,
                 moved, lost>>
ApproveInsert(h, w) ==
  /\ h.step = "approve.insert"
  /\ Insertable(h.student, h.room)
  /\ InsertStay(w, h.student, h.room)
  /\ moved' = moved \cup {h.req}
  /\ Continue(h, "approve.decide")
  /\ UNCHANGED <<roomVars, transfer, exit, lowered, outgrown, harmed, lost>>

\* Mutant: the refusal of AddResident is logged and the approval goes on.
ApproveRefusedMutant(h) ==
  /\ h.step = "approve.claim"
  /\ ~ValidateAssignable(h.student, h.room)
  /\ Continue(h, "approve.decide")
  /\ UNCHANGED <<roomVars, stay, transfer, exit, lowered, outgrown, harmed,
                 moved, lost>>

\* One of the calls fails: the transaction rolls back to "pending", what the
\* others committed stays.
ApproveRefused(h) ==
  /\ \/ h.step = "approve.leave" /\ ~Active(h.row)
     \/ /\ h.step = "approve.claim"
        /\ ~ValidateAssignable(h.student, h.room)
     \/ /\ h.step = "approve.insert"
        /\ ~Insertable(h.student, h.room)
  /\ End(h)
  /\ UNCHANGED <<roomVars, stay, transfer, exit, lowered, outgrown, harmed,
                 moved, lost>>
ApproveDecide(h) ==
  /\ h.step = "approve.decide"
  /\ transfer' = [transfer EXCEPT ![h.req].status = "approved"]
  /\ End(h)
  /\ UNCHANGED <<roomVars, stay, exit, lowered, outgrown, harmed, moved,
                 lost>>
RejectTransfer(t) ==
  /\ transfer[t].status = "pending" /\ ~TransferLocked(t)
  /\ transfer' = [transfer EXCEPT ![t].status = "rejected"]
  /\ UNCHANGED <<roomVars, stay, exit, handlers, ghostVars>>

-----------------------------------------------------------------------------
(* ExitRequestService. *)

HasPendingExit(w) ==
  \E e \in Exits : exit[e].status = "pending" /\ exit[e].row = w

RequestExit(w) ==
  /\ Active(w)
  /\ ~HasPendingExit(w) /\ RequestsLeft
  /\ Begin(Request("exit.insert", None, w, None))
  /\ UNCHANGED <<roomVars, stay, transfer, exit, lowered, outgrown, harmed,
                 moved, lost>>
RequestExitInsert(h, e) ==
  /\ h.step = "exit.insert"
  /\ exit[e].status = "none"
  /\ ~HasPendingExit(h.row) /\ RequestsLeft
  /\ stay[h.row].state # "gone"
  /\ exit' = [exit EXCEPT ![e] = [status |-> "pending", row |-> h.row]]
  /\ End(h)
  /\ UNCHANGED <<roomVars, stay, transfer, lowered, outgrown, harmed, moved,
                 lost>>

\* Decide commits the approval and only then frees the room.
ApproveExit(e) ==
  /\ exit[e].status = "pending"
  /\ exit' = [exit EXCEPT ![e].status = "approved"]
  /\ Begin([Request("exit.leave", None, exit[e].row, None) EXCEPT !.req = e])
  /\ UNCHANGED <<roomVars, stay, transfer, lowered, outgrown, harmed, moved,
                 lost>>
\* A row that is closed already is no error.
ExitLeave(h) ==
  /\ h.step = "exit.leave"
  /\ IF Active(h.row) THEN CloseStay(h.row) ELSE UNCHANGED stay
  /\ End(h)
  /\ UNCHANGED <<roomVars, transfer, exit, lowered, outgrown, harmed, moved,
                 lost>>
RejectExit(e) ==
  /\ exit[e].status = "pending"
  /\ exit' = [exit EXCEPT ![e].status = "rejected"]
  /\ UNCHANGED <<roomVars, stay, transfer, handlers, ghostVars>>

\* A statement that changes nothing: the index or a foreign key refuses it, or
\* it finds no row.  The call fails with what it had committed, which for
\* these steps is nothing.
Refused(h) ==
  /\ \/ h.step = "add.insert" /\ ~Insertable(h.student, h.room)
     \/ /\ h.step = "room.delete"
        /\ present[h.room] # "there" \/ Referenced(h.room)
     \/ h.step = "transfer.leave" /\ ~Active(h.row)
     \/ /\ h.step = "request.insert"
        /\ \/ HasPendingTransfer(h.student) \/ stay[h.row].state = "gone"
           \/ \E wanted \in Rooms : present[wanted] # "there"
     \/ /\ h.step = "exit.insert"
        /\ HasPendingExit(h.row) \/ stay[h.row].state = "gone"
  /\ End(h)
  /\ UNCHANGED <<roomVars, stay, transfer, exit, lowered, outgrown, harmed,
                 moved, lost>>

\* The call ends where it is: the client is gone, the process or the
\* connection dies.  An open transaction rolls back and its lock goes with
\* it; what was committed before stays.
Abort(h) ==
  /\ handlers' = handlers \ {h}
  /\ contended' = contended \cup ({h.room} \ {None})
  /\ lost' = IF h.step \in {"approve.decide", "exit.leave"}
               THEN lost \cup {h.req} ELSE lost
  /\ UNCHANGED <<roomVars, stay, transfer, exit, lowered, outgrown, harmed,
                 moved>>

RoomStep(r) ==
  \/ \E c \in Capacities : CreateRoom(r, c) \/ UpdateRoom(r, c)
  \/ \E who \in Restrictions : RestrictCheck(r, who)
  \/ DeleteCheck(r)
  \/ \E s \in Students : AddResidentCheck(s, r)
StayStep(w) ==
  \/ MoveOutResident(w)
  \/ \E r \in Rooms : TransferResident(w, r)
  \/ RequestTransfer(w)
  \/ RequestExit(w)
Decide ==
  \/ \E t \in Transfers :
       \/ \E w \in Rows, r \in Rooms : ApproveTransfer(t, w, r)
       \/ RejectTransfer(t)
  \/ \E e \in Exits : ApproveExit(e) \/ RejectExit(e)
HandlerStep(h) ==
  \/ RestrictSave(h) \/ DeleteRow(h)
  \/ TransferLeave(h) \/ TransferClaim(h) \/ TransferRefused(h)
  \/ ApproveLeave(h) \/ ApproveClaim(h) \/ ApproveRefused(h)
  \/ ApproveDecide(h)
  \/ ExitLeave(h) \/ Refused(h)
  \/ \E w \in Rows :
       AddResidentInsert(h, w) \/ TransferInsert(h, w) \/ ApproveInsert(h, w)
  \/ \E t \in Transfers, wanted \in Rooms \cup {None} :
       RequestTransferInsert(h, t, wanted)
  \/ \E e \in Exits : RequestExitInsert(h, e)
  \/ Abort(h)

Next ==
  \/ \E r \in Rooms : RoomStep(r)
  \/ \E w \in Rows : StayStep(w)
  \/ Decide
  \/ \E s \in Students, p \in Profiles : SaveProfile(s, p)
  \/ RollOver
  \/ \E h \in handlers : HandlerStep(h)

Spec == Init /\ [][Next]_vars

-----------------------------------------------------------------------------
(* Properties. *)

\* AddResident, TransferResident and Decide each count the residents before
\* they insert, and none of them under a lock.  However the requests
\* interleave, a room whose capacity was not lowered under its residents
\* holds, with those whose INSERT is about to run, less than its capacity and
\* the number of calls that can be under way.
SeatsBounded ==
  \A r \in Rooms \ lowered :
    Cardinality(Residents(r)) + Cardinality(Inserting(r))
      < capacity[r] + MaxHandlers

\* What is checked before a write can be spoilt by a request for the same
\* room, or by a new profile of somebody who lives there or is on the way and
\* no longer satisfies its restrictions, and by nothing else.  A room that no
\* two requests were after at once, and whose requests ran to their end, holds
\* no more than its capacity (UpdateRoom may lower that) and was not deleted
\* with a resident in it (Delete: "would silently erase their residency
\* history"), whatever becomes of the profiles.  Unless a new profile turned
\* somebody away, the room admits everybody who lives there, and no
\* TransferResident to it "stranded the student".
RoomsApart ==
  \A r \in Rooms \ contended :
    /\ Cardinality(Residents(r)) <= capacity[r] \/ r \in lowered
    /\ r \in outgrown \/ \A w \in Residents(r) : Admitted(stay[w].student, r)
    /\ r \notin harmed

\* A decision and the room rows it stands for are written in different
\* transactions.  A transfer is approved only once its student was moved, and
\* the student was not moved while the request is undecided; an approved
\* exit has closed its stay: except while the handler is on its way between
\* the two, or died there.
DecisionsCarriedOut ==
  /\ \A t \in Transfers :
       LET deciding ==
             \E h \in handlers : h.step = "approve.decide" /\ h.req = t
       IN /\ transfer[t].status = "approved" => t \in moved
          /\ t \in moved =>
               transfer[t].status = "approved" \/ deciding \/ t \in lost
  /\ \A e \in Exits : exit[e].status = "approved" =>
       \/ ~Active(exit[e].row)
       \/ e \in lost
       \/ \E h \in handlers : h.step = "exit.leave" /\ h.req = e
=============================================================================
