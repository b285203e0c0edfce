-------------------------- MODULE ResidenceProofs --------------------------
(***************************************************************************)
(* What holds of living in a dormitory for any number of students, rooms,  *)
(* stays, requests and calls: the types, by how much a room can be         *)
(* overbooked, that only requests for the same room, or a new profile,     *)
(* spoil what was checked, and that decisions agree with the stays.        *)
(***************************************************************************)
EXTENDS Residence, FiniteSetTheorems, TLAPS

(* What a call carries, by the step it is about to take. *)

Claims == {"add.insert", "transfer.leave", "transfer.claim",
           "transfer.insert"} \cup ApproveSteps
Shaped(h) ==
  /\ h.step \in Claims => h.student \in Students /\ h.room \in Rooms
  /\ h.step \in {"restrict.save", "room.delete"} => h.room \in Rooms
  /\ h.step = "request.insert" => h.student \in Students
  /\ h.step \in {"transfer.leave", "approve.leave", "request.insert",
                 "exit.insert", "exit.leave"} => h.row \in Rows
  /\ h.step \in ApproveSteps => h.req \in Transfers
  /\ h.step = "exit.leave" => h.req \in Exits
Calls == {h \in Handler : Shaped(h)}

\* TypeOK, and that calls are shaped and no more than the bound.
Types ==
  /\ present \in [Rooms -> {"none", "there", "gone"}]
  /\ capacity \in [Rooms -> Nat]
  /\ admits \in [Rooms -> SUBSET Profiles]
  /\ profile \in [Students -> Profiles] /\ saves \in Nat
  /\ stay \in [Rows -> Stay]
  /\ transfer \in [Transfers -> TransferRow]
  /\ exit \in [Exits -> ExitRow]
  /\ handlers \subseteq Calls
  /\ contended \subseteq Rooms
  /\ lowered \subseteq Rooms
  /\ outgrown \subseteq Rooms
  /\ harmed \subseteq Rooms
  /\ moved \subseteq Transfers
  /\ lost \subseteq Transfers \cup Exits

\* A row that a call or an exit request names was inserted, and so was the
\* request that is being approved.
Inserted(w) == w \in Rows => stay[w].state # "none"
RowsInserted ==
  /\ \A h \in handlers : /\ Inserted(h.row)
                         /\ h.step \in ApproveSteps => transfer[h.req].status # "none"
  /\ \A e \in Exits : Inserted(exit[e].row)

-----------------------------------------------------------------------------
(* The pieces that calls and rows are made of. *)

LEMMA NoneApart ==
  None \notin Students /\ None \notin Rooms /\ None \notin Rows
    /\ None \notin Transfers /\ None \notin Exits
  BY NoneAssumption DEF NoneAssumption

LEMMA StayActive ==
  ASSUME NEW s \in Students, NEW r \in Rooms
  PROVE  [state |-> "active", student |-> s, room |-> r] \in Stay
  BY DEF Stay

LEMMA StayClosed ==
  ASSUME NEW x \in Stay, x.state = "active"
  PROVE  [x EXCEPT !.state = "out"] \in Stay
  BY DEF Stay, NoStay, GoneStay

LEMMA StayFields ==
  ASSUME NEW x \in Stay
  PROVE  /\ x.state \in {"none", "active", "out", "gone"}
         /\ x.state \in {"active", "out"} => x.student \in Students /\ x.room \in Rooms
         /\ x.state \in {"none", "gone"} => x.student = None /\ x.room = None
  BY DEF Stay, NoStay, GoneStay

LEMMA TransferKinds ==
  /\ NoTransfer \in TransferRow
  /\ \A s \in Students, R \in SUBSET Rooms :
       [status |-> "pending", student |-> s, rooms |-> R] \in TransferRow
  /\ \A x \in TransferRow, d \in {"approved", "rejected"} :
       x.status # "none" => [x EXCEPT !.status = d] \in TransferRow
  BY DEF TransferRow, NoTransfer, Decision

LEMMA ExitKinds ==
  /\ NoExit \in ExitRow
  /\ \A w \in Rows : [status |-> "pending", row |-> w] \in ExitRow
  /\ \A x \in ExitRow, d \in {"approved", "rejected"} :
       x.status = "pending" => [x EXCEPT !.status = d] \in ExitRow
  /\ \A x \in ExitRow : /\ x.status \in Decision => x.row \in Rows
                        /\ x.status = "none" => x.row = None
  BY DEF ExitRow, NoExit, Decision

LEMMA RequestFields ==
  ASSUME NEW step \in Steps, NEW s \in Students \cup {None},
         NEW w \in Rows \cup {None}, NEW r \in Rooms \cup {None},
         NEW q \in Transfers \cup Exits \cup {None}, NEW who \in SUBSET Profiles
  PROVE  /\ Request(step, s, w, r) \in Handler
         /\ [Request(step, s, w, r) EXCEPT !.req = q] \in Handler
         /\ [Request(step, s, w, r) EXCEPT !.admits = who] \in Handler
  BY DEF Request, Handler

LEMMA Restep ==
  ASSUME NEW h \in Handler, NEW step \in Steps
  PROVE  /\ [h EXCEPT !.step = step] \in Handler
         /\ [h EXCEPT !.step = step].step = step
         /\ [h EXCEPT !.step = step].student = h.student
         /\ [h EXCEPT !.step = step].row = h.row
         /\ [h EXCEPT !.step = step].room = h.room
         /\ [h EXCEPT !.step = step].req = h.req
         /\ [h EXCEPT !.step = step].admits = h.admits
  BY DEF Handler

LEMMA BeginTypes ==
  ASSUME Types, NEW h \in Calls, Begin(h)
  PROVE  handlers' \subseteq Calls /\ contended' \subseteq Rooms
  BY DEF Types, Begin

LEMMA EndTypes ==
  ASSUME Types, NEW h \in handlers, End(h)
  PROVE  handlers' \subseteq Calls /\ contended' \subseteq Rooms
  BY DEF Types, End

LEMMA ContinueTypes ==
  ASSUME Types, NEW h \in handlers, NEW step \in Steps, Continue(h, step),
         \/ h.step \in ApproveSteps /\ step \in ApproveSteps \ {"approve.leave"}
         \/ /\ h.step \in {"transfer.leave", "transfer.claim"}
            /\ step \in {"transfer.claim", "transfer.insert"}
  PROVE  handlers' \subseteq Calls /\ contended' \subseteq Rooms
<1>1. h \in Handler /\ Shaped(h)
  BY DEF Types, Calls
<1> DEFINE g == [h EXCEPT !.step = step]
<1>2. /\ g \in Handler /\ g.step = step /\ g.student = h.student
      /\ g.row = h.row /\ g.room = h.room /\ g.req = h.req
  BY <1>1, Restep
<1>3. Continue(h, step) => handlers' = (handlers \ {h}) \cup {g} /\ contended' = contended
  BY DEF Continue
<1> HIDE DEF g
<1>4. Shaped(g)
  BY <1>1, <1>2 DEF Shaped, Claims, ApproveSteps
<1>5. g \in Calls
  BY <1>2, <1>4 DEF Calls
<1> QED BY <1>3, <1>5 DEF Types

LEMMA InsertTypes ==
  ASSUME Types, NEW w \in Rows, NEW s \in Students, NEW r \in Rooms,
         InsertStay(w, s, r)
  PROVE  stay' \in [Rows -> Stay]
  BY StayActive DEF Types, InsertStay

LEMMA CloseTypes ==
  ASSUME Types, NEW w \in Rows, Active(w), CloseStay(w)
  PROVE  stay' \in [Rows -> Stay]
<1>1. [stay[w] EXCEPT !.state = "out"] \in Stay
  BY StayClosed DEF Types, Active
<1> QED BY <1>1 DEF Types, CloseStay

\* A call about a room, a student, a stay and a request.
LEMMA RequestShapes ==
  /\ \A s \in Students, r \in Rooms :
       Request("add.insert", s, None, r) \in Calls
  /\ \A r \in Rooms : Request("room.delete", None, None, r) \in Calls
  /\ \A r \in Rooms, who \in SUBSET Profiles :
       [Request("restrict.save", None, None, r) EXCEPT !.admits = who] \in Calls
  /\ \A s \in Students, w \in Rows, r \in Rooms :
       Request("transfer.leave", s, w, r) \in Calls
  /\ \A s \in Students, w \in Rows :
       Request("request.insert", s, w, None) \in Calls
  /\ \A w \in Rows : Request("exit.insert", None, w, None) \in Calls
  /\ \A t \in Transfers, s \in Students, w \in Rows, r \in Rooms :
       [Request("approve.leave", s, w, r) EXCEPT !.req = t] \in Calls
  /\ \A e \in Exits, w \in Rows :
       [Request("exit.leave", None, w, None) EXCEPT !.req = e] \in Calls
  BY DEF Request, Calls, Handler, Steps, Shaped, Claims, ApproveSteps

\* A profile is saved, or the year turns.
Reprofiled ==
  RollOver \/ \E s \in Students, p \in Profiles : SaveProfile(s, p)

LEMMA ReprofiledApart ==
  ASSUME Reprofiled
  PROVE  /\ UNCHANGED <<present, capacity, admits, stay, transfer, exit, handlers>>
         /\ UNCHANGED <<contended, lowered, harmed, moved, lost>>
         /\ outgrown' = outgrown \cup (Outgrown(profile') \ contended)
  BY DEF Reprofiled, RollOver, SaveProfile, Reprofile

-----------------------------------------------------------------------------
(* Every step keeps the types. *)

LEMMA TypesInit == Init => Types
  BY TransferKinds, ExitKinds, RestrictionsAssumption
  DEF Init, Types, Stay, RestrictionsAssumption

LEMMA TypesKept ==
  ASSUME Types, RowsInserted, [Next]_vars
  PROVE  Types'
<1> USE DEF roomVars, ghostVars
<1>1. ASSUME NEW r \in Rooms, NEW c \in Capacities,
             CreateRoom(r, c) \/ UpdateRoom(r, c)
      PROVE  Types'
  BY <1>1, CapacitiesAssumption DEF CreateRoom, UpdateRoom, Types, CapacitiesAssumption
<1>2. ASSUME NEW r \in Rooms, NEW who \in Restrictions, RestrictCheck(r, who)
      PROVE  Types'
  <2>1. [Request("restrict.save", None, None, r) EXCEPT !.admits = who] \in Calls
    BY RequestShapes, RestrictionsAssumption DEF RestrictionsAssumption
  <2> QED BY <1>2, <2>1, BeginTypes DEF RestrictCheck, Types
<1>3. ASSUME NEW r \in Rooms, DeleteCheck(r)
      PROVE  Types'
  BY <1>3, RequestShapes, BeginTypes DEF DeleteCheck, Types
<1>4. ASSUME NEW s \in Students, NEW r \in Rooms, AddResidentCheck(s, r)
      PROVE  Types'
  BY <1>4, RequestShapes, BeginTypes DEF AddResidentCheck, Types
<1>5. ASSUME NEW w \in Rows, MoveOutResident(w)
      PROVE  Types'
  BY <1>5, CloseTypes DEF MoveOutResident, Types
<1>6. ASSUME NEW w \in Rows, NEW r \in Rooms, TransferResident(w, r)
      PROVE  Types'
  <2>1. stay[w].student \in Students
    BY <1>6, StayFields DEF TransferResident, Active, Types
  <2> QED BY <1>6, <2>1, RequestShapes, BeginTypes DEF TransferResident, Types
<1>7. ASSUME NEW w \in Rows, RequestTransfer(w) \/ RequestExit(w)
      PROVE  Types'
  <2>1. stay[w].student \in Students
    BY <1>7, StayFields DEF RequestTransfer, RequestExit, Active, Types
  <2> QED BY <1>7, <2>1, RequestShapes, BeginTypes DEF RequestTransfer, RequestExit, Types
<1>8. ASSUME NEW t \in Transfers, NEW w \in Rows, NEW r \in Rooms,
             ApproveTransfer(t, w, r)
      PROVE  Types'
  <2>1. transfer[t].student \in Students
    BY <1>8, StayFields DEF ApproveTransfer, Lives, Active, Types
  <2> QED BY <1>8, <2>1, RequestShapes, BeginTypes DEF ApproveTransfer, Types
<1>9. ASSUME NEW t \in Transfers, RejectTransfer(t)
      PROVE  Types'
  BY <1>9, TransferKinds DEF RejectTransfer, Types
<1>10. ASSUME NEW e \in Exits, ApproveExit(e)
       PROVE  Types'
  <2>1. exit[e].row \in Rows /\ [exit[e] EXCEPT !.status = "approved"] \in ExitRow
    BY <1>10, ExitKinds DEF ApproveExit, Types, Decision
  <2> QED BY <1>10, <2>1, RequestShapes, BeginTypes DEF ApproveExit, Types
<1>11. ASSUME NEW e \in Exits, RejectExit(e)
       PROVE  Types'
  BY <1>11, ExitKinds DEF RejectExit, Types
<1>12. ASSUME NEW h \in handlers, HandlerStep(h)
       PROVE  Types'
  <2>0. h \in Handler /\ Shaped(h)
    BY DEF Types, Calls
  <2>1. CASE RestrictSave(h)
    BY <2>0, <2>1, EndTypes DEF RestrictSave, Types, Shaped, Handler
  <2>2. CASE DeleteRow(h)
    BY <2>0, <2>2, EndTypes DEF DeleteRow, Harm, Types, Shaped, Stay
  <2>3. CASE TransferLeave(h)
    <3>1. h.row \in Rows /\ h.step \in {"transfer.leave", "transfer.claim"}
      BY <2>0, <2>3 DEF TransferLeave, Shaped
    <3> QED BY <2>3, <3>1, CloseTypes, ContinueTypes DEF TransferLeave, Types, Steps
  <2>4. CASE TransferClaim(h)
    BY <2>4, ContinueTypes DEF TransferClaim, Types, Steps
  <2>5. CASE TransferRefused(h)
    BY <2>0, <2>5, EndTypes DEF TransferRefused, Harm, Types, Shaped, Claims
  <2>6. CASE ApproveLeave(h)
    <3>1. h.row \in Rows /\ h.step \in ApproveSteps
      BY <2>0, <2>6 DEF ApproveLeave, Shaped, ApproveSteps
    <3> QED BY <2>6, <3>1, CloseTypes, ContinueTypes DEF ApproveLeave, Types, Steps,
                                                         ApproveSteps
  <2>7. CASE ApproveClaim(h)
    BY <2>7, ContinueTypes DEF ApproveClaim, Types, Steps, ApproveSteps
  <2>8. CASE ApproveRefused(h) \/ Refused(h)
    BY <2>8, EndTypes DEF ApproveRefused, Refused, Types
  <2>9. CASE ApproveDecide(h)
    <3>1. h.req \in Transfers /\ transfer[h.req].status # "none"
      BY <2>0, <2>9 DEF ApproveDecide, Shaped, ApproveSteps, RowsInserted
    <3>2. [transfer[h.req] EXCEPT !.status = "approved"] \in TransferRow
      BY <3>1, TransferKinds DEF Types
    <3> QED BY <2>9, <3>1, <3>2, EndTypes DEF ApproveDecide, Types
  <2>10. CASE ExitLeave(h)
    <3>1. h.row \in Rows
      BY <2>0, <2>10 DEF ExitLeave, Shaped
    <3> QED BY <2>10, <3>1, CloseTypes, EndTypes DEF ExitLeave, Types
  <2>11. ASSUME NEW w \in Rows, AddResidentInsert(h, w) \/ TransferInsert(h, w)
         PROVE  Types'
    <3>1. h.student \in Students /\ h.room \in Rooms
      BY <2>0, <2>11 DEF AddResidentInsert, TransferInsert, Shaped, Claims
    <3> QED BY <2>11, <3>1, InsertTypes, EndTypes DEF AddResidentInsert, TransferInsert,
                                                      Types
  <2>12. ASSUME NEW w \in Rows, ApproveInsert(h, w)
         PROVE  Types'
    <3>1. /\ h.student \in Students /\ h.room \in Rooms /\ h.req \in Transfers
          /\ h.step \in ApproveSteps
      BY <2>0, <2>12 DEF ApproveInsert, Shaped, Claims, ApproveSteps
    <3> QED BY <2>12, <3>1, InsertTypes, ContinueTypes
            DEF ApproveInsert, Types, Steps, ApproveSteps
  <2>13. ASSUME NEW t \in Transfers, NEW wanted \in Rooms \cup {None},
                RequestTransferInsert(h, t, wanted)
         PROVE  Types'
    <3>1. h.student \in Students /\ h.row \in Rows
      BY <2>0, <2>13 DEF RequestTransferInsert, Shaped
    <3>2. stay[h.row].room \in Rooms
      BY <2>13, <3>1, StayFields DEF RequestTransferInsert, RowsInserted, Inserted, Types
    <3> DEFINE R == {stay[h.row].room, wanted} \ {None}
    <3>3. [status |-> "pending", student |-> h.student, rooms |-> R]
            \in TransferRow
      BY <3>1, <3>2, TransferKinds
    <3> QED BY <2>13, <3>3, EndTypes DEF RequestTransferInsert, Types
  <2>14. ASSUME NEW e \in Exits, RequestExitInsert(h, e)
         PROVE  Types'
    <3>1. [status |-> "pending", row |-> h.row] \in ExitRow
      BY <2>0, <2>14, ExitKinds DEF RequestExitInsert, Shaped
    <3> QED BY <2>14, <3>1, EndTypes DEF RequestExitInsert, Types
  <2>15. CASE Abort(h)
    BY <2>0, <2>15 DEF Abort, Types, Handler, Shaped, ApproveSteps
  <2> QED BY <1>12, <2>1, <2>2, <2>3, <2>4, <2>5, <2>6, <2>7, <2>8, <2>9, <2>10,
             <2>11, <2>12, <2>13, <2>14, <2>15 DEF HandlerStep
<1>13. ASSUME UNCHANGED vars
       PROVE  Types'
  BY <1>13 DEF vars, Types
<1>14. ASSUME NEW new, Reprofile(new)
       PROVE  /\ profile' = new /\ saves' = saves + 1
              /\ outgrown' \subseteq outgrown \cup Rooms
              /\ UNCHANGED <<present, capacity, admits, stay, transfer, exit, handlers,
                             contended, lowered, harmed, moved, lost>>
  BY <1>14 DEF Reprofile, Outgrown
<1>15. ASSUME NEW s \in Students, NEW p \in Profiles, SaveProfile(s, p)
       PROVE  Types'
  <2> DEFINE new == [profile EXCEPT ![s] = p]
  <2>1. new \in [Students -> Profiles] /\ Reprofile(new)
    BY <1>15 DEF Types, SaveProfile
  <2> HIDE DEF new
  <2>2. /\ profile' = new /\ saves' = saves + 1
        /\ outgrown' \subseteq outgrown \cup Rooms
        /\ UNCHANGED <<present, capacity, admits, stay, transfer, exit, handlers,
                       contended, lowered, harmed, moved, lost>>
    BY <1>14, <2>1
  <2> QED BY <2>1, <2>2 DEF Types
<1>16. ASSUME RollOver
       PROVE  Types'
  BY <1>14, <1>16, RestrictionsAssumption DEF RollOver, Types, RestrictionsAssumption
<1> QED BY <1>1, <1>2, <1>3, <1>4, <1>5, <1>6, <1>7, <1>8, <1>9, <1>10, <1>11,
           <1>12, <1>13, <1>15, <1>16 DEF Next, RoomStep, StayStep, Decide

-----------------------------------------------------------------------------
(* What a step may do to a stay. *)

InsertSteps == {"add.insert", "transfer.insert", "approve.insert"}

LEMMA StayEffects ==
  ASSUME Types, [Next]_vars
  PROVE  \/ UNCHANGED stay
         \/ \E w \in Rows : Active(w) /\ CloseStay(w)
         \/ \E w \in Rows, h \in handlers :
              h.step \in InsertSteps /\ InsertStay(w, h.student, h.room)
         \/ \E h \in handlers : DeleteRow(h)
<1> USE DEF roomVars, ghostVars
<1> DEFINE P == \/ UNCHANGED stay
                \/ \E w \in Rows : Active(w) /\ CloseStay(w)
                \/ \E w \in Rows, h \in handlers :
                     h.step \in InsertSteps /\ InsertStay(w, h.student, h.room)
                \/ \E h \in handlers : DeleteRow(h)
<1>1. ASSUME NEW r \in Rooms, RoomStep(r)
      PROVE  P
  BY <1>1 DEF RoomStep, CreateRoom, UpdateRoom, RestrictCheck, DeleteCheck, AddResidentCheck
<1>2. ASSUME NEW w \in Rows, StayStep(w)
      PROVE  P
  <2>1. CASE MoveOutResident(w)
    BY <2>1 DEF MoveOutResident
  <2>2. CASE (\E r \in Rooms : TransferResident(w, r)) \/ RequestTransfer(w) \/ RequestExit(w)
    BY <2>2 DEF TransferResident, RequestTransfer, RequestExit
  <2> QED BY <1>2, <2>1, <2>2 DEF StayStep
<1>3. CASE Decide
  BY <1>3 DEF Decide, ApproveTransfer, RejectTransfer, ApproveExit, RejectExit
<1>4. ASSUME NEW h \in handlers, HandlerStep(h)
      PROVE  P
  <2>0. Shaped(h)
    BY DEF Types, Calls
  <2>1. CASE RestrictSave(h) \/ TransferClaim(h) \/ TransferRefused(h) \/ ApproveClaim(h)
               \/ ApproveRefused(h) \/ ApproveDecide(h) \/ Refused(h) \/ Abort(h)
    BY <2>1 DEF RestrictSave, TransferClaim, TransferRefused, ApproveClaim,
                ApproveRefused, ApproveDecide, Refused, Abort
  <2>2. CASE DeleteRow(h)
    BY <2>2
  <2>3. CASE TransferLeave(h) \/ ApproveLeave(h) \/ ExitLeave(h)
    BY <2>0, <2>3 DEF TransferLeave, ApproveLeave, ExitLeave, Shaped
  <2>4. ASSUME NEW w \in Rows,
               AddResidentInsert(h, w) \/ TransferInsert(h, w) \/ ApproveInsert(h, w)
        PROVE  P
    BY <2>4 DEF AddResidentInsert, TransferInsert, ApproveInsert, InsertSteps
  <2>5. ASSUME NEW t \in Transfers, NEW wanted \in Rooms \cup {None},
               RequestTransferInsert(h, t, wanted)
        PROVE  P
    BY <2>5 DEF RequestTransferInsert
  <2>6. ASSUME NEW e \in Exits, RequestExitInsert(h, e)
        PROVE  P
    BY <2>6 DEF RequestExitInsert
  <2> QED BY <1>4, <2>1, <2>2, <2>3, <2>4, <2>5, <2>6 DEF HandlerStep
<1>5. CASE UNCHANGED vars
  BY <1>5 DEF vars
<1>6. CASE Reprofiled
  BY <1>6, ReprofiledApart
<1> QED BY <1>1, <1>2, <1>3, <1>4, <1>5, <1>6 DEF Next, Reprofiled

\* A row once inserted stays so, and does not become active again.
LEMMA StayMoves ==
  ASSUME Types, [Next]_vars, NEW w \in Rows
  PROVE  /\ stay[w].state # "none" => stay'[w].state # "none"
         /\ Active(w)' => Active(w) \/ stay[w].state = "none"
<1>1. CASE UNCHANGED stay
  BY <1>1 DEF Active
<1>2. ASSUME NEW v \in Rows, Active(v), CloseStay(v)
      PROVE  /\ stay[w].state # "none" => stay'[w].state # "none"
             /\ Active(w)' => Active(w) \/ stay[w].state = "none"
  <2>1. stay[v] \in Stay
    BY DEF Types
  <2>2. stay'[w] = IF w = v THEN [stay[v] EXCEPT !.state = "out"] ELSE stay[w]
    BY <1>2 DEF CloseStay, Types
  <2>3. [stay[v] EXCEPT !.state = "out"].state = "out"
    BY <2>1 DEF Stay, NoStay, GoneStay
  <2> QED BY <2>2, <2>3 DEF Active
<1>3. ASSUME NEW v \in Rows, NEW h \in handlers, InsertStay(v, h.student, h.room)
      PROVE  /\ stay[w].state # "none" => stay'[w].state # "none"
             /\ Active(w)' => Active(w) \/ stay[w].state = "none"
  BY <1>3 DEF InsertStay, NextRow, Active, Types
<1>4. ASSUME NEW h \in handlers, DeleteRow(h)
      PROVE  /\ stay[w].state # "none" => stay'[w].state # "none"
             /\ Active(w)' => Active(w) \/ stay[w].state = "none"
  BY <1>4 DEF DeleteRow, Active, GoneStay, NoStay
<1> QED BY <1>1, <1>2, <1>3, <1>4, StayEffects

-----------------------------------------------------------------------------
(* What a step may do to the calls under way. *)

\* A call that begins names a row that is there and a request that is.
Sound(g) ==
  /\ Inserted(g.row)
  /\ g.step \in ApproveSteps => transfer[g.req].status # "none"

LEMMA CallEffects ==
  ASSUME Types, RowsInserted, [Next]_vars
  PROVE  \A g \in handlers' : Sound(g)
<1> USE DEF roomVars, ghostVars
<1>0. \A h \in handlers : Sound(h)
  BY DEF RowsInserted, Sound
<1>1. ASSUME NEW r \in Rooms, RoomStep(r)
      PROVE  \A g \in handlers' : Sound(g)
  <2>1. CASE UNCHANGED handlers
    BY <1>0, <2>1
  <2>2. ASSUME NEW g \in Calls, Begin(g), g.step \notin ApproveSteps, g.row = None
        PROVE  \A k \in handlers' : Sound(k)
    BY <1>0, <2>2, NoneApart DEF Begin, Sound, Inserted
  <2>3. ASSUME NEW who \in Restrictions, RestrictCheck(r, who)
        PROVE  \A g \in handlers' : Sound(g)
    <3>1. [Request("restrict.save", None, None, r) EXCEPT !.admits = who] \in Calls
      BY RequestShapes, RestrictionsAssumption DEF RestrictionsAssumption
    <3> QED BY <2>2, <2>3, <3>1 DEF RestrictCheck, Request, ApproveSteps
  <2>4. CASE DeleteCheck(r)
    BY <2>2, <2>4, RequestShapes DEF DeleteCheck, Request, ApproveSteps
  <2>5. ASSUME NEW s \in Students, AddResidentCheck(s, r)
        PROVE  \A g \in handlers' : Sound(g)
    BY <2>2, <2>5, RequestShapes DEF AddResidentCheck, Request, ApproveSteps
  <2> QED BY <1>1, <2>1, <2>3, <2>4, <2>5 DEF RoomStep, CreateRoom, UpdateRoom
<1>2. ASSUME NEW w \in Rows, StayStep(w)
      PROVE  \A g \in handlers' : Sound(g)
  <2>1. CASE MoveOutResident(w)
    BY <1>0, <2>1 DEF MoveOutResident
  <2>2. ASSUME Active(w), NEW g, Begin(g), g.step \notin ApproveSteps, g.row = w
        PROVE  \A k \in handlers' : Sound(k)
    BY <1>0, <2>2 DEF Begin, Sound, Inserted, Active
  <2>3. ASSUME NEW r \in Rooms, TransferResident(w, r)
        PROVE  \A g \in handlers' : Sound(g)
    BY <2>2, <2>3 DEF TransferResident, Request, ApproveSteps
  <2>4. CASE RequestTransfer(w)
    BY <2>2, <2>4 DEF RequestTransfer, Request, ApproveSteps
  <2>5. CASE RequestExit(w)
    BY <2>2, <2>5 DEF RequestExit, Request, ApproveSteps
  <2> QED BY <1>2, <2>1, <2>3, <2>4, <2>5 DEF StayStep
<1>3. CASE Decide
  <2>1. ASSUME NEW t \in Transfers, NEW w \in Rows, NEW r \in Rooms, ApproveTransfer(t, w, r)
        PROVE  \A g \in handlers' : Sound(g)
    BY <1>0, <2>1 DEF ApproveTransfer, Begin, Request, Sound, Inserted, Lives, Active
  <2>2. ASSUME NEW e \in Exits, ApproveExit(e)
        PROVE  \A g \in handlers' : Sound(g)
    BY <1>0, <2>2
    DEF ApproveExit, Begin, Request, Sound, RowsInserted, ApproveSteps
  <2>3. CASE UNCHANGED handlers
    BY <1>0, <2>3
  <2> QED BY <1>3, <2>1, <2>2, <2>3 DEF Decide, RejectTransfer, RejectExit
<1>4. ASSUME NEW h \in handlers, HandlerStep(h)
      PROVE  \A g \in handlers' : Sound(g)
  <2>0. h \in Handler
    BY DEF Types, Calls
  <2>1. ASSUME NEW step \in Steps, Continue(h, step), h.step \in ApproveSteps \/ step \notin ApproveSteps
        PROVE  \A g \in handlers' : Sound(g)
    <3> DEFINE g == [h EXCEPT !.step = step]
    <3>1. g.step = step /\ g.row = h.row /\ g.req = h.req
      BY <2>0, Restep
    <3>2. handlers' = (handlers \ {h}) \cup {g}
      BY <2>1 DEF Continue
    <3> HIDE DEF g
    <3>3. Sound(g)
      BY <1>0, <2>1, <3>1 DEF Sound
    <3> QED BY <1>0, <3>2, <3>3
  <2>2. CASE handlers' \subseteq handlers
    BY <1>0, <2>2
  <2>3. CASE \/ RestrictSave(h) \/ DeleteRow(h) \/ TransferRefused(h) \/ ApproveRefused(h)
             \/ ApproveDecide(h) \/ ExitLeave(h) \/ Refused(h) \/ Abort(h)
             \/ (\E w \in Rows : AddResidentInsert(h, w) \/ TransferInsert(h, w))
             \/ (\E t \in Transfers, wanted \in Rooms \cup {None} :
                   RequestTransferInsert(h, t, wanted))
             \/ (\E e \in Exits : RequestExitInsert(h, e))
    BY <2>2, <2>3
    DEF RestrictSave, DeleteRow, TransferRefused, ApproveRefused, ApproveDecide, ExitLeave,
        Refused, Abort, AddResidentInsert, TransferInsert, RequestTransferInsert,
        RequestExitInsert, End
  <2>4. CASE \/ TransferLeave(h) \/ TransferClaim(h) \/ ApproveLeave(h) \/ ApproveClaim(h)
             \/ (\E w \in Rows : ApproveInsert(h, w))
    BY <2>1, <2>4
    DEF TransferLeave, TransferClaim, ApproveLeave, ApproveClaim, ApproveInsert,
        ApproveSteps, Steps
  <2> QED BY <1>4, <2>3, <2>4 DEF HandlerStep
<1>5. CASE UNCHANGED vars
  BY <1>0, <1>5 DEF vars
<1>6. CASE Reprofiled
  BY <1>0, <1>6, ReprofiledApart
<1> QED BY <1>1, <1>2, <1>3, <1>4, <1>5, <1>6 DEF Next, Reprofiled

\* A request, once made, stays so; the row of an exit request is the one
\* its call read.
LEMMA RequestMoves ==
  ASSUME Types, [Next]_vars
  PROVE  /\ \A t \in Transfers : transfer[t].status # "none" => transfer'[t].status # "none"
         /\ \A e \in Exits : exit'[e].row = exit[e].row
                               \/ \E h \in handlers : exit'[e].row = h.row
<1> USE DEF roomVars, ghostVars
<1> DEFINE P == /\ \A t \in Transfers :
                     transfer[t].status # "none" => transfer'[t].status # "none"
                /\ \A e \in Exits : exit'[e].row = exit[e].row
                                      \/ \E h \in handlers : exit'[e].row = h.row
<1>1. CASE UNCHANGED <<transfer, exit>>
  BY <1>1
<1>2. ASSUME NEW r \in Rooms, RoomStep(r)
      PROVE  P
  BY <1>1, <1>2 DEF RoomStep, CreateRoom, UpdateRoom, RestrictCheck, DeleteCheck,
                    AddResidentCheck
<1>3. ASSUME NEW w \in Rows, StayStep(w)
      PROVE  P
  BY <1>1, <1>3 DEF StayStep, MoveOutResident, TransferResident, RequestTransfer,
                    RequestExit
<1>4. CASE Decide
  <2>1. ASSUME NEW t \in Transfers, RejectTransfer(t)
        PROVE  P
    <3>1. /\ exit' = exit /\ transfer \in [Transfers -> TransferRow]
          /\ transfer' = [transfer EXCEPT ![t] = [transfer[t] EXCEPT !.status = "rejected"]]
      BY <2>1 DEF RejectTransfer, Types
    <3>2. [transfer[t] EXCEPT !.status = "rejected"].status = "rejected"
      BY <3>1 DEF TransferRow, NoTransfer
    <3> QED BY <3>1, <3>2
  <2>2. ASSUME NEW e \in Exits, NEW d \in {"approved", "rejected"},
               exit' = [exit EXCEPT ![e].status = d], UNCHANGED transfer
        PROVE  P
    <3>1. [exit[e] EXCEPT !.status = d].row = exit[e].row
      BY DEF Types, ExitRow, NoExit
    <3> QED BY <2>2, <3>1 DEF Types
  <2> QED BY <1>1, <1>4, <2>1, <2>2 DEF Decide, ApproveTransfer, ApproveExit, RejectExit
<1>5. ASSUME NEW h \in handlers, HandlerStep(h)
      PROVE  P
  <2>1. ASSUME NEW t \in Transfers, NEW wanted \in Rooms \cup {None},
               RequestTransferInsert(h, t, wanted)
        PROVE  P
    BY <2>1 DEF RequestTransferInsert, Types
  <2>2. ASSUME NEW e \in Exits, RequestExitInsert(h, e)
        PROVE  P
    BY <2>2 DEF RequestExitInsert, Types
  <2>3. CASE ApproveDecide(h)
    BY <2>3 DEF ApproveDecide, Types, TransferRow, NoTransfer
  <2> QED
    BY <1>1, <1>5, <2>1, <2>2, <2>3
    DEF HandlerStep, RestrictSave, DeleteRow, TransferRefused, ApproveRefused,
        ExitLeave, Refused, Abort, AddResidentInsert, TransferInsert, TransferLeave,
        TransferClaim, ApproveLeave, ApproveClaim, ApproveInsert
<1>6. CASE UNCHANGED vars
  BY <1>1, <1>6 DEF vars
<1>7. CASE Reprofiled
  BY <1>1, <1>7, ReprofiledApart
<1> QED BY <1>2, <1>3, <1>4, <1>5, <1>6, <1>7 DEF Next, Reprofiled

LEMMA RowsKept ==
  ASSUME Types, RowsInserted, [Next]_vars
  PROVE  RowsInserted'
<1>1. \A g \in handlers' : Sound(g)
  BY CallEffects
<1>2. Types'
  BY TypesKept
<1>3. \A g \in handlers' : g.step \in ApproveSteps => g.req \in Transfers
  BY <1>2 DEF Types, Calls, Shaped
<1>4. \A w \in Rows : stay[w].state # "none" => stay'[w].state # "none"
  BY StayMoves
<1> QED BY <1>1, <1>3, <1>4, RequestMoves DEF Sound, RowsInserted, Inserted

-----------------------------------------------------------------------------
(* Decisions and the stays they stand for. *)

Deciding == {h \in handlers : h.step = "approve.decide"}
Leaving == {h \in handlers : h.step = "exit.leave"}

TransfersCarriedOut ==
  /\ \A h \in Deciding : h.req \in moved
  /\ \A t \in Transfers : transfer[t].status = "approved" => t \in moved
  /\ \A t \in moved : \/ transfer[t].status = "approved"
                      \/ \E h \in Deciding : h.req = t
                      \/ t \in lost
ExitsCarriedOut ==
  /\ \A h \in Leaving : exit[h.req].row = h.row
  /\ \A e \in Exits : exit[e].status = "approved" =>
       \/ ~Active(exit[e].row)
       \/ e \in lost
       \/ \E h \in Leaving : h.req = e

\* Most steps touch neither a decision nor a call that is about to make or to
\* carry out one.
LEMMA Apart ==
  ASSUME Types, [Next]_vars
  PROVE  \/ UNCHANGED <<transfer, exit, moved, lost, Deciding, Leaving>>
         \/ \E t \in Transfers : RejectTransfer(t)
         \/ \E e \in Exits : ApproveExit(e) \/ RejectExit(e)
         \/ \E h \in handlers :
              \/ ApproveDecide(h) \/ ExitLeave(h) \/ Abort(h)
              \/ \E w \in Rows : ApproveInsert(h, w)
              \/ \E t \in Transfers, wanted \in Rooms \cup {None} :
                   RequestTransferInsert(h, t, wanted)
              \/ \E e \in Exits : RequestExitInsert(h, e)
<1> USE DEF roomVars, ghostVars
<1> DEFINE Same == UNCHANGED <<transfer, exit, moved, lost, Deciding, Leaving>>
<1>0. ASSUME NEW g, Begin(g), g.step \notin {"approve.decide", "exit.leave"}
      PROVE  UNCHANGED <<Deciding, Leaving>>
  BY <1>0 DEF Begin, Deciding, Leaving
<1>1. ASSUME NEW r \in Rooms, RoomStep(r)
      PROVE  Same
  <2>1. CASE \E c \in Capacities : CreateRoom(r, c) \/ UpdateRoom(r, c)
    BY <2>1 DEF CreateRoom, UpdateRoom, Deciding, Leaving
  <2>2. ASSUME NEW who \in Restrictions, RestrictCheck(r, who)
        PROVE  Same
    BY <1>0, <2>2 DEF RestrictCheck, Request
  <2>3. CASE DeleteCheck(r)
    BY <1>0, <2>3 DEF DeleteCheck, Request
  <2>4. ASSUME NEW s \in Students, AddResidentCheck(s, r)
        PROVE  Same
    BY <1>0, <2>4 DEF AddResidentCheck, Request
  <2> QED BY <1>1, <2>1, <2>2, <2>3, <2>4 DEF RoomStep
<1>2. ASSUME NEW w \in Rows, StayStep(w)
      PROVE  Same
  <2>1. CASE MoveOutResident(w)
    BY <2>1 DEF MoveOutResident, Deciding, Leaving
  <2>2. ASSUME NEW r \in Rooms, TransferResident(w, r)
        PROVE  Same
    BY <1>0, <2>2 DEF TransferResident, Request
  <2>3. CASE RequestTransfer(w)
    BY <1>0, <2>3 DEF RequestTransfer, Request
  <2>4. CASE RequestExit(w)
    BY <1>0, <2>4 DEF RequestExit, Request
  <2> QED BY <1>2, <2>1, <2>2, <2>3, <2>4 DEF StayStep
<1>3. ASSUME NEW t \in Transfers, NEW w \in Rows, NEW r \in Rooms, ApproveTransfer(t, w, r)
      PROVE  Same
  BY <1>0, <1>3 DEF ApproveTransfer, Request
<1>4. ASSUME NEW h \in handlers, HandlerStep(h)
      PROVE  \/ Same
             \/ ApproveDecide(h) \/ ExitLeave(h) \/ Abort(h)
             \/ \E w \in Rows : ApproveInsert(h, w)
             \/ \E t \in Transfers, wanted \in Rooms \cup {None} :
                  RequestTransferInsert(h, t, wanted)
             \/ \E e \in Exits : RequestExitInsert(h, e)
  <2>0. h \in Handler
    BY DEF Types, Calls
  <2>1. CASE End(h) /\ h.step \notin {"approve.decide", "exit.leave"}
                    /\ UNCHANGED <<transfer, exit, moved, lost>>
    BY <2>1 DEF End, Deciding, Leaving
  <2>2. ASSUME NEW step \in Steps \ {"approve.decide", "exit.leave"}, Continue(h, step),
               h.step \notin {"approve.decide", "exit.leave"},
               UNCHANGED <<transfer, exit, moved, lost>>
        PROVE  Same
    <3> DEFINE g == [h EXCEPT !.step = step]
    <3>1. g.step \notin {"approve.decide", "exit.leave"}
      BY <2>0, Restep
    <3>2. handlers' = (handlers \ {h}) \cup {g}
      BY <2>2 DEF Continue
    <3> HIDE DEF g
    <3> QED BY <2>2, <3>1, <3>2 DEF Deciding, Leaving
  <2>3. CASE \/ RestrictSave(h) \/ DeleteRow(h) \/ TransferRefused(h) \/ ApproveRefused(h)
             \/ Refused(h)
             \/ \E w \in Rows : AddResidentInsert(h, w) \/ TransferInsert(h, w)
    BY <2>1, <2>3
    DEF RestrictSave, DeleteRow, TransferRefused, ApproveRefused, Refused,
        AddResidentInsert, TransferInsert
  <2>4. CASE TransferLeave(h) \/ TransferClaim(h) \/ ApproveLeave(h) \/ ApproveClaim(h)
    BY <2>2, <2>4 DEF TransferLeave, TransferClaim, ApproveLeave, ApproveClaim, Steps
  <2> QED BY <1>4, <2>3, <2>4 DEF HandlerStep
<1>5. CASE UNCHANGED vars
  BY <1>5 DEF vars, Deciding, Leaving
<1>6. CASE Reprofiled
  BY <1>6, ReprofiledApart DEF Deciding, Leaving
<1> QED BY <1>1, <1>2, <1>3, <1>4, <1>5, <1>6 DEF Next, Decide, Reprofiled

LEMMA TransfersKept ==
  ASSUME Types, RowsInserted, TransfersCarriedOut, [Next]_vars
  PROVE  TransfersCarriedOut'
<1> USE DEF roomVars, ghostVars
<1>1. CASE UNCHANGED <<transfer, moved, lost, Deciding>>
  BY <1>1 DEF TransfersCarriedOut
<1>2. ASSUME NEW t \in Transfers, RejectTransfer(t)
      PROVE  TransfersCarriedOut'
  <2>1. /\ UNCHANGED <<moved, lost, Deciding>>
        /\ ~\E h \in Deciding : h.req = t
    BY <1>2 DEF RejectTransfer, Deciding, TransferLocked, ApproveSteps
  <2>2. \A u \in Transfers : transfer'[u].status = IF u = t THEN "rejected"
                                                    ELSE transfer[u].status
    BY <1>2 DEF RejectTransfer, Types, TransferRow, NoTransfer
  <2>3. transfer[t].status = "pending" /\ moved \subseteq Transfers
    BY <1>2 DEF RejectTransfer, Types
  <2> QED BY <2>1, <2>2, <2>3 DEF TransfersCarriedOut
<1>3. CASE \E e \in Exits : ApproveExit(e) \/ RejectExit(e)
  BY <1>1, <1>3 DEF ApproveExit, RejectExit, Begin, Request, Deciding
<1>4. ASSUME NEW h \in handlers, ApproveDecide(h)
      PROVE  TransfersCarriedOut'
  <2>1. /\ h \in Deciding /\ Deciding' = Deciding \ {h} /\ UNCHANGED <<moved, lost>>
        /\ h.req \in moved /\ moved \subseteq Transfers
    BY <1>4 DEF ApproveDecide, End, Deciding, TransfersCarriedOut, Types
  <2>2. \A u \in Transfers : transfer'[u].status = IF u = h.req THEN "approved"
                                                    ELSE transfer[u].status
    BY <1>4 DEF ApproveDecide, Types, TransferRow, NoTransfer
  <2> QED BY <2>1, <2>2 DEF TransfersCarriedOut
<1>5. ASSUME NEW h \in handlers, ExitLeave(h)
      PROVE  TransfersCarriedOut'
  BY <1>1, <1>5 DEF ExitLeave, End, Deciding
<1>6. ASSUME NEW h \in handlers, Abort(h)
      PROVE  TransfersCarriedOut'
  <2>1. Deciding' = Deciding \ {h} /\ UNCHANGED <<transfer, moved>> /\ lost \subseteq lost'
    BY <1>6 DEF Abort, Deciding
  <2>2. h \in Deciding => h.req \in lost'
    BY <1>6 DEF Abort, Deciding
  <2> QED BY <2>1, <2>2 DEF TransfersCarriedOut
<1>7. ASSUME NEW h \in handlers, NEW w \in Rows, ApproveInsert(h, w)
      PROVE  TransfersCarriedOut'
  <2> DEFINE g == [h EXCEPT !.step = "approve.decide"]
  <2>1. g.step = "approve.decide" /\ g.req = h.req /\ h.step = "approve.insert"
    BY <1>7, Restep DEF Types, Calls, Steps, ApproveInsert
  <2>2. /\ handlers' = (handlers \ {h}) \cup {g} /\ UNCHANGED <<transfer, lost>>
        /\ moved' = moved \cup {h.req}
    BY <1>7 DEF ApproveInsert, Continue
  <2> HIDE DEF g
  <2>3. Deciding' = Deciding \cup {g}
    BY <2>1, <2>2 DEF Deciding
  <2> QED BY <2>1, <2>2, <2>3 DEF TransfersCarriedOut
<1>8. ASSUME NEW h \in handlers, NEW t \in Transfers, NEW wanted \in Rooms \cup {None},
             RequestTransferInsert(h, t, wanted)
      PROVE  TransfersCarriedOut'
  <2>1. UNCHANGED <<moved, lost, Deciding>>
    BY <1>8 DEF RequestTransferInsert, End, Deciding
  <2>2. /\ transfer[t].status = "none" /\ transfer'[t].status = "pending"
        /\ \A u \in Transfers \ {t} : transfer'[u] = transfer[u]
        /\ moved \subseteq Transfers
    BY <1>8 DEF RequestTransferInsert, Types
  <2> QED BY <2>1, <2>2 DEF TransfersCarriedOut
<1>9. ASSUME NEW h \in handlers, NEW e \in Exits, RequestExitInsert(h, e)
      PROVE  TransfersCarriedOut'
  BY <1>1, <1>9 DEF RequestExitInsert, End, Deciding
<1> QED BY <1>1, <1>2, <1>3, <1>4, <1>5, <1>6, <1>7, <1>8, <1>9, Apart

LEMMA ExitsKept ==
  ASSUME Types, RowsInserted, ExitsCarriedOut, [Next]_vars
  PROVE  ExitsCarriedOut'
<1> USE DEF roomVars, ghostVars
<1>0. \A w : w \in Rows /\ stay[w].state # "none" /\ ~Active(w) => ~Active(w)'
  BY StayMoves DEF Active
<1>1. \A e \in Exits : exit[e].status = "approved"
        => exit[e].row \in Rows /\ stay[exit[e].row].state # "none"
  BY ExitKinds DEF Types, RowsInserted, Inserted, Decision
<1>2. CASE UNCHANGED <<exit, lost, Leaving>>
  BY <1>0, <1>1, <1>2 DEF ExitsCarriedOut, Active
<1>3. CASE \E t \in Transfers : RejectTransfer(t)
  BY <1>2, <1>3 DEF RejectTransfer, Leaving
<1>4. ASSUME NEW e \in Exits, ApproveExit(e)
      PROVE  ExitsCarriedOut'
  <2> DEFINE g == [Request("exit.leave", None, exit[e].row, None) EXCEPT !.req = e]
  <2>1. g.step = "exit.leave" /\ g.req = e /\ g.row = exit[e].row
    BY DEF Request
  <2>2. handlers' = handlers \cup {g} /\ UNCHANGED <<stay, lost>>
    BY <1>4 DEF ApproveExit, Begin
  <2> HIDE DEF g
  <2>3. Leaving' = Leaving \cup {g}
    BY <2>1, <2>2 DEF Leaving
  <2>4. /\ \A d \in Exits : exit'[d].row = exit[d].row
        /\ \A d \in Exits \ {e} : exit'[d] = exit[d]
    BY <1>4 DEF ApproveExit, Types, ExitRow, NoExit
  <2>5. \A h \in Leaving : h.req \in Exits
    BY DEF Leaving, Types, Calls, Shaped
  <2> QED BY <2>1, <2>2, <2>3, <2>4, <2>5 DEF ExitsCarriedOut, Active
<1>5. ASSUME NEW e \in Exits, RejectExit(e)
      PROVE  ExitsCarriedOut'
  <2>1. /\ \A d \in Exits : exit'[d].row = exit[d].row
        /\ \A d \in Exits \ {e} : exit'[d] = exit[d]
        /\ exit'[e].status = "rejected" /\ UNCHANGED <<stay, lost, Leaving>>
    BY <1>5 DEF RejectExit, Types, ExitRow, NoExit, Leaving
  <2>2. \A h \in Leaving : h.req \in Exits
    BY DEF Leaving, Types, Calls, Shaped
  <2> QED BY <2>1, <2>2 DEF ExitsCarriedOut, Active
<1>6. ASSUME NEW h \in handlers, ExitLeave(h)
      PROVE  ExitsCarriedOut'
  <2>1. h \in Leaving /\ Leaving' = Leaving \ {h} /\ UNCHANGED <<exit, lost>>
    BY <1>6 DEF ExitLeave, End, Leaving
  <2>2. h.row \in Rows /\ h.row = exit[h.req].row
    BY <2>1 DEF Leaving, Types, Calls, Shaped, ExitsCarriedOut
  <2>3. ~Active(h.row)'
    <3>1. CASE Active(h.row)
      BY <1>6, <2>2, <3>1 DEF ExitLeave, CloseStay, Active, Types, Stay, NoStay, GoneStay
    <3>2. CASE ~Active(h.row)
      BY <1>6, <3>2 DEF ExitLeave, Active
    <3> QED BY <3>1, <3>2
  <2> QED BY <1>0, <1>1, <2>1, <2>2, <2>3 DEF ExitsCarriedOut, Active
<1>7. ASSUME NEW h \in handlers, Abort(h)
      PROVE  ExitsCarriedOut'
  <2>1. Leaving' = Leaving \ {h} /\ UNCHANGED <<exit, stay>> /\ lost \subseteq lost'
    BY <1>7 DEF Abort, Leaving
  <2>2. h \in Leaving => h.req \in lost'
    BY <1>7 DEF Abort, Leaving
  <2> QED BY <2>1, <2>2 DEF ExitsCarriedOut, Active
<1>8. ASSUME NEW h \in handlers, ApproveDecide(h)
      PROVE  ExitsCarriedOut'
  BY <1>2, <1>8 DEF ApproveDecide, End, Leaving
<1>9. ASSUME NEW h \in handlers, NEW w \in Rows, ApproveInsert(h, w)
      PROVE  ExitsCarriedOut'
  <2> DEFINE g == [h EXCEPT !.step = "approve.decide"]
  <2>1. g.step = "approve.decide" /\ h.step = "approve.insert"
    BY <1>9, Restep DEF Types, Calls, Steps, ApproveInsert
  <2>2. handlers' = (handlers \ {h}) \cup {g} /\ UNCHANGED <<exit, lost>>
    BY <1>9 DEF ApproveInsert, Continue
  <2> HIDE DEF g
  <2> QED BY <1>2, <2>1, <2>2 DEF Leaving
<1>10. ASSUME NEW h \in handlers, NEW t \in Transfers, NEW wanted \in Rooms \cup {None},
              RequestTransferInsert(h, t, wanted)
       PROVE  ExitsCarriedOut'
  BY <1>2, <1>10 DEF RequestTransferInsert, End, Leaving
<1>11. ASSUME NEW h \in handlers, NEW e \in Exits, RequestExitInsert(h, e)
       PROVE  ExitsCarriedOut'
  <2>1. /\ exit[e].status = "none" /\ exit'[e].status = "pending"
        /\ \A d \in Exits \ {e} : exit'[d] = exit[d]
        /\ UNCHANGED <<stay, lost, Leaving>>
    BY <1>11 DEF RequestExitInsert, End, Leaving, Types
  <2>2. \A g \in Leaving : g.req \in Exits /\ g.row \in Rows
    BY DEF Leaving, Types, Calls, Shaped
  <2>3. exit[e].row \notin Rows
    BY <2>1, ExitKinds, NoneApart DEF Types
  <2> QED BY <2>1, <2>2, <2>3 DEF ExitsCarriedOut, Active
<1> QED BY <1>2, <1>3, <1>4, <1>5, <1>6, <1>7, <1>8, <1>9, <1>10, <1>11, Apart

-----------------------------------------------------------------------------
(* The residents of a room, and the calls that are after it. *)

On(r) == {h \in handlers : h.room = r}

\* Nobody has come to live in r; somebody has.
Fewer(r) == \A w \in Residents(r)' : w \in Residents(r) /\ stay'[w] = stay[w]
Gains(r, w, s) ==
  /\ w \notin Residents(r) /\ Residents(r)' = Residents(r) \cup {w}
  /\ stay'[w].student = s
  /\ \A v \in Residents(r) : stay'[v] = stay[v]

LEMMA ResidentsFinite ==
  \A r : IsFiniteSet(Residents(r)) /\ Cardinality(Residents(r)) \in Nat
<1> SUFFICES ASSUME NEW r
             PROVE  IsFiniteSet(Residents(r)) /\ Cardinality(Residents(r)) \in Nat
  OBVIOUS
<1>1. Residents(r) \subseteq Rows /\ IsFiniteSet(Rows)
  BY RowsAssumption DEF Residents, RowsAssumption
<1>2. IsFiniteSet(Residents(r))
  BY <1>1, FS_Subset
<1> QED BY <1>2, FS_CardinalityType

LEMMA SameFewer == UNCHANGED stay => \A r : Fewer(r)
  BY DEF Fewer, Residents, Active

LEMMA CloseFewer ==
  ASSUME Types, NEW w \in Rows, Active(w), CloseStay(w)
  PROVE  \A r : Fewer(r)
<1>1. stay' = [stay EXCEPT ![w] = [stay[w] EXCEPT !.state = "out"]]
  BY DEF CloseStay
<1>2. [stay[w] EXCEPT !.state = "out"].state = "out"
  BY DEF Types, Stay, NoStay, GoneStay
<1> QED BY <1>1, <1>2 DEF Fewer, Residents, Active, Types

LEMMA DeleteFewer ==
  ASSUME Types, NEW h, DeleteRow(h)
  PROVE  /\ \A r : Fewer(r)
         /\ h.room \in Rooms => Residents(h.room)' = {}
<1>1. \A w \in Rows : stay'[w] = IF stay[w].room = h.room THEN GoneStay ELSE stay[w]
  BY DEF DeleteRow
<1>2. GoneStay.state = "gone" /\ GoneStay.room = None
  BY DEF GoneStay, NoStay
<1> QED BY <1>1, <1>2, NoneApart DEF Fewer, Residents, Active

LEMMA InsertGains ==
  ASSUME Types, NEW w \in Rows, NEW s, NEW q, InsertStay(w, s, q)
  PROVE  Gains(q, w, s) /\ \A r : r # q => Fewer(r)
<1>1. /\ stay[w].state = "none"
      /\ stay'[w] = [state |-> "active", student |-> s, room |-> q]
      /\ \A v \in Rows \ {w} : stay'[v] = stay[v]
  BY DEF InsertStay, NextRow, Types
<1> QED BY <1>1 DEF Gains, Fewer, Residents, Active

LEMMA FewerCount ==
  ASSUME NEW r, Fewer(r)
  PROVE  Cardinality(Residents(r)') <= Cardinality(Residents(r))
<1>1. Residents(r)' \subseteq Residents(r)
  BY DEF Fewer
<1> QED BY <1>1, ResidentsFinite, FS_Subset

LEMMA GainsCount ==
  ASSUME NEW r, NEW w, NEW s, Gains(r, w, s)
  PROVE  Cardinality(Residents(r)') = Cardinality(Residents(r)) + 1
  BY ResidentsFinite, FS_AddElement DEF Gains

\* What a step does to the calls that are after a room.
LEMMA OnBegin ==
  ASSUME NEW g, Begin(g), NEW r \in Rooms
  PROVE  /\ g.room # r => On(r)' = On(r)
         /\ g.room = r => On(r)' = On(r) \cup {g}
         /\ g.room = r /\ r \notin contended' => On(r) = {}
  BY DEF Begin, On

LEMMA OnEnd ==
  ASSUME NEW h, End(h), NEW r
  PROVE  On(r)' = On(r) \ {h} /\ contended' = contended
  BY DEF End, On

LEMMA OnContinue ==
  ASSUME Types, NEW h \in handlers, NEW step \in Steps, Continue(h, step), NEW r
  PROVE  /\ h.room # r => On(r)' = On(r)
         /\ h.room = r => On(r)' = (On(r) \ {h}) \cup {[h EXCEPT !.step = step]}
         /\ contended' = contended
<1> DEFINE g == [h EXCEPT !.step = step]
<1>1. g.room = h.room
  BY Restep DEF Types, Calls
<1>2. handlers' = (handlers \ {h}) \cup {g} /\ contended' = contended
  BY DEF Continue
<1> HIDE DEF g
<1>3. /\ h.room # r => On(r)' = On(r)
      /\ h.room = r => On(r)' = (On(r) \ {h}) \cup {g}
  BY <1>1, <1>2 DEF On
<1> QED BY <1>2, <1>3 DEF g

-----------------------------------------------------------------------------
(* By how much a room can be overbooked. *)

Bounded == IsFiniteSet(handlers) /\ Cardinality(handlers) <= MaxHandlers
Unbuilt == \A r \in Rooms : present[r] = "none" => capacity[r] = 0

LEMMA CallKinds ==
  ASSUME [Next]_vars
  PROVE  \/ handlers' \subseteq handlers
         \/ \E g : Begin(g)
         \/ \E h \in handlers, step \in Steps : Continue(h, step)
<1> DEFINE P == \/ handlers' \subseteq handlers
                \/ \E g : Begin(g)
                \/ \E h \in handlers, step \in Steps : Continue(h, step)
<1>1. ASSUME NEW r \in Rooms, RoomStep(r)
      PROVE  P
  <2>1. CASE \E c \in Capacities : CreateRoom(r, c) \/ UpdateRoom(r, c)
    BY <2>1 DEF CreateRoom, UpdateRoom
  <2> QED BY <1>1, <2>1 DEF RoomStep, RestrictCheck, DeleteCheck, AddResidentCheck
<1>2. ASSUME NEW w \in Rows, StayStep(w)
      PROVE  P
  BY <1>2 DEF StayStep, MoveOutResident, TransferResident, RequestTransfer, RequestExit
<1>3. CASE Decide
  BY <1>3 DEF Decide, ApproveTransfer, RejectTransfer, ApproveExit, RejectExit
<1>4. ASSUME NEW h \in handlers, HandlerStep(h)
      PROVE  P
  <2>1. CASE \/ TransferLeave(h) \/ TransferClaim(h) \/ ApproveLeave(h) \/ ApproveClaim(h)
             \/ \E w \in Rows : ApproveInsert(h, w)
    BY <2>1 DEF TransferLeave, TransferClaim, ApproveLeave, ApproveClaim, ApproveInsert,
                Steps
  <2> QED
    BY <1>4, <2>1
    DEF HandlerStep, RestrictSave, DeleteRow, TransferRefused, ApproveRefused,
        ApproveDecide, ExitLeave, Refused, Abort, AddResidentInsert, TransferInsert,
        RequestTransferInsert, RequestExitInsert, End
<1>5. CASE UNCHANGED vars
  BY <1>5 DEF vars
<1>6. CASE Reprofiled
  BY <1>6, ReprofiledApart
<1> QED BY <1>1, <1>2, <1>3, <1>4, <1>5, <1>6 DEF Next, Reprofiled

LEMMA BoundedKept ==
  ASSUME Bounded, [Next]_vars
  PROVE  Bounded'
<1>0. MaxHandlers \in Nat /\ Cardinality(handlers) \in Nat
  BY BoundsAssumption, FS_CardinalityType DEF BoundsAssumption, Bounded
<1>1. CASE handlers' \subseteq handlers
  <2>1. IsFiniteSet(handlers') /\ Cardinality(handlers') <= Cardinality(handlers)
    BY <1>1, FS_Subset DEF Bounded
  <2>2. Cardinality(handlers') \in Nat
    BY <2>1, FS_CardinalityType
  <2> QED BY <1>0, <2>1, <2>2 DEF Bounded
<1>2. ASSUME NEW g, Begin(g)
      PROVE  Bounded'
  <2>1. /\ IsFiniteSet(handlers')
        /\ Cardinality(handlers') = Cardinality(handlers) + 1
    BY <1>2, FS_AddElement DEF Begin, Bounded
  <2> QED BY <1>0, <1>2, <2>1 DEF Bounded, Begin
<1>3. ASSUME NEW h \in handlers, NEW step \in Steps, Continue(h, step)
      PROVE  Bounded'
  <2> DEFINE S == handlers \ {h}
             g == [h EXCEPT !.step = step]
  <2>1. IsFiniteSet(S) /\ Cardinality(S) = Cardinality(handlers) - 1
    BY FS_RemoveElement DEF Bounded
  <2>2. handlers' = S \cup {g}
    BY <1>3 DEF Continue
  <2> HIDE DEF S, g
  <2>3. /\ IsFiniteSet(S \cup {g})
        /\ Cardinality(S \cup {g}) = IF g \in S THEN Cardinality(S) ELSE Cardinality(S) + 1
    BY <2>1, FS_AddElement
  <2> QED BY <1>0, <2>1, <2>2, <2>3 DEF Bounded
<1> QED BY <1>1, <1>2, <1>3, CallKinds

LEMMA InsertingCount ==
  ASSUME Bounded, NEW r
  PROVE  /\ IsFiniteSet(Inserting(r)) /\ Cardinality(Inserting(r)) \in Nat
         /\ Cardinality(Inserting(r)) <= MaxHandlers
<1>1. Inserting(r) \subseteq handlers
  BY DEF Inserting
<1>2. IsFiniteSet(Inserting(r)) /\ Cardinality(Inserting(r)) <= Cardinality(handlers)
  BY <1>1, FS_Subset DEF Bounded
<1>3. Cardinality(Inserting(r)) \in Nat /\ Cardinality(handlers) \in Nat /\ MaxHandlers \in Nat
  BY <1>2, FS_CardinalityType, BoundsAssumption DEF BoundsAssumption, Bounded
<1> QED BY <1>2, <1>3 DEF Bounded

\* One room: nobody comes, somebody is let in, somebody comes.
Seats(r) ==
  Cardinality(Residents(r)) + Cardinality(Inserting(r)) < capacity[r] + MaxHandlers

LEMMA SeatsStill ==
  ASSUME Types, Bounded, Bounded', NEW r \in Rooms, Seats(r), Fewer(r),
         Inserting(r)' \subseteq Inserting(r), capacity'[r] = capacity[r]
  PROVE  Seats(r)'
<1>1. Cardinality(Residents(r)') <= Cardinality(Residents(r))
  BY FewerCount
<1>2. Cardinality(Inserting(r)') <= Cardinality(Inserting(r))
  BY InsertingCount, FS_Subset
<1>3. /\ Cardinality(Residents(r)) \in Nat /\ Cardinality(Inserting(r)) \in Nat
      /\ Cardinality(Residents(r)') \in Nat /\ Cardinality(Inserting(r)') \in Nat
  <2>1. IsFiniteSet(Residents(r)') /\ IsFiniteSet(Inserting(r)')
    BY ResidentsFinite, InsertingCount, FS_Subset DEF Fewer
  <2> QED BY <2>1, ResidentsFinite, InsertingCount, FS_CardinalityType
<1>4. capacity[r] \in Nat /\ MaxHandlers \in Nat
  BY BoundsAssumption DEF BoundsAssumption, Types
<1> QED BY <1>1, <1>2, <1>3, <1>4 DEF Seats

LEMMA SeatsLet ==
  ASSUME Types, Bounded, Bounded', NEW r \in Rooms, FreeSeat(r), UNCHANGED stay,
         UNCHANGED capacity
  PROVE  Seats(r)'
<1>1. Residents(r)' = Residents(r)
  BY DEF Residents, Active
<1>2. /\ Cardinality(Inserting(r)') \in Nat /\ Cardinality(Inserting(r)') <= MaxHandlers
  <2>1. Inserting(r)' \subseteq handlers' /\ IsFiniteSet(handlers')
    BY DEF Inserting, Bounded
  <2>2. IsFiniteSet(Inserting(r)') /\ Cardinality(Inserting(r)') <= Cardinality(handlers')
    BY <2>1, FS_Subset
  <2>3. Cardinality(Inserting(r)') \in Nat /\ Cardinality(handlers') \in Nat
    BY <2>1, <2>2, FS_CardinalityType
  <2> QED BY <2>2, <2>3, BoundsAssumption DEF Bounded, BoundsAssumption
<1>3. capacity[r] \in Nat /\ MaxHandlers \in Nat /\ Cardinality(Residents(r)) \in Nat
  BY BoundsAssumption, ResidentsFinite DEF BoundsAssumption, Types
<1> QED BY <1>1, <1>2, <1>3 DEF Seats, FreeSeat

LEMMA SeatsTaken ==
  ASSUME Types, Bounded, NEW r \in Rooms, NEW w, NEW h \in Inserting(r), Seats(r),
         Gains(r, w, h.student), Inserting(r)' = Inserting(r) \ {h},
         UNCHANGED capacity
  PROVE  Seats(r)'
<1>1. Cardinality(Residents(r)') = Cardinality(Residents(r)) + 1
  BY GainsCount
<1>2. Cardinality(Inserting(r)') = Cardinality(Inserting(r)) - 1
  BY InsertingCount, FS_RemoveElement
<1>3. /\ capacity[r] \in Nat /\ MaxHandlers \in Nat
      /\ Cardinality(Residents(r)) \in Nat /\ Cardinality(Inserting(r)) \in Nat
  BY BoundsAssumption, ResidentsFinite, InsertingCount DEF BoundsAssumption, Types
<1> QED BY <1>1, <1>2, <1>3 DEF Seats

LEMMA SeatsKept ==
  ASSUME Types, Bounded, Bounded', Unbuilt, SeatsBounded, [Next]_vars
  PROVE  SeatsBounded'
<1> USE DEF roomVars, ghostVars
<1>0. SUFFICES ASSUME NEW r \in Rooms, r \notin lowered'
               PROVE  Seats(r)'
  BY DEF SeatsBounded, Seats
<1>a. ASSUME \A q \in Rooms : Fewer(q), Inserting(r)' \subseteq Inserting(r),
             UNCHANGED <<capacity, lowered>>
      PROVE  Seats(r)'
  BY <1>0, <1>a, SeatsStill DEF SeatsBounded, Seats
<1>b. ASSUME NEW g, Begin(g), g.step \notin InsertSteps, UNCHANGED <<stay, capacity, lowered>>
      PROVE  Seats(r)'
  BY <1>a, <1>b, SameFewer DEF Begin, Inserting, InsertSteps
<1>c. ASSUME NEW h \in handlers, NEW q \in Rooms, h.room = q, FreeSeat(q),
             NEW step \in Steps, Continue(h, step), UNCHANGED <<stay, capacity, lowered>>
      PROVE  Seats(r)'
  <2>1. CASE r = q
    BY <1>c, <2>1, SeatsLet
  <2>2. CASE r # q
    <3> DEFINE g == [h EXCEPT !.step = step]
    <3>1. g.room = q
      BY <1>c, Restep DEF Types, Calls
    <3>2. handlers' = (handlers \ {h}) \cup {g}
      BY <1>c DEF Continue
    <3> HIDE DEF g
    <3>3. Inserting(r)' \subseteq Inserting(r)
      BY <2>2, <3>1, <3>2 DEF Inserting
    <3> QED BY <1>a, <1>c, <3>3, SameFewer
  <2> QED BY <2>1, <2>2
<1>d. ASSUME NEW h \in handlers, NEW step \in Steps \ InsertSteps, Continue(h, step)
      PROVE  Inserting(r)' \subseteq Inserting(r)
  <2> DEFINE g == [h EXCEPT !.step = step]
  <2>1. g.step = step
    BY Restep DEF Types, Calls
  <2>2. handlers' = (handlers \ {h}) \cup {g}
    BY <1>d DEF Continue
  <2> HIDE DEF g
  <2> QED BY <2>1, <2>2 DEF Inserting, InsertSteps
<1>e. ASSUME NEW w \in Rows, NEW h \in handlers, h.step \in InsertSteps,
             InsertStay(w, h.student, h.room), UNCHANGED <<capacity, lowered>>,
             Inserting(r)' = Inserting(r) \ {h}
      PROVE  Seats(r)'
  <2>1. Gains(h.room, w, h.student) /\ (r # h.room => Fewer(r))
    BY <1>e, InsertGains
  <2>2. CASE r = h.room
    <3>1. h \in Inserting(r)
      BY <1>e, <2>2 DEF Inserting, InsertSteps
    <3> QED BY <1>0, <1>e, <2>1, <2>2, <3>1, SeatsTaken DEF SeatsBounded, Seats
  <2>3. CASE r # h.room
    BY <1>0, <1>e, <2>1, <2>3, SeatsStill DEF SeatsBounded, Seats
  <2> QED BY <2>2, <2>3
<1>1. ASSUME NEW q \in Rooms, NEW c \in Capacities, CreateRoom(q, c) \/ UpdateRoom(q, c)
      PROVE  Seats(r)'
  <2>1. UNCHANGED <<stay, handlers>>
    BY <1>1 DEF CreateRoom, UpdateRoom
  <2>2. Residents(r)' = Residents(r) /\ Inserting(r)' = Inserting(r)
    BY <2>1 DEF Residents, Active, Inserting
  <2>3. /\ Cardinality(Residents(r)) \in Nat /\ Cardinality(Inserting(r)) \in Nat
        /\ capacity[r] \in Nat /\ MaxHandlers \in Nat \ {0} /\ c \in Nat \ {0}
    BY ResidentsFinite, InsertingCount, BoundsAssumption, CapacitiesAssumption
    DEF Types, BoundsAssumption, CapacitiesAssumption
  <2>4. CASE r # q
    <3>1. capacity'[r] = capacity[r] /\ r \notin lowered
      BY <1>0, <1>1, <2>4 DEF CreateRoom, UpdateRoom, Types
    <3> QED BY <2>2, <3>1 DEF SeatsBounded, Seats
  <2>5. CASE r = q /\ CreateRoom(q, c)
    <3>1. capacity[r] = 0 /\ capacity'[r] = c /\ r \notin lowered
      BY <1>0, <2>5 DEF CreateRoom, Types, Unbuilt
    <3> QED BY <2>2, <2>3, <3>1 DEF SeatsBounded, Seats
  <2>6. CASE r = q /\ UpdateRoom(q, c)
    <3>1. capacity'[r] = c /\ ~(c < Cardinality(Residents(r)) + Cardinality(Inserting(r)))
      BY <1>0, <2>6 DEF UpdateRoom, Types
    <3> QED BY <2>2, <2>3, <3>1 DEF Seats
  <2> QED BY <1>1, <2>4, <2>5, <2>6
<1>2. ASSUME NEW q \in Rooms, NEW who \in Restrictions, RestrictCheck(q, who)
      PROVE  Seats(r)'
  BY <1>b, <1>2 DEF RestrictCheck, Request, InsertSteps
<1>3. ASSUME NEW q \in Rooms, DeleteCheck(q)
      PROVE  Seats(r)'
  BY <1>b, <1>3 DEF DeleteCheck, Request, InsertSteps
<1>4. ASSUME NEW s \in Students, NEW q \in Rooms, AddResidentCheck(s, q)
      PROVE  Seats(r)'
  <2>1. FreeSeat(q) /\ UNCHANGED <<stay, capacity, lowered>>
    BY <1>4 DEF AddResidentCheck, ValidateAssignable
  <2>2. CASE r = q
    BY <2>1, <2>2, SeatsLet
  <2>3. CASE r # q
    <3>1. Inserting(r)' \subseteq Inserting(r)
      BY <1>4, <2>3 DEF AddResidentCheck, Begin, Request, Inserting
    <3> QED BY <1>a, <2>1, <3>1, SameFewer
  <2> QED BY <2>2, <2>3
<1>5. ASSUME NEW w \in Rows, StayStep(w)
      PROVE  Seats(r)'
  <2>1. CASE MoveOutResident(w)
    BY <1>a, <2>1, CloseFewer DEF MoveOutResident, Inserting
  <2>2. ASSUME NEW q \in Rooms, TransferResident(w, q)
        PROVE  Seats(r)'
    BY <1>b, <2>2 DEF TransferResident, Request, InsertSteps
  <2>3. CASE RequestTransfer(w)
    BY <1>b, <2>3 DEF RequestTransfer, Request, InsertSteps
  <2>4. CASE RequestExit(w)
    BY <1>b, <2>4 DEF RequestExit, Request, InsertSteps
  <2> QED BY <1>5, <2>1, <2>2, <2>3, <2>4 DEF StayStep
<1>6. CASE Decide
  <2>1. ASSUME NEW t \in Transfers, NEW w \in Rows, NEW q \in Rooms, ApproveTransfer(t, w, q)
        PROVE  Seats(r)'
    BY <1>b, <2>1 DEF ApproveTransfer, Request, InsertSteps
  <2>2. ASSUME NEW e \in Exits, ApproveExit(e)
        PROVE  Seats(r)'
    BY <1>b, <2>2 DEF ApproveExit, Request, InsertSteps
  <2>3. CASE (\E t \in Transfers : RejectTransfer(t)) \/ (\E e \in Exits : RejectExit(e))
    BY <1>a, <2>3, SameFewer DEF RejectTransfer, RejectExit, Inserting
  <2> QED BY <1>6, <2>1, <2>2, <2>3 DEF Decide
<1>7. ASSUME NEW h \in handlers, HandlerStep(h)
      PROVE  Seats(r)'
  <2>0. Shaped(h)
    BY DEF Types, Calls
  <2>1. CASE DeleteRow(h)
    BY <1>a, <2>1, DeleteFewer DEF DeleteRow, End, Inserting
  <2>2. CASE ExitLeave(h)
    <3>1. h.row \in Rows /\ \A q \in Rooms : Fewer(q)
      BY <2>0, <2>2, SameFewer, CloseFewer DEF ExitLeave, Shaped
    <3> QED BY <1>a, <2>2, <3>1 DEF ExitLeave, End, Inserting
  <2>3. CASE TransferLeave(h) \/ ApproveLeave(h)
    <3>1. h.row \in Rows /\ \A q \in Rooms : Fewer(q)
      BY <2>0, <2>3, CloseFewer DEF TransferLeave, ApproveLeave, Shaped
    <3>2. Inserting(r)' \subseteq Inserting(r)
      BY <1>d, <2>3 DEF TransferLeave, ApproveLeave, Steps, InsertSteps
    <3> QED BY <1>a, <2>3, <3>1, <3>2 DEF TransferLeave, ApproveLeave
  <2>4. CASE TransferClaim(h) \/ ApproveClaim(h)
    <3>1. h.room \in Rooms /\ FreeSeat(h.room)
      BY <2>0, <2>4 DEF TransferClaim, ApproveClaim, ValidateAssignable, Shaped, Claims,
                        ApproveSteps
    <3> QED BY <1>c, <2>4, <3>1 DEF TransferClaim, ApproveClaim, Steps
  <2>5. CASE \/ RestrictSave(h) \/ TransferRefused(h) \/ ApproveRefused(h) \/ ApproveDecide(h)
             \/ Refused(h) \/ Abort(h)
             \/ (\E t \in Transfers, wanted \in Rooms \cup {None} :
                   RequestTransferInsert(h, t, wanted))
             \/ (\E e \in Exits : RequestExitInsert(h, e))
    <3>1. handlers' = handlers \ {h} /\ UNCHANGED <<stay, capacity, lowered>>
      BY <2>5 DEF RestrictSave, TransferRefused, ApproveRefused, ApproveDecide, Refused,
                  Abort, RequestTransferInsert, RequestExitInsert, End
    <3> QED BY <1>a, <3>1, SameFewer DEF Inserting
  <2>6. ASSUME NEW w \in Rows, AddResidentInsert(h, w) \/ TransferInsert(h, w)
        PROVE  Seats(r)'
    <3>1. handlers' = handlers \ {h} /\ h.step \in InsertSteps
      BY <2>6 DEF AddResidentInsert, TransferInsert, End, InsertSteps
    <3>2. Inserting(r)' = Inserting(r) \ {h}
      BY <3>1 DEF Inserting
    <3> QED BY <1>e, <2>6, <3>1, <3>2 DEF AddResidentInsert, TransferInsert
  <2>7. ASSUME NEW w \in Rows, ApproveInsert(h, w)
        PROVE  Seats(r)'
    <3> DEFINE g == [h EXCEPT !.step = "approve.decide"]
    <3>1. g.step = "approve.decide"
      BY Restep DEF Types, Calls, Steps
    <3>2. handlers' = (handlers \ {h}) \cup {g} /\ h.step \in InsertSteps
      BY <2>7 DEF ApproveInsert, Continue, InsertSteps
    <3> HIDE DEF g
    <3>3. Inserting(r)' = Inserting(r) \ {h}
      BY <3>1, <3>2 DEF Inserting
    <3> QED BY <1>e, <2>7, <3>2, <3>3 DEF ApproveInsert
  <2> QED BY <1>7, <2>1, <2>2, <2>3, <2>4, <2>5, <2>6, <2>7 DEF HandlerStep
<1>8. CASE UNCHANGED vars
  BY <1>a, <1>8, SameFewer DEF vars, Inserting
<1>9. CASE Reprofiled
  BY <1>a, <1>9, ReprofiledApart, SameFewer DEF Inserting
<1> QED BY <1>1, <1>2, <1>3, <1>4, <1>5, <1>6, <1>7, <1>8, <1>9
        DEF Next, RoomStep, Reprofiled

LEMMA UnbuiltKept ==
  ASSUME Types, Unbuilt, [Next]_vars
  PROVE  Unbuilt'
<1> USE DEF roomVars, ghostVars
<1>1. ASSUME NEW r \in Rooms, NEW c \in Capacities, CreateRoom(r, c) \/ UpdateRoom(r, c)
      PROVE  Unbuilt'
  BY <1>1 DEF CreateRoom, UpdateRoom, Unbuilt, Types
<1>2. CASE UNCHANGED <<present, capacity>>
  BY <1>2 DEF Unbuilt
<1>3. ASSUME NEW r \in Rooms, RoomStep(r)
      PROVE  Unbuilt'
  BY <1>1, <1>2, <1>3 DEF RoomStep, RestrictCheck, DeleteCheck, AddResidentCheck
<1>4. ASSUME NEW w \in Rows, StayStep(w)
      PROVE  Unbuilt'
  BY <1>2, <1>4 DEF StayStep, MoveOutResident, TransferResident, RequestTransfer,
                    RequestExit
<1>5. CASE Decide
  BY <1>2, <1>5 DEF Decide, ApproveTransfer, RejectTransfer, ApproveExit, RejectExit
<1>6. ASSUME NEW h \in handlers, HandlerStep(h)
      PROVE  Unbuilt'
  <2>1. CASE DeleteRow(h)
    BY <2>1 DEF DeleteRow, Unbuilt, Types
  <2>2. CASE RestrictSave(h) \/ TransferClaim(h) \/ TransferRefused(h) \/ ApproveClaim(h)
             \/ ApproveRefused(h) \/ ApproveDecide(h) \/ Refused(h) \/ Abort(h)
    BY <1>2, <2>2 DEF RestrictSave, TransferClaim, TransferRefused, ApproveClaim,
                ApproveRefused, ApproveDecide, Refused, Abort
  <2>3. CASE \/ TransferLeave(h) \/ ApproveLeave(h) \/ ExitLeave(h)
             \/ (\E t \in Transfers, wanted \in Rooms \cup {None} :
                   RequestTransferInsert(h, t, wanted))
             \/ (\E e \in Exits : RequestExitInsert(h, e))
    BY <1>2, <2>3 DEF TransferLeave, ApproveLeave, ExitLeave, RequestTransferInsert,
                      RequestExitInsert
  <2>4. CASE \E w \in Rows :
               AddResidentInsert(h, w) \/ TransferInsert(h, w) \/ ApproveInsert(h, w)
    BY <1>2, <2>4 DEF AddResidentInsert, TransferInsert, ApproveInsert
  <2> QED BY <1>6, <2>1, <2>2, <2>3, <2>4 DEF HandlerStep
<1>7. CASE UNCHANGED vars
  BY <1>2, <1>7 DEF vars
<1>8. CASE Reprofiled
  BY <1>2, <1>8, ReprofiledApart
<1> QED BY <1>3, <1>4, <1>5, <1>6, <1>7, <1>8 DEF Next, Reprofiled

-----------------------------------------------------------------------------
(* Only a request for the same room, or a new profile, spoils a check. *)

\* One room of RoomsApart.
RoomOK(r) ==
  /\ Cardinality(Residents(r)) <= capacity[r] \/ r \in lowered
  /\ r \in outgrown \/ \A w \in Residents(r) : Admitted(stay[w].student, r)
  /\ r \notin harmed

\* What a call has checked of the room it is after still holds.
Vetted(h, r) ==
  /\ h.step \in {"transfer.leave", "transfer.claim"} \cup InsertSteps
       => /\ present[r] = "there" /\ FreeSeat(r)
          /\ r \in outgrown \/ Admitted(h.student, r)
  /\ h.step = "restrict.save" /\ r \notin outgrown
       => \A w \in Residents(r) : profile[stay[w].student] \in h.admits
  /\ h.step = "room.delete" => Residents(r) = {}

Good(r) ==
  /\ RoomOK(r)
  /\ \A g, h \in On(r) : g = h
  /\ \A h \in On(r) : Vetted(h, r)
AllGood == \A r \in Rooms \ contended : Good(r)

\* The row of the room says no less than it did, and nobody has changed.
RoomStays(r) ==
  /\ present[r] = "there" => present'[r] = "there"
  /\ capacity[r] \in Nat /\ capacity'[r] \in Nat /\ capacity[r] <= capacity'[r]
  /\ admits'[r] = admits[r] /\ profile' = profile
  /\ lowered \subseteq lowered' /\ outgrown \subseteq outgrown'

LEMMA FewerSeats ==
  ASSUME NEW r \in Rooms, Fewer(r), RoomStays(r)
  PROVE  /\ FreeSeat(r) => FreeSeat(r)'
         /\ Cardinality(Residents(r)) <= capacity[r]
              => (Cardinality(Residents(r)) <= capacity[r])'
<1>1. Residents(r)' \subseteq Residents(r) /\ IsFiniteSet(Residents(r))
  BY ResidentsFinite DEF Fewer
<1>2. /\ Cardinality(Residents(r)') <= Cardinality(Residents(r))
      /\ Cardinality(Residents(r)') \in Nat /\ Cardinality(Residents(r)) \in Nat
  BY <1>1, FS_Subset, FS_CardinalityType
<1>3. capacity[r] \in Nat /\ capacity'[r] \in Nat /\ capacity[r] <= capacity'[r]
  BY DEF RoomStays
<1> QED BY <1>2, <1>3 DEF FreeSeat

LEMMA VettedStill ==
  ASSUME NEW r \in Rooms, Fewer(r), RoomStays(r), NEW h, Vetted(h, r)
  PROVE  Vetted(h, r)'
  BY FewerSeats DEF Vetted, RoomStays, Fewer, Admitted

LEMMA RoomStill ==
  ASSUME NEW r \in Rooms, Fewer(r), RoomStays(r), RoomOK(r), r \notin harmed'
  PROVE  RoomOK(r)'
  BY FewerSeats DEF RoomOK, RoomStays, Fewer, Admitted

LEMMA GoodStill ==
  ASSUME NEW r \in Rooms, Fewer(r), RoomStays(r), Good(r), r \notin harmed',
         On(r)' \subseteq On(r)
  PROVE  Good(r)'
  BY VettedStill, RoomStill DEF Good

\* The only call that is after the room has moved on.
LEMMA GoodMoved ==
  ASSUME NEW r \in Rooms, Fewer(r), RoomStays(r), Good(r), r \notin harmed',
         NEW g, On(r)' \subseteq {g}, Vetted(g, r)'
  PROVE  Good(r)'
  BY RoomStill DEF Good

\* The call that has checked the room brings its student in.
LEMMA GoodGains ==
  ASSUME Types, NEW r \in Rooms, Good(r), NEW h \in On(r), h.step \in InsertSteps,
         NEW w, Gains(r, w, h.student),
         UNCHANGED <<present, capacity, admits, profile, lowered, outgrown, harmed>>,
         On(r)' = {} \/ \E g : On(r)' = {g} /\ g.step = "approve.decide"
  PROVE  Good(r)'
<1>1. FreeSeat(r) /\ (r \in outgrown \/ Admitted(h.student, r))
  BY DEF Good, Vetted
<1>2. Cardinality(Residents(r)') = Cardinality(Residents(r)) + 1
  BY GainsCount
<1>3. Cardinality(Residents(r)) \in Nat /\ capacity[r] \in Nat
  BY ResidentsFinite DEF Types
<1>4. Cardinality(Residents(r)') <= capacity'[r]
  BY <1>1, <1>2, <1>3 DEF FreeSeat
<1>5. RoomOK(r)'
  BY <1>1, <1>4 DEF RoomOK, Good, Gains, Admitted
<1> QED BY <1>5 DEF Good, Vetted, InsertSteps

\* Who no longer satisfies a room turns it into one of outgrown.
LEMMA GoodReprofiled ==
  ASSUME Types, NEW r \in Rooms \ contended, Good(r), Reprofiled
  PROVE  Good(r)'
<1>1. /\ UNCHANGED <<present, capacity, admits, stay, handlers, contended, lowered, harmed>>
      /\ outgrown' = outgrown \cup (Outgrown(profile') \ contended)
  BY ReprofiledApart
<1>2. Residents(r)' = Residents(r) /\ On(r)' = On(r) /\ FreeSeat(r)' = FreeSeat(r)
  BY <1>1 DEF Residents, Active, On, FreeSeat
<1>3. ASSUME r \notin outgrown'
      PROVE  /\ r \notin outgrown
             /\ \A s \in Students :
                  \/ profile'[s] = profile[s]
                  \/ ~Turned(profile'[s], r)
                  \/ /\ ~\E w \in Residents(r) : stay[w].student = s
                     /\ ~\E h \in On(r) : h.student = s
  BY <1>1, <1>3 DEF Outgrown, On
<1>4. \A w \in Residents(r) : stay[w].student \in Students
  BY StayFields DEF Residents, Active, Types
<1>5. RoomOK(r)'
  <2>1. ASSUME r \notin outgrown', NEW w \in Residents(r)
        PROVE  Admitted(stay[w].student, r)'
    BY <1>1, <1>3, <1>4, <2>1 DEF Admitted, Turned, RoomOK, Good
  <2> QED BY <1>1, <1>2, <2>1 DEF RoomOK, Good, Admitted
<1>6. ASSUME NEW h \in On(r)
      PROVE  Vetted(h, r)'
  <2>1. Vetted(h, r) /\ Shaped(h) /\ h \in handlers
    BY DEF Good, On, Types, Calls
  <2>2. h.step \in {"transfer.leave", "transfer.claim"} \cup InsertSteps
          => h.student \in Students
    BY <2>1 DEF Shaped, Claims, ApproveSteps, InsertSteps
  <2>3. ASSUME h.step \in {"transfer.leave", "transfer.claim"} \cup InsertSteps,
               r \notin outgrown'
        PROVE  Admitted(h.student, r)'
    BY <1>1, <1>3, <2>1, <2>2, <2>3 DEF Admitted, Turned, Vetted
  <2>4. ASSUME h.step = "restrict.save", r \notin outgrown', NEW w \in Residents(r)
        PROVE  profile'[stay[w].student] \in h.admits
    BY <1>1, <1>3, <1>4, <2>1, <2>4 DEF Turned, Vetted, On
  <2> QED BY <1>1, <1>2, <2>1, <2>3, <2>4 DEF Vetted, Admitted
<1> QED BY <1>2, <1>5, <1>6 DEF Good

LEMMA GoodKept ==
  ASSUME Types, Types', Unbuilt, AllGood, [Next]_vars
  PROVE  AllGood'
<1> USE DEF roomVars, ghostVars
<1>0. SUFFICES ASSUME NEW r \in Rooms, r \notin contended'
               PROVE  Good(r)'
  BY DEF AllGood
<1>g. r \notin contended => Good(r) /\ r \notin harmed
  BY DEF AllGood, Good, RoomOK
<1>s. UNCHANGED <<present, capacity, admits, profile, lowered, outgrown>> => RoomStays(r)
  BY DEF RoomStays, Types
\* No call comes after the room, and nobody comes to live in it.
<1>a. ASSUME r \notin contended, \A q \in Rooms : Fewer(q), RoomStays(r), r \notin harmed',
             On(r)' \subseteq On(r)
      PROVE  Good(r)'
  BY <1>a, <1>g, GoodStill
\* A call that has checked its room begins.
<1>b. ASSUME NEW g, Begin(g), UNCHANGED <<roomVars, stay, lowered, outgrown, harmed>>,
             g.room = r => Vetted(g, r)
      PROVE  Good(r)'
  <2>1. /\ r \notin contended /\ RoomStays(r) /\ Fewer(r) /\ r \notin harmed'
    BY <1>0, <1>b, <1>g, <1>s, SameFewer DEF Begin
  <2>2. CASE g.room # r
    BY <1>b, <2>1, <2>2, <1>g, OnBegin, GoodStill
  <2>3. CASE g.room = r
    <3>1. On(r)' \subseteq {g}
      BY <1>0, <1>b, <2>3, OnBegin
    <3>2. Vetted(g, r)'
      BY <1>b, <2>1, <2>3, VettedStill
    <3> QED BY <2>1, <3>1, <3>2, <1>g, GoodMoved
  <2> QED BY <2>2, <2>3
\* A call goes on, and nobody comes to live in a room.
<1>c. ASSUME NEW h \in handlers, NEW step \in Steps, Continue(h, step),
             \A q \in Rooms : Fewer(q), UNCHANGED <<roomVars, lowered, outgrown, harmed>>,
             h.room = r /\ Vetted(h, r) => Vetted([h EXCEPT !.step = step], r)'
      PROVE  Good(r)'
  <2> DEFINE g == [h EXCEPT !.step = step]
  <2>1. /\ contended' = contended
        /\ h.room # r => On(r)' = On(r)
        /\ h.room = r => On(r)' = (On(r) \ {h}) \cup {g}
    BY <1>c, OnContinue
  <2>2. h.room = r /\ Vetted(h, r) => Vetted(g, r)'
    BY <1>c
  <2> HIDE DEF g
  <2>3. RoomStays(r) /\ r \notin contended /\ r \notin harmed'
    BY <1>0, <1>c, <1>g, <1>s, <2>1
  <2>4. CASE h.room # r
    BY <1>a, <1>c, <2>1, <2>3, <2>4
  <2>5. CASE h.room = r
    <3>1. h \in On(r) /\ Good(r)
      BY <1>g, <2>3, <2>5 DEF On
    <3>2. On(r)' \subseteq {g} /\ Vetted(g, r)'
      BY <2>1, <2>2, <2>5, <3>1 DEF Good
    <3> QED BY <1>c, <2>3, <3>1, <3>2, GoodMoved
  <2> QED BY <2>4, <2>5
\* A call ends, and nobody comes to live in a room.
<1>d. ASSUME NEW h, handlers' = handlers \ {h}, contended \subseteq contended',
             \A q \in Rooms : Fewer(q), UNCHANGED <<roomVars, lowered, outgrown, harmed>>
      PROVE  Good(r)'
  BY <1>0, <1>a, <1>d, <1>g, <1>s DEF On
\* A call brings its student in.
<1>e. ASSUME NEW w \in Rows, NEW h \in handlers, h.step \in InsertSteps,
             InsertStay(w, h.student, h.room), UNCHANGED <<roomVars, lowered, outgrown, harmed>>,
             contended' = contended,
             h.room # r => On(r)' = On(r),
             h.room = r => \/ On(r)' = On(r) \ {h}
                           \/ \E g : On(r)' = (On(r) \ {h}) \cup {g} /\ g.step = "approve.decide"
      PROVE  Good(r)'
  <2>1. Gains(h.room, w, h.student) /\ (r # h.room => Fewer(r))
    BY <1>e, InsertGains
  <2>2. r \notin contended /\ RoomStays(r) /\ Good(r) /\ r \notin harmed'
    BY <1>0, <1>e, <1>g, <1>s
  <2>3. CASE h.room # r
    BY <1>e, <2>1, <2>2, <2>3, GoodStill
  <2>4. CASE h.room = r
    <3>1. h \in On(r) /\ On(r) \ {h} = {}
      BY <2>2, <2>4 DEF On, Good
    <3>2. On(r)' = {} \/ \E g : On(r)' = {g} /\ g.step = "approve.decide"
      BY <1>e, <2>4, <3>1
    <3> QED BY <1>e, <2>1, <2>2, <2>4, <3>1, <3>2, GoodGains
  <2> QED BY <2>3, <2>4
<1>1. ASSUME NEW q \in Rooms, NEW c \in Capacities, CreateRoom(q, c)
      PROVE  Good(r)'
  <2>1. /\ UNCHANGED <<profile, admits, stay, handlers, contended, lowered, outgrown, harmed>>
        /\ \A p \in Rooms : Fewer(p)
    BY <1>1, SameFewer DEF CreateRoom
  <2>2. /\ capacity[r] \in Nat /\ capacity'[r] \in Nat
        /\ capacity'[r] = IF r = q THEN c ELSE capacity[r]
        /\ r = q => capacity[r] = 0
        /\ present[r] = "there" => present'[r] = "there"
    BY <1>1 DEF CreateRoom, Types, Unbuilt
  <2>3. RoomStays(r)
    BY <2>1, <2>2 DEF RoomStays
  <2> QED BY <1>0, <1>a, <1>g, <2>1, <2>3 DEF On
<1>2. ASSUME NEW q \in Rooms, NEW c \in Capacities, UpdateRoom(q, c)
      PROVE  Good(r)'
  <2>1. /\ UNCHANGED <<profile, present, admits, stay, handlers, outgrown, harmed>>
        /\ r \notin contended
        /\ On(r)' = On(r) /\ \A p \in Rooms : Fewer(p)
    BY <1>0, <1>2, SameFewer DEF UpdateRoom, On
  <2>2. CASE q # r
    <3>1. RoomStays(r)
      BY <1>2, <2>1, <2>2 DEF UpdateRoom, RoomStays, Types
    <3> QED BY <1>a, <1>g, <2>1, <3>1
  <2>3. CASE q = r
    <3>1. On(r)' = {}
      BY <1>0, <1>2, <2>1, <2>3 DEF UpdateRoom, On
    <3>2. Residents(r)' = Residents(r)
      BY <2>1 DEF Residents, Active
    <3>3. Cardinality(Residents(r)) <= c \/ r \in lowered'
      <4>1. Cardinality(Residents(r)) \in Nat /\ c \in Nat
        BY ResidentsFinite, CapacitiesAssumption DEF CapacitiesAssumption
      <4>2. Inserting(r) = {}
        BY <2>1, <3>1 DEF Inserting, On
      <4>3. Cardinality(Inserting(r)) = 0
        BY <4>2, FS_EmptySet
      <4> QED BY <1>2, <2>3, <4>1, <4>3 DEF UpdateRoom
    <3>4. capacity'[r] = c
      BY <1>2, <2>3 DEF UpdateRoom, Types
    <3>5. RoomOK(r)'
      BY <1>g, <2>1, <3>2, <3>3, <3>4 DEF RoomOK, Good, Admitted
    <3> QED BY <3>1, <3>5 DEF Good
  <2> QED BY <2>2, <2>3
<1>3. ASSUME NEW q \in Rooms, NEW who \in Restrictions, RestrictCheck(q, who)
      PROVE  Good(r)'
  <2> DEFINE g == [Request("restrict.save", None, None, q) EXCEPT !.admits = who]
  <2>1. g.step = "restrict.save" /\ g.admits = who /\ g.room = q
    BY DEF Request
  <2>2. /\ Begin(g) /\ UNCHANGED <<roomVars, stay, lowered, outgrown, harmed>>
        /\ \A w \in Residents(q) : profile[stay[w].student] \in who
    BY <1>3 DEF RestrictCheck
  <2> HIDE DEF g
  <2>3. g.room = r => Vetted(g, r)
    BY <2>1, <2>2 DEF Vetted, InsertSteps
  <2> QED BY <1>b, <2>2, <2>3
<1>4. ASSUME NEW q \in Rooms, DeleteCheck(q)
      PROVE  Good(r)'
  BY <1>b, <1>4 DEF DeleteCheck, Request, Vetted, InsertSteps
<1>5. ASSUME NEW s \in Students, NEW q \in Rooms, AddResidentCheck(s, q)
      PROVE  Good(r)'
  BY <1>b, <1>5 DEF AddResidentCheck, ValidateAssignable, Request, Vetted, InsertSteps
<1>6. ASSUME NEW w \in Rows, StayStep(w)
      PROVE  Good(r)'
  <2>1. CASE MoveOutResident(w)
    BY <1>0, <1>a, <1>g, <1>s, <2>1, CloseFewer DEF MoveOutResident, On
  <2>2. ASSUME NEW q \in Rooms, TransferResident(w, q)
        PROVE  Good(r)'
    BY <1>b, <2>2 DEF TransferResident, Request, Vetted, InsertSteps
  <2>3. CASE RequestTransfer(w)
    BY <1>b, <2>3, NoneApart DEF RequestTransfer, Request
  <2>4. CASE RequestExit(w)
    BY <1>b, <2>4, NoneApart DEF RequestExit, Request
  <2> QED BY <1>6, <2>1, <2>2, <2>3, <2>4 DEF StayStep
<1>7. CASE Decide
  <2>1. ASSUME NEW t \in Transfers, NEW w \in Rows, NEW q \in Rooms, ApproveTransfer(t, w, q)
        PROVE  Good(r)'
    BY <1>b, <2>1 DEF ApproveTransfer, Request, Vetted, InsertSteps
  <2>2. ASSUME NEW e \in Exits, ApproveExit(e)
        PROVE  Good(r)'
    BY <1>b, <2>2, NoneApart DEF ApproveExit, Request
  <2>3. CASE (\E t \in Transfers : RejectTransfer(t)) \/ (\E e \in Exits : RejectExit(e))
    BY <1>0, <1>a, <1>g, <1>s, <2>3, SameFewer DEF RejectTransfer, RejectExit, On
  <2> QED BY <1>7, <2>1, <2>2, <2>3 DEF Decide
<1>8. ASSUME NEW h \in handlers, HandlerStep(h)
      PROVE  Good(r)'
  <2>0. Shaped(h) /\ h \in Handler
    BY DEF Types, Calls
  <2>1. CASE RestrictSave(h)
    <3>1. /\ h.step = "restrict.save"
          /\ UNCHANGED <<profile, present, capacity, stay, lowered, outgrown, harmed>>
          /\ \A p \in Rooms : p # h.room => admits'[p] = admits[p]
          /\ admits'[h.room] \in {h.admits, admits[h.room]}
          /\ \A p \in Rooms : Fewer(p)
      BY <2>0, <2>1, SameFewer DEF RestrictSave, Shaped, Types
    <3>2. On(r)' = On(r) \ {h} /\ r \notin contended /\ Good(r) /\ r \notin harmed'
      BY <1>0, <1>g, <2>1, <3>1, OnEnd DEF RestrictSave
    <3>3. CASE h.room # r
      <4>1. RoomStays(r)
        BY <3>1, <3>3 DEF RoomStays, Types
      <4> QED BY <1>a, <3>1, <3>2, <4>1
    <3>4. CASE h.room = r
      <4>1. On(r)' = {} /\ Vetted(h, r)
        BY <3>2, <3>4 DEF On, Good
      <4>2. Residents(r)' = Residents(r)
        BY <3>1 DEF Residents, Active
      <4>3. RoomOK(r)'
        BY <3>1, <3>2, <3>4, <4>1, <4>2 DEF RoomOK, Good, Vetted, Admitted
      <4> QED BY <4>1, <4>3 DEF Good
    <3> QED BY <3>3, <3>4
  <2>2. CASE DeleteRow(h)
    <3>1. /\ h.step = "room.delete" /\ UNCHANGED <<profile, capacity, admits, lowered, outgrown>>
          /\ \A p \in Rooms : p # h.room => present'[p] = present[p]
          /\ \A p \in Rooms : Fewer(p)
      BY <2>2, DeleteFewer DEF DeleteRow, Types
    <3>2. On(r)' = On(r) \ {h} /\ r \notin contended /\ Good(r) /\ r \notin harmed
      BY <1>0, <1>g, <2>2, OnEnd DEF DeleteRow
    <3>3. CASE h.room # r
      <4>1. RoomStays(r) /\ r \notin harmed'
        BY <2>2, <3>1, <3>2, <3>3 DEF RoomStays, Types, DeleteRow, Harm
      <4> QED BY <1>a, <3>1, <3>2, <4>1
    <3>4. CASE h.room = r
      <4>1. On(r)' = {} /\ Vetted(h, r)
        BY <3>2, <3>4 DEF On, Good
      <4>2. Residents(r) = {} /\ Residents(r)' = {}
        BY <2>2, <3>1, <3>4, <4>1, DeleteFewer DEF Vetted
      <4>3. r \notin harmed'
        BY <2>2, <3>2, <3>4, <4>2 DEF DeleteRow, Harm
      <4>4. capacity'[r] \in Nat /\ Cardinality(Residents(r)') = 0
        BY <4>2, FS_EmptySet DEF Types
      <4>5. RoomOK(r)'
        BY <4>2, <4>3, <4>4 DEF RoomOK
      <4> QED BY <4>1, <4>5 DEF Good
    <3> QED BY <3>3, <3>4
  <2>3. CASE TransferLeave(h) \/ ApproveLeave(h)
    <3>1. h.row \in Rows /\ \A p \in Rooms : Fewer(p)
      BY <2>0, <2>3, CloseFewer DEF TransferLeave, ApproveLeave, Shaped
    <3>2. UNCHANGED <<roomVars, lowered, outgrown, harmed>>
      BY <2>3 DEF TransferLeave, ApproveLeave
    <3>3. PICK step \in Steps :
            /\ Continue(h, step)
            /\ step = "approve.claim" \/ (step = "transfer.claim" /\ h.step = "transfer.leave")
      BY <2>3 DEF TransferLeave, ApproveLeave, Steps
    <3> DEFINE g == [h EXCEPT !.step = step]
    <3>4. g.step = step /\ g.student = h.student
      BY <2>0, Restep
    <3> HIDE DEF g
    <3>5. Vetted(h, r) => Vetted(g, r)
      BY <3>3, <3>4 DEF Vetted, InsertSteps
    <3>6. RoomStays(r) /\ Fewer(r)
      BY <1>s, <3>1, <3>2
    <3>7. Vetted(h, r) => Vetted(g, r)'
      BY <3>5, <3>6, VettedStill
    <3> QED BY <1>c, <3>1, <3>2, <3>3, <3>7 DEF g
  <2>4. CASE TransferClaim(h) \/ ApproveClaim(h)
    <3>1. /\ UNCHANGED <<roomVars, stay, lowered, outgrown, harmed>>
          /\ ValidateAssignable(h.student, h.room)
      BY <2>4 DEF TransferClaim, ApproveClaim
    <3>6. PICK step \in Steps : Continue(h, step) /\ step \in InsertSteps
      BY <2>4 DEF TransferClaim, ApproveClaim, Steps, InsertSteps
    <3> DEFINE g == [h EXCEPT !.step = step]
    <3>2. g.step = step /\ g.student = h.student
      BY <2>0, Restep
    <3> HIDE DEF g
    <3>3. h.room = r => Vetted(g, r)
      BY <3>1, <3>6, <3>2 DEF Vetted, InsertSteps, ValidateAssignable
    <3>4. RoomStays(r) /\ \A p \in Rooms : Fewer(p)
      BY <1>s, <3>1, SameFewer
    <3>5. h.room = r => Vetted(g, r)'
      BY <3>3, <3>4, VettedStill
    <3> QED BY <1>c, <3>1, <3>6, <3>4, <3>5 DEF g
  <2>5. CASE TransferRefused(h)
    <3>1. /\ UNCHANGED <<roomVars, stay, lowered, outgrown>>
          /\ On(r)' = On(r) \ {h} /\ r \notin contended
      BY <1>0, <2>5, OnEnd DEF TransferRefused
    <3>2. r \notin harmed'
      <4>1. CASE h.room # r
        BY <1>g, <2>5, <3>1, <4>1 DEF TransferRefused, Harm
      <4>2. CASE h.room = r
        <5>1. Vetted(h, r)
          BY <1>g, <3>1, <4>2 DEF On, Good
        <5>2. Housed(h.student) \/ r \in outgrown
          BY <2>5, <4>2, <5>1
          DEF TransferRefused, ValidateAssignable, Insertable, Vetted, InsertSteps
        <5> QED BY <1>g, <2>5, <3>1, <5>2 DEF TransferRefused, Harm
      <4> QED BY <4>1, <4>2
    <3> QED BY <1>a, <1>s, <3>1, <3>2, SameFewer
  <2>6. CASE \/ ApproveRefused(h) \/ ApproveDecide(h) \/ Refused(h) \/ Abort(h)
             \/ (\E t \in Transfers, wanted \in Rooms \cup {None} :
                   RequestTransferInsert(h, t, wanted))
             \/ (\E e \in Exits : RequestExitInsert(h, e))
    <3>1. /\ handlers' = handlers \ {h} /\ UNCHANGED <<roomVars, stay, lowered, outgrown, harmed>>
          /\ contended \subseteq contended'
      BY <2>6 DEF ApproveRefused, ApproveDecide, Refused, Abort, RequestTransferInsert,
                  RequestExitInsert, End
    <3> QED BY <1>d, <3>1, SameFewer
  <2>7. CASE ExitLeave(h)
    <3>1. h.row \in Rows /\ \A q \in Rooms : Fewer(q)
      BY <2>0, <2>7, SameFewer, CloseFewer DEF ExitLeave, Shaped
    <3> QED BY <1>d, <2>7, <3>1 DEF ExitLeave, End
  <2>8. ASSUME NEW w \in Rows, AddResidentInsert(h, w) \/ TransferInsert(h, w)
        PROVE  Good(r)'
    <3>1. /\ handlers' = handlers \ {h} /\ contended' = contended /\ h.step \in InsertSteps
          /\ InsertStay(w, h.student, h.room) /\ UNCHANGED <<roomVars, lowered, outgrown, harmed>>
      BY <2>8 DEF AddResidentInsert, TransferInsert, End, InsertSteps
    <3>2. On(r)' = On(r) \ {h} /\ (h.room # r => On(r)' = On(r))
      BY <3>1 DEF On
    <3> QED BY <1>e, <3>1, <3>2
  <2>9. ASSUME NEW w \in Rows, ApproveInsert(h, w)
        PROVE  Good(r)'
    <3> DEFINE g == [h EXCEPT !.step = "approve.decide"]
    <3>1. g.step = "approve.decide"
      BY <2>0, Restep DEF Steps
    <3>2. /\ contended' = contended
          /\ h.room # r => On(r)' = On(r)
          /\ h.room = r => On(r)' = (On(r) \ {h}) \cup {g}
      BY <2>9, OnContinue DEF ApproveInsert, Steps
    <3> HIDE DEF g
    <3> QED BY <1>e, <2>9, <3>1, <3>2 DEF ApproveInsert, InsertSteps
  <2> QED BY <1>8, <2>1, <2>2, <2>3, <2>4, <2>5, <2>6, <2>7, <2>8, <2>9 DEF HandlerStep
<1>9. CASE UNCHANGED vars
  BY <1>0, <1>a, <1>g, <1>s, <1>9, SameFewer DEF vars, On
<1>10. CASE Reprofiled
  BY <1>0, <1>g, <1>10, ReprofiledApart, GoodReprofiled
<1> QED BY <1>1, <1>2, <1>3, <1>4, <1>5, <1>6, <1>7, <1>8, <1>9, <1>10
        DEF Next, RoomStep, Reprofiled

-----------------------------------------------------------------------------
(* The inductive invariant, and what follows from it. *)

IInv ==
  /\ Types /\ RowsInserted
  /\ TransfersCarriedOut /\ ExitsCarriedOut
  /\ Bounded /\ Unbuilt /\ SeatsBounded
  /\ AllGood

LEMMA NobodyYet == Init => \A r : Residents(r) = {} /\ Inserting(r) = {}
  BY DEF Init, Residents, Active, NoStay, Inserting

LEMMA IInvInit == Init => IInv
<1> SUFFICES ASSUME Init
             PROVE  IInv
  OBVIOUS
<1>1. Types
  BY TypesInit
<1>2. RowsInserted /\ TransfersCarriedOut /\ ExitsCarriedOut
  BY NoneApart
  DEF Init, RowsInserted, Inserted, TransfersCarriedOut, ExitsCarriedOut, NoTransfer,
      NoExit, Deciding, Leaving
<1>3. MaxHandlers \in Nat \ {0} /\ handlers = {} /\ Cardinality({}) = 0 /\ IsFiniteSet({})
  BY BoundsAssumption, FS_EmptySet DEF BoundsAssumption, Init
<1>4. Bounded
  BY <1>3 DEF Bounded
<1>5. Unbuilt
  BY DEF Init, Unbuilt
<1>6. SeatsBounded
  <2>1. ASSUME NEW r \in Rooms
        PROVE  Cardinality(Residents(r)) + Cardinality(Inserting(r))
                 < capacity[r] + MaxHandlers
    <3>1. Cardinality(Residents(r)) = 0 /\ Cardinality(Inserting(r)) = 0
      BY <1>3, NobodyYet
    <3>2. capacity[r] \in Nat
      BY <1>1 DEF Types
    <3> QED BY <1>3, <3>1, <3>2
  <2> QED BY <2>1 DEF SeatsBounded
<1>7. AllGood
  <2>1. ASSUME NEW r \in Rooms
        PROVE  Good(r)
    <3>1. Residents(r) = {} /\ Cardinality(Residents(r)) = 0 /\ On(r) = {}
      BY <1>3, NobodyYet DEF On
    <3>2. capacity[r] \in Nat /\ harmed = {}
      BY <1>1 DEF Types, Init
    <3> QED BY <3>1, <3>2 DEF Good, RoomOK
  <2> QED BY <2>1 DEF AllGood
<1> QED BY <1>1, <1>2, <1>4, <1>5, <1>6, <1>7 DEF IInv

LEMMA IInvKept == IInv /\ [Next]_vars => IInv'
<1> SUFFICES ASSUME IInv, [Next]_vars
             PROVE  IInv'
  OBVIOUS
<1>1. Types' /\ RowsInserted'
  BY TypesKept, RowsKept DEF IInv
<1>2. TransfersCarriedOut' /\ ExitsCarriedOut'
  BY TransfersKept, ExitsKept DEF IInv
<1>3. Bounded' /\ Unbuilt'
  BY BoundedKept, UnbuiltKept DEF IInv
<1>4. SeatsBounded'
  BY <1>3, SeatsKept DEF IInv
<1>5. AllGood'
  BY <1>1, GoodKept DEF IInv
<1> QED BY <1>1, <1>2, <1>3, <1>4, <1>5 DEF IInv

LEMMA IInvGives == IInv => TypeOK /\ SeatsBounded /\ RoomsApart /\ DecisionsCarriedOut
<1> SUFFICES ASSUME IInv
             PROVE  TypeOK /\ SeatsBounded /\ RoomsApart /\ DecisionsCarriedOut
  OBVIOUS
<1>1. TypeOK
  BY DEF IInv, Types, TypeOK, Calls
<1>2. RoomsApart
  BY DEF IInv, AllGood, Good, RoomOK, RoomsApart
<1>3. DecisionsCarriedOut
  BY DEF IInv, TransfersCarriedOut, ExitsCarriedOut, DecisionsCarriedOut, Deciding, Leaving
<1> QED BY <1>1, <1>2, <1>3 DEF IInv

\* The types, the rows that calls and requests name, what calls have checked
\* and the bounds hold however the requests for rooms interleave.
THEOREM ResidenceInvariant == Spec => []IInv
  BY IInvInit, IInvKept, PTL DEF Spec

\* Rooms, stays, requests and calls keep their types.
THEOREM ResidenceTypes == Spec => []TypeOK
  BY ResidenceInvariant, IInvGives, PTL

\* Each of the three calls that bring a student into a room counts the
\* residents before it inserts: a room is overbooked by fewer than the calls
\* that can be under way.
THEOREM SeatsNeverRunAway == Spec => []SeatsBounded
  BY ResidenceInvariant, IInvGives, PTL

\* The seats and Delete's promise are spoilt only by two requests for one room
\* at a time, or by one that died half-way; admission and TransferResident's
\* promise not to strand a student, besides, by a new profile of somebody who
\* lives in the room, or is on the way there, and no longer satisfies it.
THEOREM RoomsNeverInterfere == Spec => []RoomsApart
  BY ResidenceInvariant, IInvGives, PTL

\* A decision on a transfer or an exit agrees with the stays, except while its
\* handler is between the two transactions or died there.
THEOREM DecisionsHold == Spec => []DecisionsCarriedOut
  BY ResidenceInvariant, IInvGives, PTL

=============================================================================
