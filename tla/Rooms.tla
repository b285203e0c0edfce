------------------------------- MODULE Rooms -------------------------------
(***************************************************************************)
(* RoomService: the staff place a student in a room and release them.      *)
(***************************************************************************)
EXTENDS Registry

\* AddResident checks first and inserts in a statement of its own.
AddResidentCheck(s, r) ==
  /\ ValidateAssignable(s, r)
  /\ Begin(RoomHandler("resident.insert", s, r))
  /\ UNCHANGED <<appVars, contractVars, home, protocolVars, ghostVars>>

\* uniq_room_residents_active_student refuses a second active row; nothing
\* counts the room's residents again.
AddResidentInsert(h) ==
  /\ h.step = "resident.insert"
  /\ home[h.student] = NoRoom
  /\ home' = [home EXCEPT ![h.student] = h.room]
  /\ End(h)
  /\ UNCHANGED <<appVars, contractVars, protocolVars, ghostVars>>

MoveOutResident(s) ==
  /\ home[s] # NoRoom
  /\ home' = [home EXCEPT ![s] = NoRoom]
  /\ UNCHANGED <<appVars, contractVars, protocolVars, handlers, ghostVars>>
=============================================================================
