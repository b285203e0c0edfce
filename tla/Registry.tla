------------------------------ MODULE Registry ------------------------------
(***************************************************************************)
(* The PostgreSQL tables that the placement of a student goes through, and *)
(* the requests that are between two of their SQL statements.              *)
(*                                                                         *)
(* A table is kept by columns: one function per column that matters, from  *)
(* row identifiers to values, with "none" for a row that was never         *)
(* inserted and "deleted" for a row that was removed (an identifier is a   *)
(* UUID and is never used twice).  Every statement outside a WithLock is   *)
(* its own transaction, so one action of the services is one statement, or *)
(* one transaction, and a request that needs several leaves a record in    *)
(* "handlers" that says what it has read and what it will do next.         *)
(***************************************************************************)
EXTENDS Integers, FiniteSets

CONSTANTS
  Students,       \* users with the role "student"
  Apps,           \* identifiers of applications
  Owner,          \* the student_id column, fixed when the identifier is drawn
  Legacy,         \* applications older than the contract step of the wizard
  Rooms,
  Capacity,       \* rooms.capacity
  Suits,          \* pairs <<student, room>> that pass the room's restrictions
  Protocols,
  Members,        \* users who may sit on the committee
  NoApp, NoStudent, NoRoom, NoProtocol,   \* SQL NULL
  MaxHandlers     \* bound: requests that are between two statements at a time

ASSUME StudentsAssumption == IsFiniteSet(Students)
ASSUME OwnerAssumption == Owner \in [Apps -> Students]
ASSUME LegacyAssumption ==
  /\ Legacy \subseteq Apps
  /\ \A a, b \in Legacy : Owner[a] = Owner[b] => a = b
ASSUME CapacityAssumption == Capacity \in [Rooms -> Nat \ {0}]
ASSUME SuitsAssumption == Suits \subseteq (Students \X Rooms)
ASSUME NullAssumption ==
  /\ NoApp \notin Apps /\ NoStudent \notin Students
  /\ NoRoom \notin Rooms /\ NoProtocol \notin Protocols
ASSUME MaxHandlersAssumption == MaxHandlers \in Nat \ {0}

VARIABLES
  status,         \* applications.status
  preferred,      \* applications.preferred_room_id
  assigned,       \* applications.assigned_room_id
  trail,          \* application_status_history, in the order it was committed
  contract,       \* contracts.status, by application_id (UNIQUE)
  overdue,        \* applications whose contract's response_deadline has passed
  home,           \* the active room_residents row of a student
  pstate,         \* protocols.status
  papps,          \* protocol_applications
  presidents,     \* protocol_residents
  votes,          \* committee_votes
  referred,       \* referrals
  handlers        \* requests between two of their statements

(***************************************************************************)
(* History variables.  They record that something happened and no action   *)
(* reads them: an application a manager once approved, an application in a *)
(* protocol when its vote became unanimous, an application for which a     *)
(* seat was inserted.                                                      *)
(***************************************************************************)
VARIABLES cleared, granted, seated

appVars == <<status, preferred, assigned, trail>>
contractVars == <<contract, overdue>>
protocolVars == <<pstate, papps, presidents, votes, referred>>
ghostVars == <<cleared, granted, seated>>
vars == <<appVars, contractVars, home, protocolVars, handlers, ghostVars>>

AppStatus == {"pending", "needs_correction", "approved", "rejected", "settled"}
\* The predicate of the partial index uniq_applications_active_student.
ActiveStatus == {"pending", "needs_correction", "approved"}
\* Statuses whose application holds a seat of its room (manager_review, the
\* third one of the query, is never the status a statement leaves behind).
HoldingStatus == {"pending", "approved"}
ContractStatus == {"sent", "awaiting", "accepted", "declined", "expired"}
OpenContract == {"sent", "awaiting"}

RoomOrNone == Rooms \cup {NoRoom}

Steps == {"create.insert", "create.history", "cancelOwn.delete",
          "resubmit.save", "decide.approve", "resident.insert",
          "protocol.delete", "hook.next", "hook.send", "hook.claim",
          "hook.settle", "respond.claim", "respond.accept"}

Handler == [step : Steps, app : Apps \cup {NoApp},
            student : Students \cup {NoStudent}, room : RoomOrNone,
            protocol : Protocols \cup {NoProtocol}, todo : SUBSET Apps]

\* A request about an application; a request about a student and a room; a
\* request about a protocol.
AppHandler(step, a, r) ==
  [step |-> step, app |-> a, student |-> Owner[a], room |-> r,
   protocol |-> NoProtocol, todo |-> {}]
RoomHandler(step, s, r) ==
  [step |-> step, app |-> NoApp, student |-> s, room |-> r,
   protocol |-> NoProtocol, todo |-> {}]
ProtocolHandler(step, p, todo) ==
  [step |-> step, app |-> NoApp, student |-> NoStudent, room |-> NoRoom,
   protocol |-> p, todo |-> todo]

\* What is told apart of a history: which entry is the first one ("overtaken":
\* a decision, with the creation entry behind it), the status that the last
\* entry ended with and whether every entry started from the one before; and
\* the same two of the entries that record a change of status.
ToStatus == AppStatus \cup {"none", "manager_review"}
Trail == [first : {"none", "created", "decision", "overtaken"},
          last : ToStatus, linked : BOOLEAN,
          reached : ToStatus, chained : BOOLEAN]
NoTrail == [first |-> "none", last |-> "none", linked |-> TRUE,
            reached |-> "none", chained |-> TRUE]
\* The row's life begins as pending, whether or not its first entry is there.
NewTrail == [NoTrail EXCEPT !.last = "pending", !.reached = "pending"]

Vote == {"norow", "open", "approved", "rejected"}
NoVotes == [m \in Members |-> "norow"]

TypeOK ==
  /\ status \in [Apps -> AppStatus \cup {"none", "deleted"}]
  /\ preferred \in [Apps -> RoomOrNone]
  /\ assigned \in [Apps -> RoomOrNone]
  /\ trail \in [Apps -> Trail]
  /\ contract \in [Apps -> ContractStatus \cup {"none"}]
  /\ overdue \subseteq Apps
  /\ home \in [Students -> RoomOrNone]
  /\ pstate \in [Protocols -> {"none", "pending", "approved", "deleted"}]
  /\ papps \in [Protocols -> SUBSET Apps]
  /\ presidents \in [Protocols -> SUBSET Students]
  /\ votes \in [Protocols -> [Members -> Vote]]
  /\ referred \subseteq (Protocols \X Students)
  /\ handlers \subseteq Handler
  /\ cleared \subseteq Apps
  /\ granted \subseteq Apps
  /\ seated \subseteq Apps

\* The database when the model starts: legacy applications are pending and
\* have no contract, nobody is housed, nothing was put before the committee.
Init ==
  /\ status = [a \in Apps |-> IF a \in Legacy THEN "pending" ELSE "none"]
  /\ \E r \in RoomOrNone :
       preferred = [a \in Apps |-> IF a \in Legacy THEN r ELSE NoRoom]
  /\ assigned = [a \in Apps |-> NoRoom]
  /\ trail = [a \in Apps |-> IF a \in Legacy
                               THEN [NewTrail EXCEPT !.first = "created"]
                               ELSE NoTrail]
  /\ contract = [a \in Apps |-> "none"]
  /\ overdue = {}
  /\ home = [s \in Students |-> NoRoom]
  /\ pstate = [p \in Protocols |-> "none"]
  /\ papps = [p \in Protocols |-> {}]
  /\ presidents = [p \in Protocols |-> {}]
  /\ votes = [p \in Protocols |-> NoVotes]
  /\ referred = {}
  /\ handlers = {}
  /\ cleared = {}
  /\ granted = {}
  /\ seated = {}

-----------------------------------------------------------------------------
(* Queries on the tables. *)

Exists(a) == status[a] \in AppStatus
Occupants(r) == {s \in Students : home[s] = r}
\* COALESCE(assigned_room_id, preferred_room_id)
RoomOf(a) == IF assigned[a] # NoRoom THEN assigned[a] ELSE preferred[a]
Held(r, except) ==
  {a \in Apps \ except : status[a] \in HoldingStatus /\ RoomOf(a) = r}

\* RoomService.CheckHoldable: residents and the other applicants' holds.
Holdable(r, except) ==
  Cardinality(Occupants(r)) + Cardinality(Held(r, except)) < Capacity[r]

\* RoomService.ValidateAssignable: residents only.
ValidateAssignable(s, r) ==
  /\ home[s] = NoRoom
  /\ Cardinality(Occupants(r)) < Capacity[r]
  /\ <<s, r>> \in Suits

HasActiveApplication(s) ==
  \E a \in Apps : Owner[a] = s /\ status[a] \in ActiveStatus
InSomeProtocol(a) == \E p \in Protocols : a \in papps[p]

\* Rows locked by SELECT ... FOR UPDATE in a transaction that is still open.
AppLockSteps == {"resubmit.save", "decide.approve"}
ContractLockSteps == {"respond.claim", "respond.accept"}
AppLocked(a) == \E h \in handlers : h.step \in AppLockSteps /\ h.app = a
ContractLocked(a) ==
  \E h \in handlers : h.step \in ContractLockSteps /\ h.app = a

\* One more entry of the history of an application, for a change of status.
AddHistory(entries, from, to) ==
  [first |-> IF entries.first = "none" THEN "decision" ELSE entries.first,
   last |-> to, linked |-> entries.linked /\ entries.last = from,
   reached |-> to, chained |-> entries.chained /\ entries.reached = from]
\* The entry of the submission: it ends with "pending" and starts from NULL,
\* so that it continues nothing.
AddCreation(entries) ==
  IF entries.first = "none" THEN [entries EXCEPT !.first = "created"]
  ELSE [entries EXCEPT !.first = "overtaken", !.last = "pending",
                       !.linked = FALSE]

\* A request that needs a further statement starts, goes on, or ends.
Begin(h) ==
  /\ Cardinality(handlers) < MaxHandlers
  /\ h \notin handlers
  /\ handlers' = handlers \cup {h}
Continue(h, next) == handlers' = (handlers \ {h}) \cup {next}
End(h) == handlers' = handlers \ {h}

\* The request stops where it is: the process dies, the database refuses the
\* statement, or a check made on the way fails.  An open transaction rolls
\* back and with it go its row locks; what was committed before stays.
Abort(h) ==
  /\ End(h)
  /\ UNCHANGED <<appVars, contractVars, home, protocolVars, ghostVars>>
=============================================================================
