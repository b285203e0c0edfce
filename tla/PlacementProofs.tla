-------------------------- MODULE PlacementProofs --------------------------
(***************************************************************************)
(* Placement is type correct and safe for every value of its constants,    *)
(* and implements Admission.                                               *)
(***************************************************************************)
EXTENDS PlacementInvariant, FiniteSetTheorems, TLAPS

-----------------------------------------------------------------------------
(* Type correctness. *)

\* The three kinds of request records are handlers.
LEMMA HandlerTypes ==
  ASSUME NEW step \in Steps
  PROVE  /\ \A a \in Apps, r \in RoomOrNone : AppHandler(step, a, r) \in Handler
         /\ \A s \in Students, r \in RoomOrNone :
              RoomHandler(step, s, r) \in Handler
         /\ \A p \in Protocols, todo \in SUBSET Apps :
              ProtocolHandler(step, p, todo) \in Handler
BY OwnerAssumption DEF AppHandler, RoomHandler, ProtocolHandler, Handler, RoomOrNone

\* A request of the hook passes on its protocol and the rest of its list.
LEMMA HookHandlerTypes ==
  ASSUME NEW h \in Handler
  PROVE  /\ \A step \in Steps, a \in Apps, r \in RoomOrNone :
              HookHandler(step, h, a, r) \in Handler
         /\ h.protocol \in Protocols \cup {NoProtocol} /\ h.todo \in SUBSET Apps
         /\ \A todo \in SUBSET Apps :
              ProtocolHandler("hook.next", h.protocol, todo) \in Handler
         /\ [h EXCEPT !.step = "hook.settle"] \in Handler
BY OwnerAssumption DEF HookHandler, ProtocolHandler, Handler, RoomOrNone, Steps

\* Every history the services write is one.
LEMMA TrailTypes ==
  /\ NoTrail \in Trail /\ NewTrail \in Trail
  /\ [NewTrail EXCEPT !.first = "created"] \in Trail
  /\ \A t \in Trail : AddCreation(t) \in Trail
  /\ \A t \in Trail, from \in AppStatus \cup {"manager_review"},
        to \in AppStatus \cup {"manager_review"} :
       AddHistory(t, from, to) \in Trail
  /\ \A t \in Trail, to \in AppStatus : Reviewed(t, to) \in Trail
<1>1. NoTrail \in Trail /\ NewTrail \in Trail
  BY DEF NoTrail, NewTrail, Trail, ToStatus, AppStatus
<1>2. \A t \in Trail : AddCreation(t) \in Trail
  BY DEF AddCreation, Trail, ToStatus, AppStatus
<1>5. [NewTrail EXCEPT !.first = "created"] \in Trail
  BY <1>1 DEF Trail
<1>3. ASSUME NEW t \in Trail, NEW from \in AppStatus \cup {"manager_review"},
             NEW to \in AppStatus \cup {"manager_review"}
      PROVE  AddHistory(t, from, to) \in Trail
  <2> DEFINE first == IF t.first = "none" THEN "decision" ELSE t.first
             linked == t.linked /\ t.last = from
             chained == t.chained /\ t.reached = from
  <2>1. first \in {"none", "created", "decision", "overtaken"}
    BY DEF Trail
  <2>2. linked \in BOOLEAN /\ chained \in BOOLEAN
    OBVIOUS
  <2>3. to \in ToStatus
    BY DEF ToStatus
  <2>4. AddHistory(t, from, to) =
          [first |-> first, last |-> to, linked |-> linked,
           reached |-> to, chained |-> chained]
    BY DEF AddHistory
  <2> HIDE DEF first, linked, chained
  <2> QED
    BY <2>1, <2>2, <2>3, <2>4 DEF Trail
<1>4. ASSUME NEW t \in Trail, NEW to \in AppStatus
      PROVE  Reviewed(t, to) \in Trail
  BY <1>3 DEF Reviewed, AppStatus
<1> QED
  BY <1>1, <1>2, <1>3, <1>4, <1>5

\* The initial database is type correct.
THEOREM TypeInit == Init => TypeOK
<1> SUFFICES ASSUME Init PROVE TypeOK
  OBVIOUS
<1>1. PICK r \in RoomOrNone :
        preferred = [a \in Apps |-> IF a \in Legacy THEN r ELSE NoRoom]
  BY DEF Init
<1>2. preferred \in [Apps -> RoomOrNone]
  BY <1>1 DEF RoomOrNone
<1>3. trail \in [Apps -> Trail]
  BY TrailTypes DEF Init
<1>4. votes \in [Protocols -> [Members -> Vote]]
  BY DEF Init, NoVotes, Vote
<1> QED
  BY <1>2, <1>3, <1>4 DEF Init, TypeOK, RoomOrNone, AppStatus, ContractStatus

-----------------------------------------------------------------------------
(* Counting the requests and the seats they were promised. *)

\* One more element, one more or none.
LEMMA OneMore ==
  ASSUME NEW S, NEW x, IsFiniteSet(S)
  PROVE  /\ IsFiniteSet(S \cup {x})
         /\ Cardinality(S \cup {x}) \in Nat
         /\ Cardinality(S \cup {x}) <= Cardinality(S) + 1
<1>1. IsFiniteSet(S \cup {x})
  BY FS_AddElement
<1>2. Cardinality(S) \in Nat /\ Cardinality(S \cup {x}) \in Nat
  BY <1>1, FS_CardinalityType
<1>3. Cardinality(S \cup {x}) =
        IF x \in S THEN Cardinality(S) ELSE Cardinality(S) + 1
  BY FS_AddElement
<1> QED
  BY <1>1, <1>2, <1>3

\* However a request starts, goes on or ends, there are at most MaxHandlers.
LEMMA RequestCount ==
  ASSUME IsFiniteSet(handlers), Cardinality(handlers) <= MaxHandlers,
         \/ \E h : Begin(h)
         \/ \E h \in handlers : End(h)
         \/ \E h \in handlers : \E next : Continue(h, next)
         \/ handlers' = handlers
  PROVE  IsFiniteSet(handlers') /\ Cardinality(handlers') <= MaxHandlers
<1> Cardinality(handlers) \in Nat /\ MaxHandlers \in Nat
  BY FS_CardinalityType, MaxHandlersAssumption
<1>1. ASSUME NEW h, Begin(h)
      PROVE  IsFiniteSet(handlers') /\ Cardinality(handlers') <= MaxHandlers
  BY <1>1, FS_AddElement DEF Begin
<1>2. ASSUME NEW h \in handlers
      PROVE  /\ IsFiniteSet(handlers \ {h})
             /\ Cardinality(handlers \ {h}) = Cardinality(handlers) - 1
  BY FS_RemoveElement
<1>3. ASSUME NEW h \in handlers, NEW next, Continue(h, next)
      PROVE  IsFiniteSet(handlers') /\ Cardinality(handlers') <= MaxHandlers
  <2>1. /\ IsFiniteSet(handlers \ {h})
        /\ Cardinality(handlers \ {h}) = Cardinality(handlers) - 1
    BY <1>2
  <2>2. handlers' = (handlers \ {h}) \cup {next}
    BY <1>3 DEF Continue
  <2>3. /\ IsFiniteSet(handlers')
        /\ \/ Cardinality(handlers') = Cardinality(handlers \ {h})
           \/ Cardinality(handlers') = Cardinality(handlers \ {h}) + 1
    BY <2>1, <2>2, FS_AddElement
  <2> QED
    BY <2>1, <2>3
<1> QED
  BY <1>1, <1>2, <1>3 DEF End

\* The seats stay promised when nobody moves in, and a claim is only added
\* for a room that had a free seat.
LEMMA SeatsKept ==
  ASSUME SeatsPromised,
         IsFiniteSet(handlers'), Cardinality(handlers') <= MaxHandlers,
         \A r \in Rooms :
           /\ Occupants(r)' \subseteq Occupants(r)
           /\ \/ Claims(r)' \subseteq Claims(r)
              \/ Cardinality(Occupants(r)) < Capacity[r]
  PROVE  SeatsPromised'
<1> SUFFICES ASSUME NEW r \in Rooms
             PROVE  Cardinality(Occupants(r)') + Cardinality(Claims(r)')
                      <= Capacity[r] + MaxHandlers - 1
  BY DEF SeatsPromised
<1>0. /\ Occupants(r) \subseteq Students /\ Claims(r) \subseteq handlers
      /\ Claims(r)' \subseteq handlers' /\ IsFiniteSet(handlers)
  BY DEF Occupants, Claims, SeatsPromised
<1>1. /\ IsFiniteSet(Occupants(r)) /\ IsFiniteSet(Claims(r))
      /\ IsFiniteSet(Claims(r)')
      /\ Cardinality(Claims(r)') <= Cardinality(handlers')
  BY <1>0, StudentsAssumption, FS_Subset
<1>2. /\ IsFiniteSet(Occupants(r)')
      /\ Cardinality(Occupants(r)') <= Cardinality(Occupants(r))
  BY <1>1, FS_Subset
<1>3. /\ Cardinality(Occupants(r)) \in Nat /\ Cardinality(Occupants(r)') \in Nat
      /\ Cardinality(Claims(r)) \in Nat /\ Cardinality(Claims(r)') \in Nat
      /\ Cardinality(handlers') \in Nat
  BY <1>1, <1>2, FS_CardinalityType
<1>4. Capacity[r] \in Nat /\ MaxHandlers \in Nat
  BY CapacityAssumption, MaxHandlersAssumption
<1>5. CASE Claims(r)' \subseteq Claims(r)
  <2>1. Cardinality(Claims(r)') <= Cardinality(Claims(r))
    BY <1>5, <1>1, FS_Subset
  <2> QED
    BY <2>1, <1>2, <1>3, <1>4 DEF SeatsPromised
<1>6. CASE Cardinality(Occupants(r)) < Capacity[r]
  BY <1>6, <1>1, <1>2, <1>3, <1>4
<1> QED
  BY <1>5, <1>6

\* A seat that is taken was promised to the request that takes it.
LEMMA SeatTaken ==
  ASSUME TypeOK, SeatsPromised,
         IsFiniteSet(handlers'), Cardinality(handlers') <= MaxHandlers,
         NEW h \in handlers, NEW room \in Rooms, NEW s \in Students,
         h \in Claims(room), home' = [home EXCEPT ![s] = room],
         \A r \in Rooms : Claims(r)' \subseteq Claims(r) \ {h}
  PROVE  SeatsPromised'
<1> SUFFICES ASSUME NEW r \in Rooms
             PROVE  Cardinality(Occupants(r)') + Cardinality(Claims(r)')
                      <= Capacity[r] + MaxHandlers - 1
  BY DEF SeatsPromised
<1>0. /\ Occupants(r) \subseteq Students /\ Claims(r) \subseteq handlers
      /\ IsFiniteSet(handlers)
  BY DEF Occupants, Claims, SeatsPromised
<1>1. IsFiniteSet(Occupants(r)) /\ IsFiniteSet(Claims(r))
  BY <1>0, StudentsAssumption, FS_Subset
<1>2. /\ Cardinality(Occupants(r)) \in Nat /\ Cardinality(Claims(r)) \in Nat
      /\ Capacity[r] \in Nat /\ MaxHandlers \in Nat
  BY <1>1, FS_CardinalityType, CapacityAssumption, MaxHandlersAssumption
<1>3. CASE r = room
  <2>1. /\ IsFiniteSet(Claims(r) \ {h})
        /\ Cardinality(Claims(r) \ {h}) = Cardinality(Claims(r)) - 1
    BY <1>1, <1>3, FS_RemoveElement
  <2>2. /\ Cardinality(Claims(r)') \in Nat
        /\ Cardinality(Claims(r)') <= Cardinality(Claims(r)) - 1
    BY <2>1, FS_Subset, FS_CardinalityType
  <2>3. Occupants(r)' \subseteq Occupants(r) \cup {s}
    BY DEF Occupants, TypeOK
  <2>4. /\ IsFiniteSet(Occupants(r) \cup {s})
        /\ Cardinality(Occupants(r) \cup {s}) \in Nat
        /\ Cardinality(Occupants(r) \cup {s}) <= Cardinality(Occupants(r)) + 1
    BY <1>1, OneMore
  <2>5. /\ Cardinality(Occupants(r)') \in Nat
        /\ Cardinality(Occupants(r)') <= Cardinality(Occupants(r)) + 1
    BY <2>3, <2>4, FS_Subset, FS_CardinalityType
  <2> QED
    BY <1>2, <2>2, <2>5 DEF SeatsPromised
<1>4. CASE r # room
  <2>1. Occupants(r)' \subseteq Occupants(r)
    BY <1>4 DEF Occupants, TypeOK
  <2>2. /\ Cardinality(Occupants(r)') <= Cardinality(Occupants(r))
        /\ Cardinality(Claims(r)') <= Cardinality(Claims(r))
        /\ Cardinality(Occupants(r)') \in Nat /\ Cardinality(Claims(r)') \in Nat
    BY <1>1, <2>1, FS_Subset, FS_CardinalityType
  <2> QED
    BY <1>2, <2>2 DEF SeatsPromised
<1> QED
  BY <1>3, <1>4

-----------------------------------------------------------------------------
(* Frames: which conjuncts a step leaves alone. *)

LEMMA AppFrame ==
  ASSUME AppInv,
         UNCHANGED <<status, assigned, trail, contract, cleared, granted, seated>>
  PROVE  AppInv'
BY DEF AppInv, Reached, OneActive, Agreed, HistoryLinked, Exists,
       ContractMatchesApplication, SeatBeforeSettlement

LEMMA ProtocolFrame ==
  ASSUME ProtocolInv,
         UNCHANGED <<pstate, papps, presidents, votes, referred>>,
         cleared \subseteq cleared', granted \subseteq granted'
  PROVE  ProtocolInv'
BY DEF ProtocolInv, Listed, ApprovedMeansUnanimous, Unanimous, OneProtocolEach,
       NamedOnce, ReferralsFollowApproval

\* Nothing that the requests of a set rely on is taken from them.
Undisturbed(rest) ==
  /\ granted \subseteq granted' /\ seated \subseteq seated'
  /\ \A p \in Protocols :
       pstate[p] \in {"approved", "deleted"} =>
         pstate'[p] \in {"approved", "deleted"}
  /\ \A g \in rest :
       /\ g.step \in AppLockSteps \cup {"create.insert"} =>
            status'[g.app] = status[g.app]
       /\ g.step \in ContractLockSteps => contract'[g.app] = contract[g.app]
       /\ g.step \in SeatSteps =>
            assigned'[g.app] \in {assigned[g.app], NoRoom}

\* The steps of which only one request about an application may be at a time.
Alone(steps, n, g) == n.step \in steps /\ g.step \in steps /\ n.app = g.app
Rivals(n, g) ==
  \/ Alone(AppLockSteps, n, g)
  \/ Alone(ContractLockSteps, n, g)
  \/ Alone({"create.insert"}, n, g)

\* Requests that stay undisturbed, and new ones that know what they should.
LEMMA RequestsKept ==
  ASSUME RequestInv, NEW rest \in SUBSET handlers, NEW new \in SUBSET Handler,
         handlers' \subseteq rest \cup new,
         Undisturbed(rest),
         \A n \in new : RequestKnows(n)',
         \A n \in new : \A g \in rest \cup new : Rivals(n, g) => n = g
  PROVE  RequestInv'
<1>1. ASSUME NEW g \in rest
      PROVE  RequestKnows(g)'
  <2>1. RequestKnows(g)
    BY DEF RequestInv, Informed
  <2>2. /\ g.step \in AppLockSteps \cup {"create.insert"} =>
             status'[g.app] = status[g.app]
        /\ g.step \in ContractLockSteps => contract'[g.app] = contract[g.app]
        /\ g.step \in SeatSteps =>
             assigned'[g.app] \in {assigned[g.app], NoRoom}
    BY DEF Undisturbed
  <2>3. /\ granted \subseteq granted' /\ seated \subseteq seated'
        /\ \A p \in Protocols :
             pstate[p] \in {"approved", "deleted"} =>
               pstate'[p] \in {"approved", "deleted"}
    BY DEF Undisturbed
  <2> QED
    BY <2>1, <2>2, <2>3
       DEF RequestKnows, AppSteps, Steps, HookSteps, SeatSteps, AppLockSteps,
           ContractLockSteps
<1>2. Informed'
  BY <1>1 DEF Informed
<1>3. ASSUME NEW g \in rest \cup new, NEW h \in rest \cup new, Rivals(g, h)
      PROVE  g = h
  <2>1. CASE g \in rest /\ h \in rest
    BY <1>3, <2>1 DEF RequestInv, Serialized, Exclusive, Rivals, Alone
  <2>2. Rivals(h, g)
    BY <1>3 DEF Rivals, Alone
  <2> QED
    BY <1>3, <2>1, <2>2
<1>4. Serialized'
  BY <1>3 DEF Serialized, Exclusive, Rivals, Alone
<1> QED
  BY <1>2, <1>4 DEF RequestInv

\* A request about to claim a seat has seen a free one.
FreeSeat(n) ==
  \A r \in Rooms :
    n.step \in ClaimSteps /\ n.room = r => Cardinality(Occupants(r)) < Capacity[r]

\* A step that writes no table is safe if the request it starts or carries on
\* is: it knows what it should, and has a free seat before it claims one.
LEMMA OnlyRequests ==
  ASSUME Inductive,
         UNCHANGED <<appVars, contractVars, home, protocolVars, ghostVars>>,
         IsFiniteSet(handlers'), Cardinality(handlers') <= MaxHandlers,
         NEW rest \in SUBSET handlers, NEW new \in SUBSET Handler,
         handlers' \subseteq rest \cup new,
         \A n \in new :
           /\ RequestKnows(n)
           /\ \A g \in rest \cup new : Rivals(n, g) => n = g
           /\ FreeSeat(n)
  PROVE  Inductive'
<1> USE DEF appVars, contractVars, protocolVars, ghostVars
<1>1. TypeOK'
  BY DEF Inductive, TypeOK
<1>2. AppInv'
  BY AppFrame DEF Inductive
<1>3. ProtocolInv'
  BY ProtocolFrame DEF Inductive
<1>4. RequestInv'
  <2>1. Undisturbed(rest)
    BY DEF Undisturbed
  <2>2. \A n \in new : RequestKnows(n)'
    BY DEF RequestKnows
  <2> QED
    BY <2>1, <2>2, RequestsKept DEF Inductive
<1>5. SeatsPromised'
  <2>1. ASSUME NEW r \in Rooms
        PROVE  \/ Claims(r)' \subseteq Claims(r)
               \/ Cardinality(Occupants(r)) < Capacity[r]
    BY DEF Claims, FreeSeat
  <2>2. \A r \in Rooms : Occupants(r)' \subseteq Occupants(r)
    BY DEF Occupants
  <2> QED
    BY <2>1, <2>2, SeatsKept DEF Inductive
<1> QED
  BY <1>1, <1>2, <1>3, <1>4, <1>5 DEF Inductive

LEMMA BeginSafe ==
  ASSUME Inductive, NEW n \in Handler, Begin(n),
         UNCHANGED <<appVars, contractVars, home, protocolVars, ghostVars>>,
         RequestKnows(n),
         \A g \in handlers : ~Rivals(n, g),
         FreeSeat(n)
  PROVE  Inductive'
<1>1. IsFiniteSet(handlers') /\ Cardinality(handlers') <= MaxHandlers
  BY RequestCount DEF Inductive, SeatsPromised
<1>2. /\ handlers' \subseteq handlers \cup {n}
      /\ handlers \in SUBSET handlers /\ {n} \in SUBSET Handler
  BY DEF Begin
<1>3. \A m \in {n} :
        /\ RequestKnows(m)
        /\ \A g \in handlers \cup {n} : Rivals(m, g) => m = g
        /\ FreeSeat(m)
  OBVIOUS
<1> QED
  BY <1>1, <1>2, <1>3, OnlyRequests

LEMMA ContinueSafe ==
  ASSUME Inductive, NEW h \in handlers, NEW n \in Handler, Continue(h, n),
         UNCHANGED <<appVars, contractVars, home, protocolVars, ghostVars>>,
         RequestKnows(n),
         n.step \notin AppLockSteps \cup ContractLockSteps \cup {"create.insert"},
         FreeSeat(n)
  PROVE  Inductive'
<1>1. IsFiniteSet(handlers') /\ Cardinality(handlers') <= MaxHandlers
  BY RequestCount DEF Inductive, SeatsPromised
<1>2. /\ handlers' \subseteq handlers \cup {n}
      /\ handlers \in SUBSET handlers /\ {n} \in SUBSET Handler
  BY DEF Continue
<1>3. \A m \in {n} :
        /\ RequestKnows(m)
        /\ \A g \in handlers \cup {n} : Rivals(m, g) => m = g
        /\ FreeSeat(m)
  BY DEF Rivals, Alone
<1> QED
  BY <1>1, <1>2, <1>3, OnlyRequests

-----------------------------------------------------------------------------
(* The first step of a request reads the tables and writes none. *)

LEMMA ApplicationChecksSafe ==
  ASSUME Inductive, NEW a \in Apps, NEW r \in RoomOrNone,
         \/ CreateCheck(a, r) \/ CancelOwnCheck(a)
         \/ ResubmitCheck(a, r) \/ DecideApproveCheck(a, r)
  PROVE  Inductive'
<1> RoomOrNone = Rooms \cup {NoRoom} /\ Owner[a] \in Students
  BY OwnerAssumption DEF RoomOrNone
<1>1. CASE CreateCheck(a, r)
  <2> DEFINE n == AppHandler("create.insert", a, r)
  <2>1. n \in Handler
    BY HandlerTypes DEF Steps
  <2>2. RequestKnows(n) /\ FreeSeat(n)
    BY <1>1 DEF CreateCheck, AppHandler, RequestKnows, FreeSeat, ClaimSteps,
       AppSteps, Steps, HookSteps, SeatSteps, ContractLockSteps
  <2>3. \A g \in handlers : ~Rivals(n, g)
    BY <1>1 DEF CreateCheck, AppHandler, Rivals, Alone, AppLockSteps,
       ContractLockSteps
  <2> QED
    BY <1>1, <2>1, <2>2, <2>3, BeginSafe DEF CreateCheck
<1>2. CASE CancelOwnCheck(a)
  <2> DEFINE n == AppHandler("cancelOwn.delete", a, NoRoom)
  <2>1. n \in Handler
    BY HandlerTypes DEF Steps
  <2>2. RequestKnows(n) /\ FreeSeat(n) /\ \A g \in handlers : ~Rivals(n, g)
    BY DEF AppHandler, RequestKnows, FreeSeat, ClaimSteps, AppSteps, Steps,
       HookSteps, SeatSteps, Rivals, Alone, AppLockSteps, ContractLockSteps
  <2> QED
    BY <1>2, <2>1, <2>2, BeginSafe DEF CancelOwnCheck
<1>3. CASE ResubmitCheck(a, r)
  <2> DEFINE n == AppHandler("resubmit.save", a, r)
  <2>1. n \in Handler
    BY HandlerTypes DEF Steps
  <2>2. RequestKnows(n) /\ FreeSeat(n)
    BY <1>3 DEF ResubmitCheck, AppHandler, RequestKnows, FreeSeat, ClaimSteps,
       AppSteps, Steps, HookSteps, SeatSteps, ContractLockSteps
  <2>3. \A g \in handlers : ~Rivals(n, g)
    BY <1>3 DEF ResubmitCheck, AppHandler, Rivals, Alone, AppLocked,
       AppLockSteps, ContractLockSteps
  <2> QED
    BY <1>3, <2>1, <2>2, <2>3, BeginSafe DEF ResubmitCheck
<1>4. CASE DecideApproveCheck(a, r)
  <2> DEFINE room == IF r # NoRoom THEN r ELSE preferred[a]
             n == AppHandler("decide.approve", a, room)
  <2>1. n \in Handler
    <3>1. room \in RoomOrNone
      BY DEF Inductive, TypeOK
    <3> QED
      BY <3>1, HandlerTypes DEF Steps
  <2>2. RequestKnows(n) /\ FreeSeat(n)
    BY <1>4 DEF DecideApproveCheck, AppHandler, RequestKnows, FreeSeat,
       ClaimSteps, AppSteps, Steps, HookSteps, SeatSteps, ContractLockSteps
  <2>3. \A g \in handlers : ~Rivals(n, g)
    BY <1>4 DEF DecideApproveCheck, AppHandler, Rivals, Alone, AppLocked,
       AppLockSteps, ContractLockSteps
  <2> QED
    BY <1>4, <2>1, <2>2, <2>3, BeginSafe DEF DecideApproveCheck
<1> QED
  BY <1>1, <1>2, <1>3, <1>4

LEMMA AddResidentCheckSafe ==
  ASSUME Inductive, NEW s \in Students, NEW r \in Rooms, AddResidentCheck(s, r)
  PROVE  Inductive'
<1> DEFINE n == RoomHandler("resident.insert", s, r)
<1>1. n \in Handler
  BY HandlerTypes DEF Steps, RoomOrNone
<1>2. RequestKnows(n) /\ FreeSeat(n) /\ \A g \in handlers : ~Rivals(n, g)
  BY DEF AddResidentCheck, ValidateAssignable, RoomHandler, RequestKnows,
     FreeSeat, ClaimSteps, AppSteps, Steps, HookSteps, SeatSteps, Rivals, Alone,
     AppLockSteps, ContractLockSteps
<1> QED
  BY <1>1, <1>2, BeginSafe DEF AddResidentCheck

LEMMA DeleteProtocolCheckSafe ==
  ASSUME Inductive, NEW p \in Protocols, DeleteProtocolCheck(p)
  PROVE  Inductive'
<1> DEFINE n == ProtocolHandler("protocol.delete", p, {})
<1>1. n \in Handler
  BY HandlerTypes DEF Steps
<1>2. RequestKnows(n) /\ FreeSeat(n) /\ \A g \in handlers : ~Rivals(n, g)
  BY DEF ProtocolHandler, RequestKnows, FreeSeat, ClaimSteps, AppSteps, Steps,
     HookSteps, SeatSteps, Rivals, Alone, AppLockSteps, ContractLockSteps
<1> QED
  BY <1>1, <1>2, BeginSafe DEF DeleteProtocolCheck

\* The contract is locked, and an open contract is about an application the
\* committee has granted, in the room it will be settled with.
LEMMA RespondAcceptCheckSafe ==
  ASSUME Inductive, NEW a \in Apps, RespondAcceptCheck(a)
  PROVE  Inductive'
<1>1. /\ contract[a] = "sent" /\ Owner[a] \in Students
      /\ assigned[a] \in RoomOrNone
      /\ RoomOrNone = Rooms \cup {NoRoom}
  BY OwnerAssumption
     DEF RespondAcceptCheck, Answerable, Inductive, TypeOK, RoomOrNone
<1>2. ASSUME NEW step \in ContractLockSteps
      PROVE  \A g \in handlers :
               ~Rivals(AppHandler(step, a, assigned[a]), g)
  BY DEF RespondAcceptCheck, Answerable, AppHandler, Rivals, Alone,
     ContractLocked, AppLockSteps, ContractLockSteps
<1>3. CASE assigned[a] = NoRoom
  <2> DEFINE n == AppHandler("respond.accept", a, NoRoom)
  <2>1. n \in Handler
    BY <1>1, HandlerTypes DEF Steps
  <2>2. RequestKnows(n) /\ FreeSeat(n)
    BY <1>1, <1>3 DEF AppHandler, RequestKnows, FreeSeat, ClaimSteps, AppSteps,
       Steps, HookSteps, SeatSteps, ContractLockSteps
  <2>3. \A g \in handlers : ~Rivals(n, g)
    BY <1>2, <1>3 DEF ContractLockSteps
  <2>4. Begin(n) /\ UNCHANGED <<appVars, contractVars, home, protocolVars, ghostVars>>
    BY <1>3 DEF RespondAcceptCheck
  <2> QED
    BY <2>1, <2>2, <2>3, <2>4, BeginSafe
<1>4. CASE assigned[a] # NoRoom
  <2> DEFINE n == AppHandler("respond.claim", a, assigned[a])
  <2>1. n \in Handler
    BY <1>1, HandlerTypes DEF Steps
  <2>2. RequestKnows(n) /\ FreeSeat(n)
    BY <1>1, <1>4 DEF RespondAcceptCheck, ValidateAssignable, AppHandler,
       RequestKnows, FreeSeat, ClaimSteps, AppSteps, Steps, HookSteps, SeatSteps,
       ContractLockSteps
  <2>3. \A g \in handlers : ~Rivals(n, g)
    BY <1>2 DEF ContractLockSteps
  <2>4. Begin(n) /\ UNCHANGED <<appVars, contractVars, home, protocolVars, ghostVars>>
    BY <1>4 DEF RespondAcceptCheck
  <2> QED
    BY <2>1, <2>2, <2>3, <2>4, BeginSafe
<1> QED
  BY <1>3, <1>4

-----------------------------------------------------------------------------
(* The hook between its writes, and a request that stops. *)

\* The hook has the rest of its list, all of it granted, in any of its steps.
LEMMA HookHandlerKnows ==
  ASSUME Inductive, NEW h \in handlers, h.step \in HookSteps,
         NEW todo \in SUBSET h.todo
  PROVE  LET n == ProtocolHandler("hook.next", h.protocol, todo)
         IN  n \in Handler /\ RequestKnows(n) /\ FreeSeat(n)
<1>1. h \in Handler /\ RequestKnows(h)
  BY DEF Inductive, TypeOK, RequestInv, Informed
<1>2. h.protocol \in Protocols /\ todo \in SUBSET Apps /\ todo \subseteq granted
      /\ pstate[h.protocol] \in {"approved", "deleted"}
  BY <1>1, HookHandlerTypes DEF RequestKnows
<1>3. ProtocolHandler("hook.next", h.protocol, todo) \in Handler
  BY <1>2, HandlerTypes DEF Steps
<1> QED
  BY <1>2, <1>3 DEF ProtocolHandler, RequestKnows, FreeSeat, ClaimSteps,
     AppSteps, Steps, HookSteps, SeatSteps, AppLockSteps, ContractLockSteps

LEMMA HookSkipSafe ==
  ASSUME Inductive, NEW h \in handlers, NEW a \in Apps, HookSkip(h, a)
  PROVE  Inductive'
<1> DEFINE n == ProtocolHandler("hook.next", h.protocol, h.todo \ {a})
<1>1. n \in Handler /\ RequestKnows(n) /\ FreeSeat(n)
  BY HookHandlerKnows DEF HookSkip, HookSteps
<1>2. n.step \notin AppLockSteps \cup ContractLockSteps \cup {"create.insert"}
  BY DEF ProtocolHandler, AppLockSteps, ContractLockSteps
<1>3. Continue(h, n)
      /\ UNCHANGED <<appVars, contractVars, home, protocolVars, ghostVars>>
  BY DEF HookSkip
<1> QED
  BY <1>1, <1>2, <1>3, ContinueSafe

\* An application the hook reads is granted; its room is the one it was
\* assigned, and a seat is claimed only if one was free.
LEMMA HookReadSafe ==
  ASSUME Inductive, NEW h \in handlers, NEW a \in Apps,
         HookReadLegacy(h, a) \/ HookReadAgreed(h, a)
  PROVE  Inductive'
<1>1. /\ h \in Handler /\ RequestKnows(h)
      /\ h.step = "hook.next" /\ a \in h.todo
      /\ assigned[a] \in RoomOrNone /\ RoomOrNone = Rooms \cup {NoRoom}
      /\ Owner[a] \in Students
  BY OwnerAssumption DEF HookReadLegacy, HookReadAgreed, Inductive, TypeOK,
     RequestInv, Informed, RoomOrNone
<1>2. /\ a \in granted /\ h.todo \subseteq granted /\ h.protocol \in Protocols
      /\ pstate[h.protocol] \in {"approved", "deleted"}
  BY <1>1 DEF RequestKnows, HookSteps
<1>3. CASE HookReadLegacy(h, a)
  <2> DEFINE n == HookHandler("hook.send", h, a, assigned[a])
  <2>1. n \in Handler
    BY <1>1, HookHandlerTypes DEF Steps
  <2>2. RequestKnows(n) /\ FreeSeat(n)
    BY <1>1, <1>2, <1>3 DEF HookReadLegacy, HookHandler, RequestKnows, FreeSeat,
       ClaimSteps, AppSteps, Steps, HookSteps, SeatSteps, ContractLockSteps
  <2>3. n.step \notin AppLockSteps \cup ContractLockSteps \cup {"create.insert"}
    BY DEF HookHandler, AppLockSteps, ContractLockSteps
  <2>4. Continue(h, n)
        /\ UNCHANGED <<appVars, contractVars, home, protocolVars, ghostVars>>
    BY <1>3 DEF HookReadLegacy
  <2> QED
    BY <2>1, <2>2, <2>3, <2>4, ContinueSafe
<1>4. CASE HookReadAgreed(h, a) /\ assigned[a] = NoRoom
  <2> DEFINE n == HookHandler("hook.settle", h, a, NoRoom)
  <2>1. n \in Handler
    BY <1>1, HookHandlerTypes DEF Steps
  <2>2. RequestKnows(n) /\ FreeSeat(n)
    BY <1>1, <1>2, <1>4 DEF HookReadAgreed, HookHandler, RequestKnows, FreeSeat,
       ClaimSteps, AppSteps, Steps, HookSteps, SeatSteps, ContractLockSteps
  <2>3. n.step \notin AppLockSteps \cup ContractLockSteps \cup {"create.insert"}
    BY DEF HookHandler, AppLockSteps, ContractLockSteps
  <2>4. Continue(h, n)
        /\ UNCHANGED <<appVars, contractVars, home, protocolVars, ghostVars>>
    BY <1>4 DEF HookReadAgreed
  <2> QED
    BY <2>1, <2>2, <2>3, <2>4, ContinueSafe
<1>5. CASE HookReadAgreed(h, a) /\ assigned[a] # NoRoom
  <2> DEFINE n == HookHandler("hook.claim", h, a, assigned[a])
  <2>1. n \in Handler
    BY <1>1, HookHandlerTypes DEF Steps
  <2>2. RequestKnows(n) /\ FreeSeat(n)
    BY <1>1, <1>2, <1>5 DEF HookReadAgreed, ValidateAssignable, HookHandler,
       RequestKnows, FreeSeat, ClaimSteps, AppSteps, Steps, HookSteps, SeatSteps,
       ContractLockSteps
  <2>3. n.step \notin AppLockSteps \cup ContractLockSteps \cup {"create.insert"}
    BY DEF HookHandler, AppLockSteps, ContractLockSteps
  <2>4. Continue(h, n)
        /\ UNCHANGED <<appVars, contractVars, home, protocolVars, ghostVars>>
    BY <1>5 DEF HookReadAgreed
  <2> QED
    BY <2>1, <2>2, <2>3, <2>4, ContinueSafe
<1> QED
  BY <1>3, <1>4, <1>5

LEMMA HookFailSafe ==
  ASSUME Inductive, NEW h \in handlers, NEW a \in Apps, HookFail(h, a)
  PROVE  Inductive'
<1>1. PICK todo \in SUBSET h.todo :
        /\ h.step \in HookSteps
        /\ Continue(h, ProtocolHandler("hook.next", h.protocol, todo))
        /\ UNCHANGED <<appVars, contractVars, home, protocolVars, ghostVars>>
  BY DEF HookFail, HookSteps
<1> DEFINE n == ProtocolHandler("hook.next", h.protocol, todo)
<1>2. n \in Handler /\ RequestKnows(n) /\ FreeSeat(n)
  BY <1>1, HookHandlerKnows
<1>3. n.step \notin AppLockSteps \cup ContractLockSteps \cup {"create.insert"}
  BY DEF ProtocolHandler, AppLockSteps, ContractLockSteps
<1> QED
  BY <1>1, <1>2, <1>3, ContinueSafe

LEMMA AbortSafe ==
  ASSUME Inductive, NEW h \in handlers, Abort(h)
  PROVE  Inductive'
<1>1. IsFiniteSet(handlers') /\ Cardinality(handlers') <= MaxHandlers
  BY RequestCount DEF Abort, Inductive, SeatsPromised
<1>2. /\ handlers \in SUBSET handlers /\ {} \in SUBSET Handler
      /\ handlers' \subseteq handlers \cup {}
      /\ UNCHANGED <<appVars, contractVars, home, protocolVars, ghostVars>>
  BY DEF Abort, End
<1> QED
  BY <1>1, <1>2, OnlyRequests

-----------------------------------------------------------------------------
(* Steps that write one application and its contract. *)

\* Requests about the other applications do not notice, and those about this
\* one do not if the columns they rely on stay.
LEMMA RowWritten ==
  ASSUME Inductive, NEW a \in Apps, NEW rest \in SUBSET handlers,
         \A b \in Apps \ {a} :
           /\ status'[b] = status[b] /\ contract'[b] = contract[b]
           /\ assigned'[b] = assigned[b],
         \/ status'[a] = status[a]
         \/ \A g \in rest :
              g.step \in AppLockSteps \cup {"create.insert"} => g.app # a,
         \/ contract'[a] = contract[a]
         \/ \A g \in rest : g.step \in ContractLockSteps => g.app # a,
         \/ assigned'[a] \in {assigned[a], NoRoom}
         \/ \A g \in rest : g.step \in SeatSteps => g.app # a,
         granted \subseteq granted', seated \subseteq seated',
         UNCHANGED pstate
  PROVE  Undisturbed(rest)
<1>1. ASSUME NEW g \in rest, g.step \in AppSteps
      PROVE  g.app \in Apps
  BY <1>1 DEF Inductive, RequestInv, Informed, RequestKnows
<1>2. /\ AppLockSteps \cup {"create.insert"} \subseteq AppSteps
      /\ ContractLockSteps \subseteq AppSteps /\ SeatSteps \subseteq AppSteps
  BY DEF AppLockSteps, ContractLockSteps, SeatSteps, AppSteps, Steps
<1> QED
  BY <1>1, <1>2 DEF Undisturbed

\* No seat is claimed that was not before, and nobody moves in.
LEMMA NoNewClaim ==
  ASSUME Inductive,
         IsFiniteSet(handlers'), Cardinality(handlers') <= MaxHandlers,
         \A n \in handlers' \ handlers : n.step \notin ClaimSteps,
         \A s \in Students : home'[s] \in {home[s], NoRoom}
  PROVE  SeatsPromised'
<1>1. ASSUME NEW r \in Rooms
      PROVE  Occupants(r)' \subseteq Occupants(r) /\ Claims(r)' \subseteq Claims(r)
  BY NullAssumption DEF Occupants, Claims
<1> QED
  BY <1>1, SeatsKept DEF Inductive

\* What a request that has the row of an application to itself knows.
LEMMA RowLocked ==
  ASSUME Inductive, NEW h \in handlers,
         h.step \in AppLockSteps \cup {"create.insert"}
  PROVE  /\ h.app \in Apps /\ h \in Handler /\ RequestKnows(h)
         /\ \A g \in handlers \ {h} :
              g.step \in AppLockSteps \cup {"create.insert"} => g.app # h.app
<1>1. h \in Handler /\ RequestKnows(h) /\ \A g \in handlers : RequestKnows(g)
  BY DEF Inductive, TypeOK, RequestInv, Informed
<1>2. h.app \in Apps
  BY <1>1 DEF RequestKnows, AppLockSteps, AppSteps, Steps
<1>3. ASSUME NEW g \in handlers \ {h}, g.app = h.app,
             g.step \in AppLockSteps \cup {"create.insert"}
      PROVE  FALSE
  <2>1. CASE g.step \in AppLockSteps /\ h.step \in AppLockSteps
    BY <1>3, <2>1 DEF Inductive, RequestInv, Serialized, Exclusive
  <2>2. CASE g.step = "create.insert" /\ h.step = "create.insert"
    BY <1>3, <2>2 DEF Inductive, RequestInv, Serialized, Exclusive
  <2>3. CASE g.step \in AppLockSteps /\ h.step = "create.insert"
    BY <1>1, <1>3, <2>3 DEF RequestKnows, AppLockSteps
  <2>4. CASE g.step = "create.insert" /\ h.step \in AppLockSteps
    BY <1>1, <1>3, <2>4 DEF RequestKnows, AppLockSteps
  <2> QED
    BY <1>3, <2>1, <2>2, <2>3, <2>4
<1> QED
  BY <1>1, <1>2, <1>3

\* A decision that is not an approval: it is made on a pending application
\* and rejects it or sends it back.
LEMMA DecideSafe ==
  ASSUME Inductive, NEW a \in Apps,
         DecideReject(a) \/ DecideCorrection(a) \/ CancelApproved(a)
  PROVE  Inductive'
<1> USE DEF appVars, contractVars, protocolVars, ghostVars
<1>1. /\ UNCHANGED <<contractVars, home, protocolVars, handlers, ghostVars>>
      /\ ~AppLocked(a)
      /\ assigned' = [assigned EXCEPT ![a] = NoRoom]
      /\ preferred' \in {preferred, [preferred EXCEPT ![a] = NoRoom]}
  BY DEF DecideReject, DecideCorrection, CancelApproved
<1>2. PICK final \in {"rejected", "needs_correction"} :
        /\ status' = [status EXCEPT ![a] = final]
        /\ \/ /\ status[a] = "pending"
              /\ trail' = [trail EXCEPT ![a] = Reviewed(trail[a], final)]
           \/ /\ status[a] = "approved" /\ final = "rejected"
              /\ trail' = [trail EXCEPT
                             ![a] = AddHistory(trail[a], "approved", final)]
  BY DEF DecideReject, DecideCorrection, CancelApproved
<1>3. TypeOK'
  <2>1. /\ Reviewed(trail[a], final) \in Trail
        /\ AddHistory(trail[a], "approved", final) \in Trail
    BY TrailTypes DEF Inductive, TypeOK, AppStatus
  <2> QED
    BY <1>1, <1>2, <2>1 DEF Inductive, TypeOK, AppStatus, RoomOrNone
<1>4. AppInv'
  <2> USE <1>1, <1>2 DEF Inductive, TypeOK, AppInv
  <2>1. Reached'
    BY DEF Reached
  <2>2. OneActive'
    BY DEF OneActive, ActiveStatus
  <2>3. Agreed'
    BY DEF Agreed, Exists, AppStatus
  <2>4. HistoryLinked'
    BY DEF HistoryLinked, Exists, AppStatus, Reviewed, AddHistory, Trail
  <2>5. ContractMatchesApplication'
    BY DEF ContractMatchesApplication, Agreed, Reached, OpenContract
  <2>6. SeatBeforeSettlement'
    BY DEF SeatBeforeSettlement
  <2> QED
    BY <2>1, <2>2, <2>3, <2>4, <2>5, <2>6
<1>5. ProtocolInv'
  BY <1>1, ProtocolFrame DEF Inductive
<1>6. RequestInv'
  <2>1. \A g \in handlers :
          g.step \in AppLockSteps \cup {"create.insert"} => g.app # a
    BY <1>1, <1>2 DEF AppLocked, Inductive, RequestInv, Informed, RequestKnows
  <2>2. Undisturbed(handlers)
    BY <1>1, <1>2, <2>1, RowWritten DEF Inductive, TypeOK
  <2>3. /\ handlers' \subseteq handlers \cup {} /\ handlers \in SUBSET handlers
        /\ {} \in SUBSET Handler
    BY <1>1
  <2> QED
    BY <2>2, <2>3, RequestsKept DEF Inductive
<1>7. SeatsPromised'
  BY <1>1, NoNewClaim DEF Inductive, SeatsPromised
<1> QED
  BY <1>3, <1>4, <1>5, <1>6, <1>7 DEF Inductive

\* The application that is inserted was never there, so nothing is known of it.
LEMMA CreateInsertSafe ==
  ASSUME Inductive, NEW h \in handlers, CreateInsert(h)
  PROVE  Inductive'
<1> USE DEF appVars, contractVars, protocolVars, ghostVars
<1> DEFINE a == h.app
           n == AppHandler("create.history", a, NoRoom)
<1>1. /\ a \in Apps /\ h \in Handler /\ RequestKnows(h)
      /\ \A g \in handlers \ {h} :
           g.step \in AppLockSteps \cup {"create.insert"} => g.app # a
      /\ n \in Handler
  BY RowLocked, HandlerTypes DEF CreateInsert, Steps, RoomOrNone
<1>2. /\ status[a] = "none" /\ a \notin Legacy
      /\ h.student = Owner[a] /\ contract[a] = "none"
  BY <1>1 DEF CreateInsert, RequestKnows, AppSteps, Steps, Inductive, AppInv,
     Agreed, Exists, AppStatus
<1>3. /\ status' = [status EXCEPT ![a] = "pending"]
      /\ trail' = [trail EXCEPT ![a] = NewTrail]
      /\ contract' = [contract EXCEPT ![a] = "accepted"]
      /\ preferred' = [preferred EXCEPT ![a] = h.room]
      /\ Continue(h, n) /\ handlers' = (handlers \ {h}) \cup {n}
      /\ UNCHANGED <<assigned, overdue, home, protocolVars, ghostVars>>
      /\ ~HasActiveApplication(Owner[a])
  BY <1>2 DEF CreateInsert, Continue
<1>4. TypeOK'
  BY <1>1, <1>3, TrailTypes
     DEF Inductive, TypeOK, AppStatus, ContractStatus, Handler
<1>5. AppInv'
  <2> USE <1>1, <1>2, <1>3 DEF Inductive, TypeOK, AppInv
  <2>1. Reached'
    BY DEF Reached
  <2>2. OneActive'
    BY DEF OneActive, ActiveStatus, HasActiveApplication
  <2>3. Agreed'
    BY DEF Agreed, Exists, AppStatus, OpenContract
  <2>4. HistoryLinked'
    BY DEF HistoryLinked, Exists, NewTrail, NoTrail
  <2>5. ContractMatchesApplication'
    BY DEF ContractMatchesApplication, OpenContract
  <2>6. SeatBeforeSettlement'
    BY DEF SeatBeforeSettlement
  <2> QED
    BY <2>1, <2>2, <2>3, <2>4, <2>5, <2>6
<1>6. ProtocolInv'
  BY <1>3, ProtocolFrame DEF Inductive
<1>7. RequestInv'
  <2> DEFINE rest == handlers \ {h}
  <2>1. \A g \in rest : g.step \in ContractLockSteps => g.app # a
    BY <1>2 DEF Inductive, RequestInv, Informed, RequestKnows
  <2>2. Undisturbed(rest)
    BY <1>1, <1>3, <2>1, RowWritten DEF Inductive, TypeOK
  <2>3. \A m \in {n} : RequestKnows(m)'
    BY <1>1 DEF AppHandler, RequestKnows, AppSteps, Steps, HookSteps, SeatSteps,
       ContractLockSteps, ClaimSteps
  <2>4. \A m \in {n} : \A g \in rest \cup {n} : Rivals(m, g) => m = g
    BY DEF AppHandler, Rivals, Alone, AppLockSteps, ContractLockSteps
  <2>5. handlers' \subseteq rest \cup {n} /\ rest \in SUBSET handlers
        /\ {n} \in SUBSET Handler
    BY <1>1, <1>3
  <2> QED
    BY <2>2, <2>3, <2>4, <2>5, RequestsKept DEF Inductive
<1>8. SeatsPromised'
  <2>1. IsFiniteSet(handlers') /\ Cardinality(handlers') <= MaxHandlers
    BY <1>3, RequestCount DEF Inductive, SeatsPromised
  <2>2. n.step \notin ClaimSteps
    BY DEF AppHandler, ClaimSteps
  <2> QED
    BY <1>3, <2>1, <2>2, NoNewClaim
<1> QED
  BY <1>4, <1>5, <1>6, <1>7, <1>8 DEF Inductive

LEMMA CreateHistorySafe ==
  ASSUME Inductive, NEW h \in handlers, CreateHistory(h)
  PROVE  Inductive'
<1> USE DEF appVars, contractVars, protocolVars, ghostVars
<1>1. h.app \in Apps /\ trail[h.app] \in Trail
  BY DEF CreateHistory, Inductive, TypeOK, RequestInv, Informed, RequestKnows,
     AppSteps, Steps
<1>2. /\ trail' = [trail EXCEPT ![h.app] = AddCreation(trail[h.app])]
      /\ AddCreation(trail[h.app]) \in Trail
  BY <1>1, TrailTypes DEF CreateHistory
<1>3. /\ handlers' = handlers \ {h} /\ End(h)
      /\ UNCHANGED <<status, preferred, assigned, contractVars, home,
                     protocolVars, ghostVars>>
  BY DEF CreateHistory, End
<1>4. TypeOK'
  BY <1>1, <1>2, <1>3 DEF Inductive, TypeOK
<1>5. AppInv'
  <2>1. LET e == AddCreation(trail[h.app])
        IN  /\ e.chained = trail[h.app].chained
            /\ e.reached = trail[h.app].reached
            /\ \/ e.first = "overtaken"
               \/ /\ trail[h.app].first = "none"
                  /\ e.linked = trail[h.app].linked /\ e.last = trail[h.app].last
    BY <1>1 DEF AddCreation, Trail
  <2>2. \A a \in Apps : trail'[a] = IF a = h.app THEN AddCreation(trail[h.app])
                                                 ELSE trail[a]
    BY <1>1, <1>2 DEF Inductive, TypeOK
  <2>3. HistoryLinked'
    BY <1>1, <1>3, <2>1, <2>2
       DEF Inductive, AppInv, HistoryLinked, Exists
  <2> QED
    BY <1>3, <2>3 DEF Inductive, AppInv, Reached, OneActive, Agreed, Exists,
       ContractMatchesApplication, SeatBeforeSettlement
<1>6. ProtocolInv'
  BY <1>3, ProtocolFrame DEF Inductive
<1>7. RequestInv'
  <2>1. Undisturbed(handlers)
    BY <1>3 DEF Undisturbed
  <2>2. handlers' \subseteq handlers \cup {} /\ handlers \in SUBSET handlers
        /\ {} \in SUBSET Handler
    BY <1>3
  <2> QED
    BY <2>1, <2>2, RequestsKept DEF Inductive
<1>8. SeatsPromised'
  <2>1. IsFiniteSet(handlers') /\ Cardinality(handlers') <= MaxHandlers
    BY <1>3, RequestCount DEF Inductive, SeatsPromised
  <2> QED
    BY <1>3, <2>1, NoNewClaim
<1> QED
  BY <1>4, <1>5, <1>6, <1>7, <1>8 DEF Inductive

\* Deleting the row takes the wizard's contract along; an application with
\* any other contract, or in a protocol, is not deleted.
LEMMA CancelOwnDeleteSafe ==
  ASSUME Inductive, NEW h \in handlers, CancelOwnDelete(h)
  PROVE  Inductive'
<1> USE DEF appVars, contractVars, protocolVars, ghostVars
<1> DEFINE a == h.app
<1>1. a \in Apps
  BY DEF CancelOwnDelete, Inductive, RequestInv, Informed, RequestKnows,
     AppSteps, Steps
<1>2. /\ status' = [status EXCEPT ![a] = "deleted"]
      /\ preferred' = [preferred EXCEPT ![a] = NoRoom]
      /\ assigned' = [assigned EXCEPT ![a] = NoRoom]
      /\ trail' = [trail EXCEPT ![a] = NoTrail]
      /\ contract' = [contract EXCEPT ![a] = "none"]
      /\ contract[a] \in {"none", "accepted"}
      /\ Exists(a) /\ ~AppLocked(a)
      /\ End(h) /\ handlers' = handlers \ {h}
      /\ UNCHANGED <<overdue, home, protocolVars, ghostVars>>
  BY DEF CancelOwnDelete, End
<1>3. TypeOK'
  BY <1>1, <1>2, TrailTypes DEF Inductive, TypeOK, AppStatus, RoomOrNone
<1>4. AppInv'
  <2> USE <1>1, <1>2 DEF Inductive, TypeOK, AppInv
  <2>1. Reached'
    BY DEF Reached
  <2>2. OneActive'
    BY DEF OneActive, ActiveStatus
  <2>3. Agreed'
    BY DEF Agreed, Exists, AppStatus, OpenContract
  <2>4. HistoryLinked'
    BY DEF HistoryLinked, Exists, AppStatus
  <2>5. ContractMatchesApplication'
    BY DEF ContractMatchesApplication, OpenContract
  <2>6. SeatBeforeSettlement'
    BY DEF SeatBeforeSettlement
  <2> QED
    BY <2>1, <2>2, <2>3, <2>4, <2>5, <2>6
<1>5. ProtocolInv'
  BY <1>2, ProtocolFrame DEF Inductive
<1>6. RequestInv'
  <2>1. \A g \in handlers :
          g.step \in AppLockSteps \cup {"create.insert"} => g.app # a
    BY <1>2 DEF AppLocked, Exists, AppStatus, Inductive, RequestInv, Informed,
       RequestKnows
  <2>2. \A g \in handlers : g.step \in ContractLockSteps => g.app # a
    BY <1>2 DEF Inductive, RequestInv, Informed, RequestKnows
  <2>3. /\ \A b \in Apps \ {a} :
             /\ status'[b] = status[b] /\ contract'[b] = contract[b]
             /\ assigned'[b] = assigned[b]
        /\ assigned'[a] \in {assigned[a], NoRoom}
    BY <1>1, <1>2 DEF Inductive, TypeOK
  <2>4. Undisturbed(handlers)
    BY <1>1, <1>2, <2>1, <2>2, <2>3, RowWritten
  <2>5. handlers' \subseteq handlers \cup {} /\ handlers \in SUBSET handlers
        /\ {} \in SUBSET Handler
    BY <1>2
  <2> QED
    BY <2>4, <2>5, RequestsKept DEF Inductive
<1>7. SeatsPromised'
  <2>1. IsFiniteSet(handlers') /\ Cardinality(handlers') <= MaxHandlers
    BY <1>2, RequestCount DEF Inductive, SeatsPromised
  <2> QED
    BY <1>2, <2>1, NoNewClaim
<1> QED
  BY <1>3, <1>4, <1>5, <1>6, <1>7 DEF Inductive

LEMMA ResubmitSaveSafe ==
  ASSUME Inductive, NEW h \in handlers, ResubmitSave(h)
  PROVE  Inductive'
<1> USE DEF appVars, contractVars, protocolVars, ghostVars
<1> DEFINE a == h.app
<1>1. /\ a \in Apps /\ h \in Handler /\ RequestKnows(h)
      /\ \A g \in handlers \ {h} :
           g.step \in AppLockSteps \cup {"create.insert"} => g.app # a
  BY RowLocked DEF ResubmitSave, AppLockSteps
<1>2. status[a] = "needs_correction"
  BY <1>1 DEF ResubmitSave, RequestKnows
<1>3. /\ status' = [status EXCEPT ![a] = "pending"]
      /\ preferred' = [preferred EXCEPT
                         ![a] = IF h.room # NoRoom THEN h.room ELSE @]
      /\ trail' = [trail EXCEPT
                     ![a] = AddHistory(trail[a], "needs_correction", "pending")]
      /\ End(h) /\ handlers' = handlers \ {h}
      /\ UNCHANGED <<assigned, contractVars, home, protocolVars, ghostVars>>
  BY DEF ResubmitSave, End
<1>4. TypeOK'
  <2>1. AddHistory(trail[a], "needs_correction", "pending") \in Trail
    BY <1>1, TrailTypes DEF Inductive, TypeOK, AppStatus
  <2> QED
    BY <1>1, <1>3, <2>1 DEF Inductive, TypeOK, AppStatus, Handler
<1>5. AppInv'
  <2> USE <1>1, <1>2, <1>3 DEF Inductive, TypeOK, AppInv
  <2>1. Reached'
    BY DEF Reached
  <2>2. OneActive'
    BY DEF OneActive, ActiveStatus
  <2>3. Agreed'
    BY DEF Agreed, Exists, AppStatus
  <2>4. HistoryLinked'
    BY DEF HistoryLinked, Exists, AppStatus, AddHistory, Trail
  <2>5. ContractMatchesApplication'
    BY DEF ContractMatchesApplication, OpenContract
  <2>6. SeatBeforeSettlement'
    BY DEF SeatBeforeSettlement
  <2> QED
    BY <2>1, <2>2, <2>3, <2>4, <2>5, <2>6
<1>6. ProtocolInv'
  BY <1>3, ProtocolFrame DEF Inductive
<1>7. RequestInv'
  <2> DEFINE rest == handlers \ {h}
  <2>1. Undisturbed(rest)
    BY <1>1, <1>3, RowWritten DEF Inductive, TypeOK
  <2>2. handlers' \subseteq rest \cup {} /\ rest \in SUBSET handlers
        /\ {} \in SUBSET Handler
    BY <1>3
  <2> QED
    BY <2>1, <2>2, RequestsKept DEF Inductive
<1>8. SeatsPromised'
  <2>1. IsFiniteSet(handlers') /\ Cardinality(handlers') <= MaxHandlers
    BY <1>3, RequestCount DEF Inductive, SeatsPromised
  <2> QED
    BY <1>3, <2>1, NoNewClaim
<1> QED
  BY <1>4, <1>5, <1>6, <1>7, <1>8 DEF Inductive

\* The row was locked since it was read as pending: it still is, and no
\* request about a granted application can be about this one.
LEMMA DecideApproveSaveSafe ==
  ASSUME Inductive, NEW h \in handlers, DecideApproveSave(h)
  PROVE  Inductive'
<1> USE DEF appVars, contractVars, protocolVars, ghostVars
<1> DEFINE a == h.app
<1>1. /\ a \in Apps /\ h \in Handler /\ RequestKnows(h)
      /\ \A g \in handlers \ {h} :
           g.step \in AppLockSteps \cup {"create.insert"} => g.app # a
  BY RowLocked DEF DecideApproveSave, AppLockSteps
<1>2. status[a] = "pending"
  BY <1>1 DEF DecideApproveSave, RequestKnows
<1>3. /\ status' = [status EXCEPT ![a] = "approved"]
      /\ assigned' = [assigned EXCEPT ![a] = h.room]
      /\ trail' = [trail EXCEPT ![a] = Reviewed(trail[a], "approved")]
      /\ cleared' = cleared \cup {a}
      /\ End(h) /\ handlers' = handlers \ {h}
      /\ UNCHANGED <<preferred, contractVars, home, protocolVars, granted,
                     seated>>
  BY DEF DecideApproveSave, End
<1>4. TypeOK'
  <2>1. Reviewed(trail[a], "approved") \in Trail
    BY <1>1, TrailTypes DEF Inductive, TypeOK, AppStatus
  <2> QED
    BY <1>1, <1>3, <2>1 DEF Inductive, TypeOK, AppStatus, Handler
<1>5. AppInv'
  <2> USE <1>1, <1>2, <1>3 DEF Inductive, TypeOK, AppInv
  <2>1. Reached'
    BY DEF Reached
  <2>2. OneActive'
    BY DEF OneActive, ActiveStatus
  <2>3. Agreed'
    BY DEF Agreed, Exists, AppStatus
  <2>4. HistoryLinked'
    BY DEF HistoryLinked, Exists, AppStatus, Reviewed, AddHistory, Trail
  <2>5. ContractMatchesApplication'
    BY DEF ContractMatchesApplication, OpenContract
  <2>6. SeatBeforeSettlement'
    BY DEF SeatBeforeSettlement
  <2> QED
    BY <2>1, <2>2, <2>3, <2>4, <2>5, <2>6
<1>6. ProtocolInv'
  BY <1>3, ProtocolFrame DEF Inductive
<1>7. RequestInv'
  <2> DEFINE rest == handlers \ {h}
  <2>1. a \notin granted
    BY <1>1, <1>2 DEF Inductive, AppInv, Reached
  <2>2. \A g \in rest : g.step \in SeatSteps => g.app # a
    BY <1>1, <2>1 DEF Inductive, RequestInv, AppInv, Agreed, OpenContract,
       Informed, RequestKnows, SeatSteps, HookSteps, ContractLockSteps
  <2>3. Undisturbed(rest)
    BY <1>1, <1>3, <2>2, RowWritten DEF Inductive, TypeOK
  <2>4. handlers' \subseteq rest \cup {} /\ rest \in SUBSET handlers
        /\ {} \in SUBSET Handler
    BY <1>3
  <2> QED
    BY <2>3, <2>4, RequestsKept DEF Inductive
<1>8. SeatsPromised'
  <2>1. IsFiniteSet(handlers') /\ Cardinality(handlers') <= MaxHandlers
    BY <1>3, RequestCount DEF Inductive, SeatsPromised
  <2> QED
    BY <1>3, <2>1, NoNewClaim
<1> QED
  BY <1>4, <1>5, <1>6, <1>7, <1>8 DEF Inductive

-----------------------------------------------------------------------------
(* Steps that write the residents of a room. *)

LEMMA AddResidentInsertSafe ==
  ASSUME Inductive, NEW h \in handlers, AddResidentInsert(h)
  PROVE  Inductive'
<1> USE DEF appVars, contractVars, protocolVars, ghostVars
<1>1. h.student \in Students /\ h.room \in Rooms
  BY DEF AddResidentInsert, Inductive, RequestInv, Informed, RequestKnows,
     ClaimSteps
<1>2. /\ home' = [home EXCEPT ![h.student] = h.room]
      /\ End(h) /\ handlers' = handlers \ {h} /\ h.step = "resident.insert"
      /\ UNCHANGED <<appVars, contractVars, protocolVars, ghostVars>>
  BY DEF AddResidentInsert, End
<1>3. TypeOK'
  BY <1>1, <1>2 DEF Inductive, TypeOK, RoomOrNone
<1>4. AppInv' /\ ProtocolInv'
  BY <1>2, AppFrame, ProtocolFrame DEF Inductive
<1>5. RequestInv'
  <2>1. Undisturbed(handlers)
    BY <1>2 DEF Undisturbed
  <2>2. handlers' \subseteq handlers \cup {} /\ handlers \in SUBSET handlers
        /\ {} \in SUBSET Handler
    BY <1>2
  <2> QED
    BY <2>1, <2>2, RequestsKept DEF Inductive
<1>6. SeatsPromised'
  <2>1. IsFiniteSet(handlers') /\ Cardinality(handlers') <= MaxHandlers
    BY <1>2, RequestCount DEF Inductive, SeatsPromised
  <2>2. h \in Claims(h.room)
    BY <1>2 DEF Claims, ClaimSteps
  <2>3. \A r \in Rooms : Claims(r)' \subseteq Claims(r) \ {h}
    BY <1>2 DEF Claims
  <2> QED
    BY <1>1, <1>2, <2>1, <2>2, <2>3, SeatTaken DEF Inductive
<1> QED
  BY <1>3, <1>4, <1>5, <1>6 DEF Inductive

LEMMA MoveOutSafe ==
  ASSUME Inductive, NEW s \in Students, MoveOutResident(s)
  PROVE  Inductive'
<1> USE DEF appVars, contractVars, protocolVars, ghostVars
<1>1. /\ home' = [home EXCEPT ![s] = NoRoom]
      /\ UNCHANGED <<appVars, contractVars, protocolVars, handlers, ghostVars>>
  BY DEF MoveOutResident
<1>2. TypeOK'
  BY <1>1 DEF Inductive, TypeOK, RoomOrNone
<1>3. AppInv' /\ ProtocolInv'
  BY <1>1, AppFrame, ProtocolFrame DEF Inductive
<1>4. RequestInv'
  <2>1. Undisturbed(handlers)
    BY <1>1 DEF Undisturbed
  <2>2. handlers' \subseteq handlers \cup {} /\ handlers \in SUBSET handlers
        /\ {} \in SUBSET Handler
    BY <1>1
  <2> QED
    BY <2>1, <2>2, RequestsKept DEF Inductive
<1>5. SeatsPromised'
  <2>1. \A t \in Students : home'[t] \in {home[t], NoRoom}
    BY <1>1 DEF Inductive, TypeOK
  <2> QED
    BY <1>1, <2>1, NoNewClaim DEF Inductive, SeatsPromised
<1> QED
  BY <1>2, <1>3, <1>4, <1>5 DEF Inductive

-----------------------------------------------------------------------------
(* Steps that write a protocol. *)

\* What is put before the committee is approved and nowhere else listed.
LEMMA CreateProtocolSafe ==
  ASSUME Inductive, NEW p \in Protocols, NEW as \in SUBSET Apps,
         NEW ss \in SUBSET Students, NEW roster \in SUBSET Members,
         CreateProtocol(p, as, ss, roster)
  PROVE  Inductive'
<1> USE DEF appVars, contractVars, protocolVars, ghostVars
<1>1. /\ pstate[p] = "none"
      /\ pstate' = [pstate EXCEPT ![p] = "pending"]
      /\ papps' = [papps EXCEPT ![p] = as]
      /\ presidents' = [presidents EXCEPT ![p] = ss]
      /\ \A a \in as : status[a] = "approved" /\ ~InSomeProtocol(a)
      /\ \A s \in ss : EligibleResident(s)
      /\ UNCHANGED <<appVars, contractVars, home, referred, handlers, ghostVars>>
  BY DEF CreateProtocol, ProtocolCandidate
<1>2. /\ votes' \in [Protocols -> [Members -> Vote]]
      /\ \A q \in Protocols \ {p} : votes'[q] = votes[q]
  BY DEF CreateProtocol, Inductive, TypeOK, Vote
<1>3. TypeOK'
  BY <1>1, <1>2 DEF Inductive, TypeOK
<1>4. AppInv'
  BY <1>1, AppFrame DEF Inductive
<1>5. ProtocolInv'
  <2> USE <1>1 DEF Inductive, TypeOK, ProtocolInv
  <2>1. Listed'
    BY DEF Listed, AppInv, Reached
  <2>2. ApprovedMeansUnanimous'
    BY <1>2 DEF ApprovedMeansUnanimous, Unanimous
  <2>3. OneProtocolEach'
    BY DEF OneProtocolEach, InSomeProtocol, EligibleResident
  <2>4. NamedOnce'
    <3>1. \A a \in as : Owner[a] \notin ss
      BY DEF EligibleResident
    <3>2. \A a, b \in as : Owner[a] = Owner[b] => a = b
      BY DEF AppInv, OneActive, ActiveStatus
    <3> QED
      BY <3>1, <3>2 DEF NamedOnce
  <2>5. ReferralsFollowApproval'
    BY DEF ReferralsFollowApproval
  <2> QED
    BY <2>1, <2>2, <2>3, <2>4, <2>5
<1>6. RequestInv'
  <2>1. Undisturbed(handlers)
    BY <1>1 DEF Undisturbed, Inductive, TypeOK
  <2>2. handlers' \subseteq handlers \cup {} /\ handlers \in SUBSET handlers
        /\ {} \in SUBSET Handler
    BY <1>1
  <2> QED
    BY <2>1, <2>2, RequestsKept DEF Inductive
<1>7. SeatsPromised'
  BY <1>1, NoNewClaim DEF Inductive, SeatsPromised
<1> QED
  BY <1>3, <1>4, <1>5, <1>6, <1>7 DEF Inductive

LEMMA DeleteProtocolSafe ==
  ASSUME Inductive, NEW h \in handlers, DeleteProtocol(h)
  PROVE  Inductive'
<1> USE DEF appVars, contractVars, protocolVars, ghostVars
<1> DEFINE p == h.protocol
<1>1. /\ pstate' = [pstate EXCEPT ![p] = "deleted"]
      /\ papps' = [papps EXCEPT ![p] = {}]
      /\ presidents' = [presidents EXCEPT ![p] = {}]
      /\ votes' = [votes EXCEPT ![p] = NoVotes]
      /\ End(h) /\ handlers' = handlers \ {h}
      /\ UNCHANGED <<appVars, contractVars, home, referred, ghostVars>>
  BY DEF DeleteProtocol, End
<1>2. NoVotes \in [Members -> Vote]
  BY DEF NoVotes, Vote
<1>3. TypeOK'
  BY <1>1, <1>2 DEF Inductive, TypeOK
<1>4. AppInv'
  BY <1>1, AppFrame DEF Inductive
<1>5. ProtocolInv'
  <2> USE <1>1 DEF Inductive, TypeOK, ProtocolInv
  <2>1. Listed'
    BY DEF Listed
  <2>2. ApprovedMeansUnanimous'
    BY DEF ApprovedMeansUnanimous, Unanimous
  <2>3. OneProtocolEach'
    BY DEF OneProtocolEach
  <2>4. NamedOnce'
    BY DEF NamedOnce
  <2>5. ReferralsFollowApproval'
    BY DEF ReferralsFollowApproval
  <2> QED
    BY <2>1, <2>2, <2>3, <2>4, <2>5
<1>6. RequestInv'
  <2>1. Undisturbed(handlers)
    BY <1>1 DEF Undisturbed, Inductive, TypeOK
  <2>2. handlers' \subseteq handlers \cup {} /\ handlers \in SUBSET handlers
        /\ {} \in SUBSET Handler
    BY <1>1
  <2> QED
    BY <2>1, <2>2, RequestsKept DEF Inductive
<1>7. SeatsPromised'
  <2>1. IsFiniteSet(handlers') /\ Cardinality(handlers') <= MaxHandlers
    BY <1>1, RequestCount DEF Inductive, SeatsPromised
  <2> QED
    BY <1>1, <2>1, NoNewClaim
<1> QED
  BY <1>3, <1>4, <1>5, <1>6, <1>7 DEF Inductive

LEMMA VotePendingSafe ==
  ASSUME Inductive, NEW p \in Protocols, NEW m \in Members,
         NEW d \in {"approved", "rejected"}, VotePending(p, m, d)
  PROVE  Inductive'
<1> USE DEF appVars, contractVars, protocolVars, ghostVars
<1>1. /\ pstate[p] = "pending" /\ votes' = [votes EXCEPT ![p][m] = d]
      /\ UNCHANGED <<appVars, contractVars, home, pstate, papps, presidents,
                     referred, handlers, ghostVars>>
  BY DEF VotePending, Cast
<1>2. TypeOK'
  BY <1>1 DEF Inductive, TypeOK, Vote
<1>3. AppInv'
  BY <1>1, AppFrame DEF Inductive
<1>4. ProtocolInv'
  BY <1>1 DEF Inductive, TypeOK, ProtocolInv, Listed, ApprovedMeansUnanimous,
     Unanimous, OneProtocolEach, NamedOnce, ReferralsFollowApproval
<1>5. RequestInv'
  <2>1. Undisturbed(handlers)
    BY <1>1 DEF Undisturbed
  <2>2. handlers' \subseteq handlers \cup {} /\ handlers \in SUBSET handlers
        /\ {} \in SUBSET Handler
    BY <1>1
  <2> QED
    BY <2>1, <2>2, RequestsKept DEF Inductive
<1>6. SeatsPromised'
  BY <1>1, NoNewClaim DEF Inductive, SeatsPromised
<1> QED
  BY <1>2, <1>3, <1>4, <1>5, <1>6 DEF Inductive

\* The last vote grants what the protocol lists and starts the hook.
LEMMA VoteApprovedSafe ==
  ASSUME Inductive, NEW p \in Protocols, NEW m \in Members, VoteApproved(p, m)
  PROVE  Inductive'
<1> USE DEF appVars, contractVars, protocolVars, ghostVars
<1> DEFINE n == ProtocolHandler("hook.next", p, papps[p])
<1>1. /\ pstate[p] = "pending"
      /\ votes' = [votes EXCEPT ![p][m] = "approved"] /\ Unanimous(votes'[p])
      /\ pstate' = [pstate EXCEPT ![p] = "approved"]
      /\ granted' = granted \cup papps[p]
      /\ Begin(n) /\ handlers' = handlers \cup {n}
      /\ UNCHANGED <<appVars, contractVars, home, papps, presidents, referred,
                     cleared, seated>>
  BY DEF VoteApproved, Cast, Begin
<1>2. n \in Handler /\ papps[p] \subseteq Apps /\ papps[p] \subseteq cleared
  BY HandlerTypes
     DEF Inductive, TypeOK, ProtocolInv, Listed, Steps
<1>3. TypeOK'
  BY <1>1, <1>2 DEF Inductive, TypeOK, Vote
<1>4. AppInv'
  <2> USE <1>1, <1>2 DEF Inductive, TypeOK, AppInv
  <2>1. Reached'
    BY DEF Reached
  <2>2. Agreed'
    BY DEF Agreed, Exists
  <2>3. OneActive' /\ HistoryLinked' /\ ContractMatchesApplication'
        /\ SeatBeforeSettlement'
    BY DEF OneActive, HistoryLinked, Exists, ContractMatchesApplication,
       SeatBeforeSettlement
  <2> QED
    BY <2>1, <2>2, <2>3
<1>5. ProtocolInv'
  <2> USE <1>1, <1>2 DEF Inductive, TypeOK, ProtocolInv
  <2>1. Listed'
    BY DEF Listed
  <2>2. ApprovedMeansUnanimous'
    BY DEF ApprovedMeansUnanimous, Unanimous
  <2>3. OneProtocolEach' /\ NamedOnce'
    BY DEF OneProtocolEach, NamedOnce
  <2>4. ReferralsFollowApproval'
    BY DEF ReferralsFollowApproval
  <2> QED
    BY <2>1, <2>2, <2>3, <2>4
<1>6. RequestInv'
  <2>1. Undisturbed(handlers)
    BY <1>1 DEF Undisturbed, Inductive, TypeOK
  <2>2. \A k \in {n} : RequestKnows(k)'
    BY <1>1 DEF ProtocolHandler, RequestKnows, AppSteps, Steps, HookSteps,
       SeatSteps, ContractLockSteps, ClaimSteps, Inductive, TypeOK
  <2>3. \A k \in {n} : \A g \in handlers \cup {n} : Rivals(k, g) => k = g
    BY DEF ProtocolHandler, Rivals, Alone, AppLockSteps, ContractLockSteps
  <2>4. handlers' \subseteq handlers \cup {n} /\ handlers \in SUBSET handlers
        /\ {n} \in SUBSET Handler
    BY <1>1, <1>2
  <2> QED
    BY <2>1, <2>2, <2>3, <2>4, RequestsKept DEF Inductive
<1>7. SeatsPromised'
  <2>1. IsFiniteSet(handlers') /\ Cardinality(handlers') <= MaxHandlers
    BY <1>1, RequestCount DEF Inductive, SeatsPromised
  <2>2. n.step \notin ClaimSteps
    BY DEF ProtocolHandler, ClaimSteps
  <2> QED
    BY <1>1, <2>1, <2>2, NoNewClaim
<1> QED
  BY <1>3, <1>4, <1>5, <1>6, <1>7 DEF Inductive

\* Referrals go to students the approved protocol names, if it still exists.
LEMMA HookReferSafe ==
  ASSUME Inductive, NEW h \in handlers, HookRefer(h)
  PROVE  Inductive'
<1> USE DEF appVars, contractVars, protocolVars, ghostVars
<1> DEFINE p == h.protocol
<1>1. /\ h \in Handler /\ p \in Protocols
      /\ pstate[p] \in {"approved", "deleted"}
  BY DEF HookRefer, Inductive, TypeOK, RequestInv, Informed, RequestKnows,
     HookSteps
<1>2. PICK placed \in SUBSET papps[p] :
        referred' = referred \cup
          ({p} \X ({Owner[a] : a \in placed} \cup presidents[p]))
  BY DEF HookRefer
<1>3. /\ End(h) /\ handlers' = handlers \ {h}
      /\ UNCHANGED <<appVars, contractVars, home, pstate, papps, presidents,
                     votes, ghostVars>>
  BY DEF HookRefer, End
<1>4. TypeOK'
  <2>1. {Owner[a] : a \in placed} \cup presidents[p] \subseteq Students
    BY <1>1, OwnerAssumption DEF Inductive, TypeOK
  <2> QED
    BY <1>1, <1>2, <1>3, <2>1 DEF Inductive, TypeOK
<1>5. AppInv'
  BY <1>3, AppFrame DEF Inductive
<1>6. ProtocolInv'
  <2>1. ReferralsFollowApproval'
    BY <1>1, <1>2, <1>3
       DEF Inductive, TypeOK, ProtocolInv, ReferralsFollowApproval
  <2> QED
    BY <1>3, <2>1 DEF Inductive, ProtocolInv, Listed, ApprovedMeansUnanimous,
       Unanimous, OneProtocolEach, NamedOnce
<1>7. RequestInv'
  <2>1. Undisturbed(handlers)
    BY <1>3 DEF Undisturbed
  <2>2. handlers' \subseteq handlers \cup {} /\ handlers \in SUBSET handlers
        /\ {} \in SUBSET Handler
    BY <1>3
  <2> QED
    BY <2>1, <2>2, RequestsKept DEF Inductive
<1>8. SeatsPromised'
  <2>1. IsFiniteSet(handlers') /\ Cardinality(handlers') <= MaxHandlers
    BY <1>3, RequestCount DEF Inductive, SeatsPromised
  <2> QED
    BY <1>3, <2>1, NoNewClaim
<1> QED
  BY <1>4, <1>5, <1>6, <1>7, <1>8 DEF Inductive

-----------------------------------------------------------------------------
(* Steps of the hook that write. *)

\* What a request of the hook about an application knows.
LEMMA HookKnows ==
  ASSUME Inductive, NEW h \in handlers, h.step \in HookSteps \ {"hook.next"}
  PROVE  /\ h.app \in Apps /\ h \in Handler /\ RequestKnows(h)
         /\ h.app \in granted /\ h.student = Owner[h.app]
         /\ \A n \in {NextApplication(h)} :
              n \in Handler /\ n.step = "hook.next" /\ RequestKnows(n)
<1>1. h \in Handler /\ RequestKnows(h)
  BY DEF Inductive, TypeOK, RequestInv, Informed
<1>2. h.app \in Apps /\ h.app \in granted /\ h.student = Owner[h.app]
  BY <1>1 DEF RequestKnows, HookSteps, AppSteps, Steps
<1>3. NextApplication(h) \in Handler /\ RequestKnows(NextApplication(h))
  <2>1. h.todo \in SUBSET h.todo
    OBVIOUS
  <2> QED
    BY <2>1, HookHandlerKnows DEF NextApplication
<1> QED
  BY <1>1, <1>2, <1>3 DEF NextApplication, ProtocolHandler

\* A request that goes on with the hook's list knows no less after the step.
LEMMA NextKnowsStill ==
  ASSUME NEW n, n.step = "hook.next", RequestKnows(n),
         UNCHANGED <<pstate, granted>>
  PROVE  /\ RequestKnows(n)'
         /\ \A g : ~Rivals(n, g)
         /\ n.step \notin ClaimSteps
BY DEF RequestKnows, AppSteps, Steps, HookSteps, SeatSteps, ContractLockSteps,
       ClaimSteps, Rivals, Alone, AppLockSteps

\* A contract is only sent for an application that was granted, and one that
\* is settled already has its contract.
LEMMA HookSendSafe ==
  ASSUME Inductive, NEW h \in handlers, HookSend(h)
  PROVE  Inductive'
<1> USE DEF appVars, contractVars, protocolVars, ghostVars
<1> DEFINE a == h.app
           n == NextApplication(h)
<1>1. /\ a \in Apps /\ h \in Handler /\ RequestKnows(h) /\ a \in granted
      /\ n \in Handler /\ n.step = "hook.next" /\ RequestKnows(n)
  BY HookKnows DEF HookSend, HookSteps
<1>2. a \in Legacy
  BY <1>1 DEF HookSend, RequestKnows
<1>3. /\ contract' = [contract EXCEPT
                        ![a] = IF contract[a] = "none" THEN "sent" ELSE contract[a]]
      /\ Continue(h, n) /\ handlers' = (handlers \ {h}) \cup {n}
      /\ Exists(a)
      /\ UNCHANGED <<appVars, overdue, home, protocolVars, ghostVars>>
  BY DEF HookSend, Continue
<1>4. TypeOK'
  BY <1>1, <1>3 DEF Inductive, TypeOK, ContractStatus
<1>5. AppInv'
  <2> USE <1>1, <1>2, <1>3 DEF Inductive, TypeOK, AppInv
  <2>1. Reached' /\ OneActive' /\ HistoryLinked' /\ SeatBeforeSettlement'
    BY DEF Reached, OneActive, HistoryLinked, Exists, SeatBeforeSettlement
  <2>2. Agreed'
    BY DEF Agreed, Exists, OpenContract
  <2>3. ContractMatchesApplication'
    BY DEF ContractMatchesApplication, OpenContract, Reached, Exists, AppStatus
  <2> QED
    BY <2>1, <2>2, <2>3
<1>6. ProtocolInv'
  BY <1>3, ProtocolFrame DEF Inductive
<1>7. RequestInv'
  <2>1. \/ contract'[a] = contract[a]
        \/ \A g \in handlers : g.step \in ContractLockSteps => g.app # a
    BY <1>1, <1>3 DEF Inductive, TypeOK, RequestInv, Informed, RequestKnows
  <2>2. \A b \in Apps \ {a} :
          /\ status'[b] = status[b] /\ contract'[b] = contract[b]
          /\ assigned'[b] = assigned[b]
    BY <1>3 DEF Inductive, TypeOK
  <2>3. Undisturbed(handlers)
    BY <1>1, <1>3, <2>1, <2>2, RowWritten
  <2>4. \A k \in {n} : RequestKnows(k)'
    BY <1>1, <1>3, NextKnowsStill
  <2>5. \A k \in {n} : \A g \in handlers \cup {n} : Rivals(k, g) => k = g
    BY <1>1, <1>3, NextKnowsStill
  <2>6. handlers' \subseteq handlers \cup {n} /\ handlers \in SUBSET handlers
        /\ {n} \in SUBSET Handler
    BY <1>1, <1>3
  <2> QED
    BY <2>3, <2>4, <2>5, <2>6, RequestsKept DEF Inductive
<1>8. SeatsPromised'
  <2>1. IsFiniteSet(handlers') /\ Cardinality(handlers') <= MaxHandlers
    BY <1>3, RequestCount DEF Inductive, SeatsPromised
  <2>2. n.step \notin ClaimSteps
    BY <1>1 DEF ClaimSteps
  <2> QED
    BY <1>3, <2>1, <2>2, NoNewClaim
<1> QED
  BY <1>4, <1>5, <1>6, <1>7, <1>8 DEF Inductive

\* A request that has claimed its seat.
LEMMA SeatClaimed ==
  ASSUME Inductive, NEW h \in handlers, ClaimSeat(h),
         h.step \in {"hook.claim", "respond.claim"},
         NEW n \in Handler, Continue(h, n), n.step \notin ClaimSteps,
         RequestKnows(n)',
         \A g \in (handlers \ {h}) \cup {n} : Rivals(n, g) => n = g,
         UNCHANGED <<appVars, contractVars, protocolVars, cleared, granted>>
  PROVE  Inductive'
<1> USE DEF appVars, contractVars, protocolVars, ghostVars
<1>1. /\ h.app \in Apps /\ h.student \in Students /\ h.room \in Rooms
  BY DEF Inductive, RequestInv, Informed, RequestKnows, ClaimSteps, AppSteps,
     Steps
<1>2. /\ home' = [home EXCEPT ![h.student] = h.room]
      /\ seated' = seated \cup {h.app}
      /\ handlers' = (handlers \ {h}) \cup {n}
  BY DEF ClaimSeat, Continue
<1>3. TypeOK'
  BY <1>1, <1>2 DEF Inductive, TypeOK, RoomOrNone
<1>4. AppInv'
  <2>1. SeatBeforeSettlement'
    BY <1>2 DEF Inductive, AppInv, SeatBeforeSettlement
  <2> QED
    BY <2>1 DEF Inductive, AppInv, Reached, OneActive, Agreed, HistoryLinked,
       Exists, ContractMatchesApplication
<1>5. ProtocolInv'
  BY ProtocolFrame DEF Inductive
<1>6. RequestInv'
  <2> DEFINE rest == handlers \ {h}
  <2>1. Undisturbed(rest)
    BY <1>2 DEF Undisturbed
  <2>2. handlers' \subseteq rest \cup {n} /\ rest \in SUBSET handlers
        /\ {n} \in SUBSET Handler
    BY <1>2
  <2>3. /\ \A k \in {n} : RequestKnows(k)'
        /\ \A k \in {n} : \A g \in rest \cup {n} : Rivals(k, g) => k = g
    OBVIOUS
  <2> QED
    BY <2>1, <2>2, <2>3, RequestsKept DEF Inductive
<1>7. SeatsPromised'
  <2>1. IsFiniteSet(handlers') /\ Cardinality(handlers') <= MaxHandlers
    BY RequestCount DEF Inductive, SeatsPromised
  <2>2. h \in Claims(h.room)
    BY DEF Claims, ClaimSteps
  <2>3. \A r \in Rooms : Claims(r)' \subseteq Claims(r) \ {h}
    BY <1>2 DEF Claims
  <2> QED
    BY <1>1, <1>2, <2>1, <2>2, <2>3, SeatTaken DEF Inductive
<1> QED
  BY <1>3, <1>4, <1>5, <1>6, <1>7 DEF Inductive

LEMMA HookClaimSafe ==
  ASSUME Inductive, NEW h \in handlers, HookClaim(h)
  PROVE  Inductive'
<1> DEFINE n == [h EXCEPT !.step = "hook.settle"]
<1>1. h \in Handler /\ RequestKnows(h)
  BY DEF Inductive, TypeOK, RequestInv, Informed
<1>2. n \in Handler
  BY <1>1, HookHandlerTypes
<1>3. /\ h.step = "hook.claim" /\ ClaimSeat(h) /\ Continue(h, n)
      /\ UNCHANGED <<appVars, contractVars, protocolVars, cleared, granted>>
  BY DEF HookClaim
<1>4. /\ n.step = "hook.settle" /\ n.app = h.app /\ n.student = h.student
      /\ n.room = h.room /\ n.protocol = h.protocol /\ n.todo = h.todo
  BY <1>1 DEF Handler
<1>5. RequestKnows(n)'
  BY <1>1, <1>3, <1>4
     DEF RequestKnows, ClaimSeat, HookSteps, SeatSteps, AppSteps, Steps,
         ContractLockSteps, ClaimSteps, appVars, contractVars, protocolVars
<1>6. /\ n.step \notin ClaimSteps
      /\ \A g \in (handlers \ {h}) \cup {n} : Rivals(n, g) => n = g
  BY <1>4 DEF ClaimSteps, Rivals, Alone, AppLockSteps, ContractLockSteps
<1> HIDE DEF n
<1> QED
  BY <1>2, <1>3, <1>5, <1>6, SeatClaimed

LEMMA RespondClaimSafe ==
  ASSUME Inductive, NEW h \in handlers, RespondClaim(h)
  PROVE  Inductive'
<1> DEFINE n == AppHandler("respond.accept", h.app, h.room)
<1>1. h \in Handler /\ RequestKnows(h)
  BY DEF Inductive, TypeOK, RequestInv, Informed
<1>2. /\ h.step = "respond.claim" /\ ClaimSeat(h) /\ Continue(h, n)
      /\ UNCHANGED <<appVars, contractVars, protocolVars, cleared, granted>>
  BY DEF RespondClaim
<1>3. h.app \in Apps /\ n \in Handler
  <2>1. h.app \in Apps /\ h.room \in RoomOrNone
    BY <1>1, <1>2 DEF RequestKnows, AppSteps, Steps, Handler
  <2> QED
    BY <2>1, HandlerTypes DEF Steps
<1>4. /\ n.step = "respond.accept" /\ n.app = h.app
      /\ n.student = Owner[h.app] /\ n.room = h.room
  BY DEF AppHandler
<1>5. RequestKnows(n)'
  BY <1>1, <1>2, <1>3, <1>4
     DEF RequestKnows, ClaimSeat, HookSteps, SeatSteps, AppSteps, Steps,
         ContractLockSteps, ClaimSteps, appVars, contractVars, protocolVars
<1>6. n.step \notin ClaimSteps
  BY <1>4 DEF ClaimSteps
<1>7. \A g \in (handlers \ {h}) \cup {n} : Rivals(n, g) => n = g
  BY <1>2, <1>4 DEF Rivals, Alone, AppLockSteps, ContractLockSteps, Inductive,
     RequestInv, Serialized, Exclusive
<1> HIDE DEF n
<1> QED
  BY <1>2, <1>3, <1>5, <1>6, <1>7, SeatClaimed

-----------------------------------------------------------------------------
(* MarkApplicationSettled and MarkApplicationRejected, and the steps that   *)
(* use them.                                                               *)

\* What the mark alone keeps: nobody has the row locked, an application that
\* is settled was granted and has a seat if it has a room.
LEMMA Marked ==
  ASSUME Inductive, NEW a \in Apps, NEW final \in {"settled", "rejected"},
         Mark(a, final),
         final = "settled" =>
           a \in granted /\ (assigned[a] # NoRoom => a \in seated),
         UNCHANGED <<assigned, cleared, granted, seated>>
  PROVE  /\ status' = [status EXCEPT ![a] = final] /\ Exists(a)
         /\ status' \in [Apps -> AppStatus \cup {"none", "deleted"}]
         /\ trail' \in [Apps -> Trail]
         /\ Reached' /\ OneActive' /\ HistoryLinked' /\ SeatBeforeSettlement'
         /\ \A g \in handlers :
              g.step \in AppLockSteps \cup {"create.insert"} => g.app # a
<1>1. /\ status' = [status EXCEPT ![a] = final]
      /\ trail' = [trail EXCEPT ![a] = AddHistory(trail[a], status[a], final)]
      /\ Exists(a) /\ ~AppLocked(a)
      /\ UNCHANGED <<assigned, cleared, granted, seated>>
  BY DEF Mark
<1>2. TypeOK /\ AppInv
  BY DEF Inductive
<1>3. /\ status' \in [Apps -> AppStatus \cup {"none", "deleted"}]
      /\ trail' \in [Apps -> Trail]
  <2>1. AddHistory(trail[a], status[a], final) \in Trail
    <3>1. trail[a] \in Trail /\ status[a] \in AppStatus /\ final \in AppStatus
      BY <1>1, <1>2 DEF TypeOK, Exists, AppStatus
    <3> QED
      BY <3>1, TrailTypes
  <2> QED
    BY <1>1, <1>2, <2>1 DEF TypeOK, AppStatus
<1>4. Reached'
  BY <1>1, <1>2 DEF TypeOK, AppInv, Reached
<1>5. OneActive'
  BY <1>1, <1>2 DEF TypeOK, AppInv, OneActive, ActiveStatus
<1>6. HistoryLinked'
  BY <1>1, <1>2 DEF TypeOK, AppInv, HistoryLinked, Exists, AppStatus,
     AddHistory, Trail
<1>7. SeatBeforeSettlement'
  BY <1>1, <1>2 DEF TypeOK, AppInv, SeatBeforeSettlement
<1>8. \A g \in handlers :
        g.step \in AppLockSteps \cup {"create.insert"} => g.app # a
  BY <1>1 DEF AppLocked, Exists, AppStatus, Inductive, RequestInv, Informed,
     RequestKnows
<1> QED
  BY <1>1, <1>3, <1>4, <1>5, <1>6, <1>7, <1>8

\* The room an application is settled with is the one its seat was claimed
\* in, or none by now.
LEMMA HookSettleSafe ==
  ASSUME Inductive, NEW h \in handlers, HookSettle(h)
  PROVE  Inductive'
<1> USE DEF appVars, contractVars, protocolVars, ghostVars
<1> DEFINE a == h.app
           n == NextApplication(h)
<1>1. /\ a \in Apps /\ h \in Handler /\ RequestKnows(h) /\ a \in granted
      /\ n \in Handler /\ n.step = "hook.next" /\ RequestKnows(n)
  BY HookKnows DEF HookSettle, HookSteps
<1>2. /\ a \notin Legacy /\ (assigned[a] # NoRoom => a \in seated)
  BY <1>1 DEF HookSettle, RequestKnows, SeatSteps
<1>3. /\ Mark(a, "settled")
      /\ Continue(h, n) /\ handlers' = (handlers \ {h}) \cup {n}
      /\ UNCHANGED <<preferred, assigned, contractVars, home, protocolVars,
                     ghostVars>>
  BY DEF HookSettle, Continue
<1>4. /\ status' = [status EXCEPT ![a] = "settled"] /\ Exists(a)
      /\ status' \in [Apps -> AppStatus \cup {"none", "deleted"}]
      /\ trail' \in [Apps -> Trail]
      /\ Reached' /\ OneActive' /\ HistoryLinked' /\ SeatBeforeSettlement'
      /\ \A g \in handlers :
           g.step \in AppLockSteps \cup {"create.insert"} => g.app # a
  <2>1. "settled" \in {"settled", "rejected"}
    OBVIOUS
  <2> QED
    BY <1>1, <1>2, <1>3, <2>1, Marked
<1>5. TypeOK'
  BY <1>1, <1>3, <1>4 DEF Inductive, TypeOK
<1>6. AppInv'
  <2>1. TypeOK /\ AppInv
    BY DEF Inductive
  <2>2. Agreed'
    BY <1>1, <1>3, <1>4, <2>1 DEF AppInv, TypeOK, Agreed, Exists, AppStatus
  <2>3. ContractMatchesApplication'
    BY <1>1, <1>2, <1>3, <1>4, <2>1
       DEF AppInv, TypeOK, ContractMatchesApplication, Agreed, OpenContract
  <2> QED
    BY <1>4, <2>2, <2>3 DEF AppInv
<1>7. ProtocolInv'
  BY <1>3, ProtocolFrame DEF Inductive
<1>8. RequestInv'
  <2>1. \A b \in Apps \ {a} :
          /\ status'[b] = status[b] /\ contract'[b] = contract[b]
          /\ assigned'[b] = assigned[b]
    BY <1>3, <1>4 DEF Inductive, TypeOK
  <2>2. Undisturbed(handlers)
    BY <1>1, <1>3, <1>4, <2>1, RowWritten
  <2>3. \A k \in {n} : RequestKnows(k)'
    BY <1>1, <1>3, NextKnowsStill
  <2>4. \A k \in {n} : \A g \in handlers \cup {n} : Rivals(k, g) => k = g
    BY <1>1, <1>3, NextKnowsStill
  <2>5. handlers' \subseteq handlers \cup {n} /\ handlers \in SUBSET handlers
        /\ {n} \in SUBSET Handler
    BY <1>1, <1>3
  <2> QED
    BY <2>2, <2>3, <2>4, <2>5, RequestsKept DEF Inductive
<1>9. SeatsPromised'
  <2>1. IsFiniteSet(handlers') /\ Cardinality(handlers') <= MaxHandlers
    BY <1>3, RequestCount DEF Inductive, SeatsPromised
  <2>2. n.step \notin ClaimSteps
    BY <1>1 DEF ClaimSteps
  <2> QED
    BY <1>3, <2>1, <2>2, NoNewClaim
<1> QED
  BY <1>5, <1>6, <1>7, <1>8, <1>9 DEF Inductive

\* The contract was locked since it was read as sent, so it still is.
LEMMA RespondAcceptSafe ==
  ASSUME Inductive, NEW h \in handlers, RespondAccept(h)
  PROVE  Inductive'
<1> USE DEF appVars, contractVars, protocolVars, ghostVars
<1> DEFINE a == h.app
<1>1. /\ a \in Apps /\ RequestKnows(h) /\ contract[a] = "sent"
      /\ (assigned[a] # NoRoom => a \in seated)
  BY DEF RespondAccept, Inductive, RequestInv, Informed, RequestKnows, AppSteps,
     Steps, ContractLockSteps, SeatSteps
<1>2. a \in granted /\ a \in Legacy
  BY <1>1 DEF Inductive, AppInv, Agreed, OpenContract
<1>3. /\ Mark(a, "settled")
      /\ contract' = [contract EXCEPT ![a] = "accepted"]
      /\ End(h) /\ handlers' = handlers \ {h} /\ h.step \in ContractLockSteps
      /\ UNCHANGED <<preferred, assigned, overdue, home, protocolVars, ghostVars>>
  BY DEF RespondAccept, End, ContractLockSteps
<1>4. /\ status' = [status EXCEPT ![a] = "settled"] /\ Exists(a)
      /\ status' \in [Apps -> AppStatus \cup {"none", "deleted"}]
      /\ trail' \in [Apps -> Trail]
      /\ Reached' /\ OneActive' /\ HistoryLinked' /\ SeatBeforeSettlement'
      /\ \A g \in handlers :
           g.step \in AppLockSteps \cup {"create.insert"} => g.app # a
  <2>1. "settled" \in {"settled", "rejected"}
    OBVIOUS
  <2> QED
    BY <1>1, <1>2, <1>3, <2>1, Marked
<1>5. TypeOK'
  BY <1>1, <1>3, <1>4 DEF Inductive, TypeOK, ContractStatus
<1>6. AppInv'
  <2>1. TypeOK /\ AppInv
    BY DEF Inductive
  <2>2. Agreed'
    BY <1>1, <1>2, <1>3, <1>4, <2>1
       DEF AppInv, TypeOK, Agreed, Exists, AppStatus, OpenContract
  <2>3. ContractMatchesApplication'
    BY <1>1, <1>2, <1>3, <1>4, <2>1
       DEF AppInv, TypeOK, ContractMatchesApplication, OpenContract
  <2> QED
    BY <1>4, <2>2, <2>3 DEF AppInv
<1>7. ProtocolInv'
  BY <1>3, ProtocolFrame DEF Inductive
<1>8. RequestInv'
  <2> DEFINE rest == handlers \ {h}
  <2>1. \A b \in Apps \ {a} :
          /\ status'[b] = status[b] /\ contract'[b] = contract[b]
          /\ assigned'[b] = assigned[b]
    BY <1>3, <1>4 DEF Inductive, TypeOK
  <2>2. \A g \in rest : g.step \in ContractLockSteps => g.app # a
    BY <1>3 DEF Inductive, RequestInv, Serialized, Exclusive
  <2>3. Undisturbed(rest)
    <3>1. rest \in SUBSET handlers /\ assigned'[a] \in {assigned[a], NoRoom}
      BY <1>3
    <3> QED
      BY <1>1, <1>3, <1>4, <2>1, <2>2, <3>1, RowWritten
  <2>4. handlers' \subseteq rest \cup {} /\ rest \in SUBSET handlers
        /\ {} \in SUBSET Handler
    BY <1>3
  <2> QED
    BY <2>3, <2>4, RequestsKept DEF Inductive
<1>9. SeatsPromised'
  <2>1. IsFiniteSet(handlers') /\ Cardinality(handlers') <= MaxHandlers
    BY <1>3, RequestCount DEF Inductive, SeatsPromised
  <2> QED
    BY <1>3, <2>1, NoNewClaim
<1> QED
  BY <1>5, <1>6, <1>7, <1>8, <1>9 DEF Inductive

\* A refused or voided contract was open, and nobody else had it locked.
LEMMA RefuseAndFreeSafe ==
  ASSUME Inductive, NEW a \in Apps, NEW final \in {"declined", "expired"},
         contract[a] \in OpenContract, ~ContractLocked(a),
         RefuseAndFree(a, final)
  PROVE  Inductive'
<1> USE DEF appVars, contractVars, protocolVars, ghostVars
<1>1. a \in granted /\ a \in Legacy /\ Owner[a] \in Students
  BY OwnerAssumption DEF Inductive, AppInv, Agreed
<1>2. /\ Mark(a, "rejected")
      /\ contract' = [contract EXCEPT ![a] = final]
      /\ home' = [home EXCEPT ![Owner[a]] = NoRoom]
      /\ UNCHANGED <<preferred, assigned, overdue, protocolVars, handlers,
                     ghostVars>>
  BY DEF RefuseAndFree
<1>3. /\ status' = [status EXCEPT ![a] = "rejected"] /\ Exists(a)
      /\ status' \in [Apps -> AppStatus \cup {"none", "deleted"}]
      /\ trail' \in [Apps -> Trail]
      /\ Reached' /\ OneActive' /\ HistoryLinked' /\ SeatBeforeSettlement'
      /\ \A g \in handlers :
           g.step \in AppLockSteps \cup {"create.insert"} => g.app # a
  <2>1. "rejected" \in {"settled", "rejected"}
    OBVIOUS
  <2> QED
    BY <1>1, <1>2, <2>1, Marked
<1>4. TypeOK'
  BY <1>1, <1>2, <1>3 DEF Inductive, TypeOK, ContractStatus, RoomOrNone
<1>5. AppInv'
  <2>1. TypeOK /\ AppInv
    BY DEF Inductive
  <2>2. Agreed'
    BY <1>1, <1>2, <1>3, <2>1
       DEF AppInv, TypeOK, Agreed, Exists, AppStatus, OpenContract
  <2>3. ContractMatchesApplication'
    BY <1>1, <1>2, <1>3, <2>1
       DEF AppInv, TypeOK, ContractMatchesApplication, OpenContract
  <2> QED
    BY <1>3, <2>2, <2>3 DEF AppInv
<1>6. ProtocolInv'
  BY <1>2, ProtocolFrame DEF Inductive
<1>7. RequestInv'
  <2>1. \A b \in Apps \ {a} :
          /\ status'[b] = status[b] /\ contract'[b] = contract[b]
          /\ assigned'[b] = assigned[b]
    BY <1>2, <1>3 DEF Inductive, TypeOK
  <2>2. \A g \in handlers : g.step \in ContractLockSteps => g.app # a
    BY DEF ContractLocked
  <2>3. Undisturbed(handlers)
    BY <1>2, <1>3, <2>1, <2>2, RowWritten
  <2>4. handlers' \subseteq handlers \cup {} /\ handlers \in SUBSET handlers
        /\ {} \in SUBSET Handler
    BY <1>2
  <2> QED
    BY <2>3, <2>4, RequestsKept DEF Inductive
<1>8. SeatsPromised'
  <2>1. \A t \in Students : home'[t] \in {home[t], NoRoom}
    BY <1>2 DEF Inductive, TypeOK
  <2> QED
    BY <1>2, <2>1, NoNewClaim DEF Inductive, SeatsPromised
<1> QED
  BY <1>4, <1>5, <1>6, <1>7, <1>8 DEF Inductive

\* The clock, the flagging of an overdue contract and the extension: an open
\* contract stays open, and none that is locked is touched.
LEMMA DeadlineSafe ==
  ASSUME Inductive, NEW a \in Apps,
         DeadlinePasses(a) \/ FlagOverdue(a) \/ DecisionExtend(a)
  PROVE  Inductive'
<1> USE DEF appVars, contractVars, protocolVars, ghostVars
<1>1. PICK final \in OpenContract :
        /\ contract[a] \in OpenContract
        /\ contract' = [contract EXCEPT ![a] = final]
        /\ overdue' \subseteq overdue \cup {a}
        /\ final = contract[a] \/ ~ContractLocked(a)
        /\ UNCHANGED <<appVars, home, protocolVars, handlers, ghostVars>>
  <2>1. CASE DeadlinePasses(a)
    BY <2>1 DEF DeadlinePasses, OpenContract, Inductive, TypeOK
  <2>2. CASE FlagOverdue(a) \/ DecisionExtend(a)
    BY <2>2 DEF FlagOverdue, DecisionExtend, OpenContract
  <2> QED
    BY <2>1, <2>2
<1>2. TypeOK'
  BY <1>1 DEF Inductive, TypeOK, ContractStatus, OpenContract
<1>3. AppInv'
  <2> USE <1>1 DEF Inductive, TypeOK, AppInv
  <2>1. Reached' /\ OneActive' /\ HistoryLinked' /\ SeatBeforeSettlement'
    BY DEF Reached, OneActive, HistoryLinked, Exists, SeatBeforeSettlement
  <2>2. Agreed'
    BY DEF Agreed, Exists, OpenContract
  <2>3. ContractMatchesApplication'
    BY DEF ContractMatchesApplication, OpenContract
  <2> QED
    BY <2>1, <2>2, <2>3
<1>4. ProtocolInv'
  BY <1>1, ProtocolFrame DEF Inductive
<1>5. RequestInv'
  <2>1. \/ contract'[a] = contract[a]
        \/ \A g \in handlers : g.step \in ContractLockSteps => g.app # a
    BY <1>1 DEF Inductive, TypeOK, ContractLocked
  <2>2. \A b \in Apps \ {a} :
          /\ status'[b] = status[b] /\ contract'[b] = contract[b]
          /\ assigned'[b] = assigned[b]
    BY <1>1 DEF Inductive, TypeOK
  <2>3. Undisturbed(handlers)
    BY <1>1, <2>1, <2>2, RowWritten
  <2>4. handlers' \subseteq handlers \cup {} /\ handlers \in SUBSET handlers
        /\ {} \in SUBSET Handler
    BY <1>1
  <2> QED
    BY <2>3, <2>4, RequestsKept DEF Inductive
<1>6. SeatsPromised'
  BY <1>1, NoNewClaim DEF Inductive, SeatsPromised
<1> QED
  BY <1>2, <1>3, <1>4, <1>5, <1>6 DEF Inductive

-----------------------------------------------------------------------------
(* The invariant. *)

\* The initial database satisfies it.
LEMMA InductiveInit == Init => Inductive
<1> SUFFICES ASSUME Init PROVE Inductive
  OBVIOUS
<1>1. TypeOK
  BY TypeInit
<1>2. /\ status = [a \in Apps |-> IF a \in Legacy THEN "pending" ELSE "none"]
      /\ trail = [a \in Apps |-> IF a \in Legacy
                                   THEN [NewTrail EXCEPT !.first = "created"]
                                   ELSE NoTrail]
      /\ contract = [a \in Apps |-> "none"]
      /\ home = [s \in Students |-> NoRoom]
      /\ pstate = [p \in Protocols |-> "none"]
      /\ papps = [p \in Protocols |-> {}]
      /\ presidents = [p \in Protocols |-> {}]
      /\ handlers = {} /\ cleared = {} /\ granted = {} /\ referred = {}
  BY DEF Init
<1>3. AppInv
  <2>1. Reached /\ SeatBeforeSettlement
    BY <1>2 DEF Reached, SeatBeforeSettlement
  <2>2. OneActive
    BY <1>2, LegacyAssumption DEF OneActive, ActiveStatus
  <2>3. Agreed
    BY <1>2 DEF Agreed, Exists, AppStatus, OpenContract
  <2>4. HistoryLinked
    BY <1>2 DEF HistoryLinked, Exists, AppStatus, NewTrail, NoTrail
  <2>5. ContractMatchesApplication
    BY <1>2 DEF ContractMatchesApplication, OpenContract
  <2> QED
    BY <2>1, <2>2, <2>3, <2>4, <2>5 DEF AppInv
<1>4. ProtocolInv
  BY <1>2 DEF ProtocolInv, Listed, ApprovedMeansUnanimous, OneProtocolEach,
     NamedOnce, ReferralsFollowApproval
<1>5. RequestInv
  BY <1>2 DEF RequestInv, Informed, Serialized, Exclusive
<1>6. SeatsPromised
  <2>1. ASSUME NEW r \in Rooms
        PROVE  Occupants(r) = {} /\ Claims(r) = {}
    BY <1>2, NullAssumption DEF Occupants, Claims
  <2>2. IsFiniteSet(handlers) /\ Cardinality(handlers) = 0
    BY <1>2, FS_EmptySet
  <2>3. Cardinality({}) = 0
    BY FS_EmptySet
  <2>4. MaxHandlers \in Nat /\ MaxHandlers >= 1
    BY MaxHandlersAssumption
  <2>5. ASSUME NEW r \in Rooms
        PROVE  Cardinality(Occupants(r)) + Cardinality(Claims(r))
                 <= Capacity[r] + MaxHandlers - 1
    <3>1. Capacity[r] \in Nat
      BY CapacityAssumption
    <3>2. Cardinality(Occupants(r)) = 0 /\ Cardinality(Claims(r)) = 0
      BY <2>1, <2>3
    <3> QED
      BY <2>4, <3>1, <3>2
  <2> QED
    BY <2>2, <2>4, <2>5 DEF SeatsPromised
<1> QED
  BY <1>1, <1>3, <1>4, <1>5, <1>6 DEF Inductive

\* One lemma for each group of actions; Advance has one request go on.
LEMMA InductiveNext == Inductive /\ [Next]_vars => Inductive'
<1> SUFFICES ASSUME Inductive, [Next]_vars PROVE Inductive'
  OBVIOUS
<1>1. CASE ApplicationRequest
  BY <1>1, NullAssumption, ApplicationChecksSafe, DecideSafe
     DEF ApplicationRequest, RoomOrNone
<1>2. CASE RoomRequest
  BY <1>2, AddResidentCheckSafe, MoveOutSafe DEF RoomRequest
<1>3. CASE ProtocolRequest
  BY <1>3, CreateProtocolSafe, DeleteProtocolCheckSafe, VotePendingSafe,
     VoteApprovedSafe DEF ProtocolRequest
<1>4. CASE ContractRequest
  <2>1. PICK a \in Apps :
          \/ RespondAcceptCheck(a) \/ RespondDecline(a)
          \/ DeadlinePasses(a) \/ FlagOverdue(a)
          \/ DecisionVoid(a) \/ DecisionExtend(a)
    BY <1>4 DEF ContractRequest
  <2>2. CASE RespondDecline(a)
    BY <2>2, RefuseAndFreeSafe DEF RespondDecline, Answerable, OpenContract
  <2>3. CASE DecisionVoid(a)
    BY <2>3, RefuseAndFreeSafe DEF DecisionVoid, OpenContract
  <2> QED
    BY <2>1, <2>2, <2>3, RespondAcceptCheckSafe, DeadlineSafe
<1>5. CASE Advance
  <2>1. PICK h \in handlers :
          \/ CreateInsert(h) \/ CreateHistory(h) \/ CancelOwnDelete(h)
          \/ ResubmitSave(h) \/ DecideApproveSave(h)
          \/ AddResidentInsert(h) \/ DeleteProtocol(h)
          \/ \E a \in Apps :
               \/ HookSkip(h, a) \/ HookReadLegacy(h, a) \/ HookReadAgreed(h, a)
               \/ HookFail(h, a)
          \/ HookSend(h) \/ HookClaim(h) \/ HookSettle(h) \/ HookRefer(h)
          \/ RespondClaim(h) \/ RespondAccept(h)
          \/ Abort(h)
    BY <1>5 DEF Advance
  <2>2. CASE \/ CreateInsert(h) \/ CreateHistory(h) \/ CancelOwnDelete(h)
             \/ ResubmitSave(h) \/ DecideApproveSave(h)
    BY <2>2, CreateInsertSafe, CreateHistorySafe, CancelOwnDeleteSafe,
       ResubmitSaveSafe, DecideApproveSaveSafe
  <2>3. CASE AddResidentInsert(h) \/ DeleteProtocol(h) \/ Abort(h)
    BY <2>3, AddResidentInsertSafe, DeleteProtocolSafe, AbortSafe
  <2>4. CASE \E a \in Apps :
               \/ HookSkip(h, a) \/ HookReadLegacy(h, a) \/ HookReadAgreed(h, a)
               \/ HookFail(h, a)
    BY <2>4, HookSkipSafe, HookReadSafe, HookFailSafe
  <2>5. CASE \/ HookSend(h) \/ HookClaim(h) \/ HookSettle(h) \/ HookRefer(h)
    BY <2>5, HookSendSafe, HookClaimSafe, HookSettleSafe, HookReferSafe
  <2>6. CASE RespondClaim(h) \/ RespondAccept(h)
    BY <2>6, RespondClaimSafe, RespondAcceptSafe
  <2> QED
    BY <2>1, <2>2, <2>3, <2>4, <2>5, <2>6
<1>6. CASE UNCHANGED vars
  <2>1. /\ UNCHANGED <<appVars, contractVars, home, protocolVars, ghostVars>>
        /\ handlers' = handlers
    BY <1>6 DEF vars
  <2>2. IsFiniteSet(handlers') /\ Cardinality(handlers') <= MaxHandlers
    BY <2>1 DEF Inductive, SeatsPromised
  <2>3. /\ handlers \in SUBSET handlers /\ {} \in SUBSET Handler
        /\ handlers' \subseteq handlers \cup {}
    BY <2>1
  <2> QED
    BY <2>1, <2>2, <2>3, OnlyRequests
<1> QED
  BY <1>1, <1>2, <1>3, <1>4, <1>5, <1>6 DEF Next

-----------------------------------------------------------------------------
(* What holds of every reachable database. *)

\* The invariant is inductive, so every reachable state satisfies it,
\* whatever the services do in whatever order.
THEOREM Safe == Spec => []Inductive
<1>1. Init => Inductive
  BY InductiveInit
<1>2. Inductive /\ [Next]_vars => Inductive'
  BY InductiveNext
<1> QED
  BY <1>1, <1>2, PTL DEF Spec

\* Every column holds a value of its type and every request is one of the
\* records the services leave behind.
THEOREM TypeCorrect == Spec => []TypeOK
<1>1. Inductive => TypeOK
  BY DEF Inductive
<1> QED
  BY <1>1, Safe, PTL

\* application_status_history has no gap: no interleaving of decisions,
\* resubmissions and marks loses or misplaces an entry.
THEOREM HistoryHasNoGap == Spec => []HistoryLinked
<1>1. Inductive => HistoryLinked
  BY DEF Inductive, AppInv
<1> QED
  BY <1>1, Safe, PTL

\* The contract and the application never contradict each other, although no
\* transaction locks both for writing from the start.
THEOREM ContractAgrees == Spec => []ContractMatchesApplication
<1>1. Inductive => ContractMatchesApplication
  BY DEF Inductive, AppInv
<1> QED
  BY <1>1, Safe, PTL

\* An application with a room is not settled ahead of its seat.
THEOREM SeatComesFirst == Spec => []SeatBeforeSettlement
<1>1. Inductive => SeatBeforeSettlement
  BY DEF Inductive, AppInv
<1> QED
  BY <1>1, Safe, PTL

\* The unlocked capacity check overbooks a room by at most one seat less than
\* the requests that may be between check and insert at one time.
THEOREM OverbookingIsBounded == Spec => []OverbookingBounded
<1>1. Inductive => OverbookingBounded
  <2> SUFFICES ASSUME Inductive, NEW r \in Rooms
               PROVE  Cardinality(Occupants(r)) <= Capacity[r] + MaxHandlers - 1
    BY DEF OverbookingBounded
  <2>1. IsFiniteSet(Occupants(r)) /\ IsFiniteSet(Claims(r))
    BY StudentsAssumption, FS_Subset
       DEF Occupants, Claims, Inductive, SeatsPromised
  <2>2. Cardinality(Occupants(r)) \in Nat /\ Cardinality(Claims(r)) \in Nat
    BY <2>1, FS_CardinalityType
  <2>3. Capacity[r] \in Nat /\ MaxHandlers \in Nat
    BY CapacityAssumption, MaxHandlersAssumption
  <2> QED
    BY <2>2, <2>3 DEF Inductive, SeatsPromised
<1> QED
  BY <1>1, Safe, PTL

\* An approved protocol has the approval of every member who has a row.
THEOREM ApprovalIsUnanimous == Spec => []ApprovedMeansUnanimous
<1>1. Inductive => ApprovedMeansUnanimous
  BY DEF Inductive, ProtocolInv
<1> QED
  BY <1>1, Safe, PTL

\* No application and no resident is in two protocols.
THEOREM InOneProtocol == Spec => []OneProtocolEach
<1>1. Inductive => OneProtocolEach
  BY DEF Inductive, ProtocolInv
<1> QED
  BY <1>1, Safe, PTL

\* A protocol names a student once, by one route.
THEOREM NamedByOneRoute == Spec => []NamedOnce
<1>1. Inductive => NamedOnce
  BY DEF Inductive, ProtocolInv
<1> QED
  BY <1>1, Safe, PTL

\* A referral of a protocol that exists follows its approval.
THEOREM ReferralsAreEarned == Spec => []ReferralsFollowApproval
<1>1. Inductive => ReferralsFollowApproval
  BY DEF Inductive, ProtocolInv
<1> QED
  BY <1>1, Safe, PTL

------------------------------------------------------------------------------
\* Placement implements Admission: every step of the services is a step of the
\* promise or does not touch it.

phases == [a \in Apps |-> PhaseOf(a)]

\* The initial database has nothing but applications that were filed.
LEMMA PromiseInit == Init => Promise!Init
BY DEF Init, Promise!Init, PhaseOf

\* A phase only changes with what was cleared or granted, or when an
\* application becomes settled or deleted, or was.
LEMMA PhasesKept ==
  ASSUME UNCHANGED <<cleared, granted>>,
         \A a \in Apps :
           \/ status'[a] = status[a]
           \/ {status[a], status'[a]} \cap {"settled", "deleted"} = {}
  PROVE  UNCHANGED phases
BY DEF phases, PhaseOf

\* A step that changes the phase of one application only.
LEMMA OnePhase ==
  ASSUME NEW a \in Apps, \A b \in Apps \ {a} : PhaseOf(b)' = PhaseOf(b)
  PROVE  phases' = [phases EXCEPT ![a] = PhaseOf(a)']
BY DEF phases

\* A manager's approval clears a filed application.
LEMMA ApprovalClears ==
  ASSUME Inductive, NEW h \in handlers, DecideApproveSave(h)
  PROVE  \E a \in Apps : Promise!Clear(a)
<1>1. /\ h.app \in Apps /\ status[h.app] = "pending"
      /\ h.app \notin cleared /\ h.app \notin granted
  BY DEF DecideApproveSave, Inductive, AppInv, Reached, RequestInv, Informed,
     RequestKnows, AppSteps, Steps
<1>2. /\ status' = [status EXCEPT ![h.app] = "approved"]
      /\ cleared' = cleared \cup {h.app} /\ granted' = granted
      /\ status \in [Apps -> AppStatus \cup {"none", "deleted"}]
  BY DEF DecideApproveSave, Inductive, TypeOK
<1>3. PhaseOf(h.app) = "filed" /\ PhaseOf(h.app)' = "cleared"
  BY <1>1, <1>2 DEF PhaseOf
<1>4. \A b \in Apps \ {h.app} : PhaseOf(b)' = PhaseOf(b)
  BY <1>1, <1>2 DEF PhaseOf
<1>5. phases' = [phases EXCEPT ![h.app] = "cleared"]
  BY <1>1, <1>3, <1>4, OnePhase
<1> QED
  BY <1>1, <1>3, <1>5 DEF phases, Promise!Clear

\* The last vote grants what the protocol lists and was not granted before,
\* by a protocol that has been deleted since.
LEMMA VoteGrants ==
  ASSUME Inductive, NEW p \in Protocols, NEW m \in Members, VoteApproved(p, m)
  PROVE  \E as \in SUBSET Apps : Promise!Grant(as)
<1> DEFINE as == {a \in papps[p] : PhaseOf(a) = "cleared"}
<1>1. /\ papps[p] \subseteq Apps /\ papps[p] \subseteq cleared
      /\ granted' = granted \cup papps[p]
      /\ cleared' = cleared /\ status' = status
  BY DEF VoteApproved, Inductive, TypeOK, ProtocolInv, Listed, appVars
<1>2. as \in SUBSET Apps /\ \A a \in as : phases[a] = "cleared"
  BY <1>1 DEF phases
<1>3. ASSUME NEW a \in Apps
      PROVE  PhaseOf(a)' = IF a \in as THEN "granted" ELSE PhaseOf(a)
  BY <1>1 DEF PhaseOf
<1>4. phases' = [a \in Apps |-> IF a \in as THEN "granted" ELSE phases[a]]
  BY <1>3 DEF phases
<1> QED
  BY <1>2, <1>4 DEF phases, Promise!Grant

\* A mark settles a granted application, or one that is settled already.
LEMMA MarkSettles ==
  ASSUME Inductive, NEW a \in Apps, a \in granted, Mark(a, "settled"),
         UNCHANGED <<cleared, granted>>
  PROVE  Promise!Settle(a) \/ UNCHANGED phases
<1>1. /\ status' = [status EXCEPT ![a] = "settled"]
      /\ status \in [Apps -> AppStatus \cup {"none", "deleted"}]
      /\ status[a] \in AppStatus
  BY DEF Mark, Exists, Inductive, TypeOK
<1>2. /\ PhaseOf(a) \in {"granted", "settled"} /\ PhaseOf(a)' = "settled"
      /\ \A b \in Apps \ {a} : PhaseOf(b)' = PhaseOf(b)
  BY <1>1 DEF PhaseOf, AppStatus
<1>3. phases' = [phases EXCEPT ![a] = "settled"]
  BY <1>2, OnePhase
<1> QED
  BY <1>2, <1>3 DEF phases, Promise!Settle

\* Deleting the row withdraws the application.
LEMMA DeleteWithdraws ==
  ASSUME Inductive, NEW h \in handlers, CancelOwnDelete(h)
  PROVE  \E a \in Apps : Promise!Withdraw(a)
<1>1. /\ h.app \in Apps
      /\ status' = [status EXCEPT ![h.app] = "deleted"]
      /\ status \in [Apps -> AppStatus \cup {"none", "deleted"}]
      /\ UNCHANGED <<cleared, granted>>
  BY DEF CancelOwnDelete, Inductive, TypeOK, RequestInv, Informed, RequestKnows,
     AppSteps, Steps, ghostVars
<1>2. PhaseOf(h.app)' = "withdrawn"
      /\ \A b \in Apps \ {h.app} : PhaseOf(b)' = PhaseOf(b)
  BY <1>1 DEF PhaseOf
<1>3. phases' = [phases EXCEPT ![h.app] = "withdrawn"]
  BY <1>1, <1>2, OnePhase
<1> QED
  BY <1>1, <1>3 DEF phases, Promise!Withdraw

\* A decision, a correction, a cancellation or a refusal moves an application
\* between statuses of the same phase.
LEMMA OneStatusStutters ==
  ASSUME Inductive, NEW a \in Apps, NEW final,
         status' = [status EXCEPT ![a] = final],
         {status[a], final} \cap {"settled", "deleted"} = {},
         UNCHANGED <<cleared, granted>>
  PROVE  UNCHANGED phases
<1>1. \A b \in Apps :
        \/ status'[b] = status[b]
        \/ {status[b], status'[b]} \cap {"settled", "deleted"} = {}
  BY DEF Inductive, TypeOK
<1> QED
  BY <1>1, PhasesKept

\* No request starts in a step that changes a phase, but for the last vote.
LEMMA RequestStutters ==
  ASSUME Inductive,
         \/ ApplicationRequest \/ RoomRequest \/ ContractRequest
  PROVE  UNCHANGED phases
<1> USE DEF appVars, ghostVars
<1>1. CASE ApplicationRequest
  <2>1. CASE /\ ~ \E a \in Apps :
                    DecideReject(a) \/ DecideCorrection(a) \/ CancelApproved(a)
    <3>1. UNCHANGED <<status, cleared, granted>>
      BY <1>1, <2>1 DEF ApplicationRequest, CreateCheck, ResubmitCheck,
         DecideApproveCheck, CancelOwnCheck
    <3> QED
      BY <3>1, PhasesKept
  <2>2. ASSUME NEW a \in Apps,
               DecideReject(a) \/ DecideCorrection(a) \/ CancelApproved(a)
        PROVE  UNCHANGED phases
    <3>1. PICK final \in {"rejected", "needs_correction"} :
            /\ status' = [status EXCEPT ![a] = final]
            /\ status[a] \in {"pending", "approved"}
            /\ UNCHANGED <<cleared, granted>>
      BY <2>2 DEF DecideReject, DecideCorrection, CancelApproved
    <3>2. {status[a], final} \cap {"settled", "deleted"} = {}
      BY <3>1
    <3> QED
      BY <3>1, <3>2, OneStatusStutters
  <2> QED
    BY <2>1, <2>2
<1>2. CASE RoomRequest
  <2>1. UNCHANGED <<status, cleared, granted>>
    BY <1>2 DEF RoomRequest, MoveOutResident, AddResidentCheck
  <2> QED
    BY <2>1, PhasesKept
<1>3. CASE ContractRequest
  <2>1. ASSUME NEW a \in Apps, RespondDecline(a) \/ DecisionVoid(a)
        PROVE  UNCHANGED phases
    <3>1. /\ status' = [status EXCEPT ![a] = "rejected"]
          /\ contract[a] \in OpenContract
          /\ UNCHANGED <<cleared, granted>>
      BY <2>1 DEF RespondDecline, Answerable, DecisionVoid, RefuseAndFree, Mark,
         OpenContract
    <3>2. status[a] \in {"approved", "rejected"}
      BY <3>1 DEF Inductive, AppInv, ContractMatchesApplication
    <3>3. {status[a], "rejected"} \cap {"settled", "deleted"} = {}
      BY <3>2
    <3> QED
      BY <3>1, <3>3, OneStatusStutters
  <2>2. CASE ~ \E a \in Apps : RespondDecline(a) \/ DecisionVoid(a)
    <3>1. UNCHANGED <<status, cleared, granted>>
      BY <1>3, <2>2 DEF ContractRequest, RespondAcceptCheck, DeadlinePasses,
         FlagOverdue, DecisionExtend
    <3> QED
      BY <3>1, PhasesKept
  <2> QED
    BY <2>1, <2>2
<1> QED
  BY <1>1, <1>2, <1>3

\* A request that goes on clears, settles or withdraws, or stutters.
LEMMA AdvanceKeepsPromise ==
  ASSUME Inductive, Advance
  PROVE  Promise!Next \/ UNCHANGED phases
<1> USE DEF appVars, ghostVars
<1>1. PICK h \in handlers :
        \/ CreateInsert(h) \/ CreateHistory(h) \/ CancelOwnDelete(h)
        \/ ResubmitSave(h) \/ DecideApproveSave(h)
        \/ AddResidentInsert(h) \/ DeleteProtocol(h)
        \/ \E a \in Apps :
             \/ HookSkip(h, a) \/ HookReadLegacy(h, a) \/ HookReadAgreed(h, a)
             \/ HookFail(h, a)
        \/ HookSend(h) \/ HookClaim(h) \/ HookSettle(h) \/ HookRefer(h)
        \/ RespondClaim(h) \/ RespondAccept(h)
        \/ Abort(h)
  BY DEF Advance
<1>2. CASE CancelOwnDelete(h) \/ DecideApproveSave(h)
  BY <1>2, DeleteWithdraws, ApprovalClears DEF Promise!Next
<1>3. CASE HookSettle(h) \/ RespondAccept(h)
  <2>1. /\ h.app \in Apps /\ Mark(h.app, "settled")
        /\ UNCHANGED <<cleared, granted>> /\ RequestKnows(h)
    BY <1>3 DEF HookSettle, RespondAccept, Inductive, RequestInv, Informed,
       RequestKnows, AppSteps, Steps
  <2>2. h.app \in granted
    BY <1>3, <2>1 DEF HookSettle, RespondAccept, RequestKnows, HookSteps,
       ContractLockSteps, Inductive, AppInv, Agreed, OpenContract
  <2> QED
    BY <2>1, <2>2, MarkSettles DEF Promise!Next
<1>4. CASE CreateInsert(h) \/ ResubmitSave(h)
  <2>1. /\ h.app \in Apps /\ status[h.app] \in {"none", "needs_correction"}
        /\ status' = [status EXCEPT ![h.app] = "pending"]
        /\ UNCHANGED <<cleared, granted>>
    BY <1>4 DEF CreateInsert, ResubmitSave, Inductive, RequestInv, Informed,
       RequestKnows, AppSteps, Steps
  <2>2. {status[h.app], "pending"} \cap {"settled", "deleted"} = {}
    BY <2>1
  <2> QED
    BY <2>1, <2>2, OneStatusStutters
<1>5. CASE \/ CreateHistory(h) \/ AddResidentInsert(h) \/ DeleteProtocol(h)
           \/ \E a \in Apps :
                \/ HookSkip(h, a) \/ HookReadLegacy(h, a) \/ HookReadAgreed(h, a)
                \/ HookFail(h, a)
           \/ HookSend(h) \/ HookClaim(h) \/ HookRefer(h)
           \/ RespondClaim(h) \/ Abort(h)
  <2>1. UNCHANGED <<status, cleared, granted>>
    BY <1>5 DEF CreateHistory, AddResidentInsert, DeleteProtocol, HookSkip,
       HookReadLegacy, HookReadAgreed, HookSend, HookClaim, HookFail, HookRefer,
       RespondClaim, Abort
  <2> QED
    BY <2>1, PhasesKept
<1> QED
  BY <1>1, <1>2, <1>3, <1>4, <1>5

LEMMA PromiseNext ==
  ASSUME Inductive, [Next]_vars
  PROVE  [Promise!Next]_phases
<1>1. CASE ApplicationRequest \/ RoomRequest \/ ContractRequest
  BY <1>1, RequestStutters
<1>2. CASE ProtocolRequest
  <2>1. ASSUME NEW p \in Protocols, NEW m \in Members, VoteApproved(p, m)
        PROVE  Promise!Next
    BY <2>1, VoteGrants DEF Promise!Next
  <2>2. CASE ~ \E p \in Protocols, m \in Members : VoteApproved(p, m)
    <3>1. UNCHANGED <<status, cleared, granted>>
      BY <1>2, <2>2 DEF ProtocolRequest, CreateProtocol, DeleteProtocolCheck,
         VotePending, appVars, ghostVars
    <3> QED
      BY <3>1, PhasesKept
  <2> QED
    BY <2>1, <2>2
<1>3. CASE Advance
  BY <1>3, AdvanceKeepsPromise
<1>4. CASE UNCHANGED vars
  BY <1>4, PhasesKept DEF vars, appVars, ghostVars
<1> QED
  BY <1>1, <1>2, <1>3, <1>4 DEF Next

\* Whatever the services do, an application is cleared, granted and settled in
\* this order, or withdrawn.
THEOREM PromiseKept == Spec => KeepsPromise
<1>1. Init => Promise!Init
  BY PromiseInit
<1>2. Inductive /\ [Next]_vars => [Promise!Next]_phases
  BY PromiseNext
<1>3. Spec => []Inductive
  BY Safe
<1> QED
  BY <1>1, <1>2, <1>3, PTL DEF Spec, KeepsPromise, Promise!Spec, phases
=============================================================================
