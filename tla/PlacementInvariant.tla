------------------------- MODULE PlacementInvariant -------------------------
(***************************************************************************)
(* Why Placement is safe: an inductive invariant.  It says what a request  *)
(* still knows about rows that it read before other requests had a chance  *)
(* to write them.                                                          *)
(***************************************************************************)
EXTENDS Placement

\* Once a manager has approved an application it never waits for a decision
\* or a correction again, and what came after had the approval first.
Reached ==
  \A a \in Apps :
    /\ status[a] = "approved" => a \in cleared
    /\ status[a] = "settled" => a \in granted
    /\ a \in granted => a \in cleared
    /\ a \in cleared =>
         status[a] \in {"approved", "rejected", "settled", "deleted"}

\* The rows of a protocol.
Listed ==
  \A p \in Protocols :
    /\ papps[p] \subseteq cleared
    /\ pstate[p] = "approved" => papps[p] \subseteq granted

\* uniq_applications_active_student.
OneActive ==
  \A a, b \in Apps :
    /\ Owner[a] = Owner[b]
    /\ status[a] \in ActiveStatus /\ status[b] \in ActiveStatus
    => a = b

\* The wizard's contract is accepted and stays so; a contract that was ever
\* sent is one of a legacy application before the committee's decision.
Agreed ==
  \A a \in Apps :
    /\ Exists(a) /\ a \notin Legacy => contract[a] = "accepted"
    /\ ~Exists(a) => contract[a] = "none"
    /\ contract[a] \in OpenContract \cup {"declined", "expired"} =>
         a \in Legacy /\ a \in granted

HookSteps == {"hook.next", "hook.send", "hook.claim", "hook.settle"}
SeatSteps == {"hook.claim", "hook.settle", "respond.claim", "respond.accept"}
AppSteps == Steps \ {"resident.insert", "protocol.delete", "hook.next"}

\* What a request may rely on between two statements.
RequestKnows(h) ==
  /\ h.step \in AppSteps => h.app \in Apps /\ h.student = Owner[h.app]
  /\ h.step = "create.insert" =>
       status[h.app] = "none" /\ h.app \notin Legacy
  /\ h.step = "decide.approve" => status[h.app] = "pending"
  /\ h.step = "resubmit.save" => status[h.app] = "needs_correction"
  /\ h.step \in HookSteps =>
       /\ h.protocol \in Protocols
       /\ pstate[h.protocol] \in {"approved", "deleted"}
       /\ h.todo \subseteq granted
  /\ h.step \in HookSteps \ {"hook.next"} => h.app \in granted
  /\ h.step = "hook.send" => h.app \in Legacy
  /\ h.step \in {"hook.claim", "hook.settle"} => h.app \notin Legacy
  /\ h.step \in ContractLockSteps => contract[h.app] = "sent"
  /\ h.step \in ClaimSteps =>
       h.student \in Students /\ h.room \in Rooms
  /\ h.step \in SeatSteps => assigned[h.app] \in {h.room, NoRoom}
  /\ h.step \in {"hook.settle", "respond.accept"} =>
       h.room = NoRoom \/ h.app \in seated

Informed == \A h \in handlers : RequestKnows(h)

\* One open transaction per row lock, one INSERT per identifier.
Exclusive(steps) ==
  \A g, h \in handlers :
    g.step \in steps /\ h.step \in steps /\ g.app = h.app => g = h
Serialized ==
  /\ Exclusive(AppLockSteps)
  /\ Exclusive(ContractLockSteps)
  /\ Exclusive({"create.insert"})

\* A seat that was promised by a check is counted with the seats taken.
SeatsPromised ==
  /\ IsFiniteSet(handlers) /\ Cardinality(handlers) <= MaxHandlers
  /\ \A r \in Rooms :
       Cardinality(Occupants(r)) + Cardinality(Claims(r))
         <= Capacity[r] + MaxHandlers - 1

\* What is true of applications and contracts, of protocols, of requests.
AppInv ==
  /\ Reached /\ OneActive /\ Agreed
  /\ HistoryLinked
  /\ ContractMatchesApplication
  /\ SeatBeforeSettlement

ProtocolInv ==
  /\ Listed
  /\ ApprovedMeansUnanimous
  /\ OneProtocolEach
  /\ NamedOnce
  /\ ReferralsFollowApproval

RequestInv == Informed /\ Serialized

\* Every step preserves all of them together.
Inductive == TypeOK /\ AppInv /\ ProtocolInv /\ RequestInv /\ SeatsPromised
=============================================================================
