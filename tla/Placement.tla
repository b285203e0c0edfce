----------------------------- MODULE Placement -----------------------------
(***************************************************************************)
(* The whole path from an application to a seat: ApplicationService,       *)
(* RoomService, ProtocolService, ContractService and ReferralService over  *)
(* one database, with any number of their requests between two statements. *)
(***************************************************************************)
EXTENDS Applications, Rooms, Protocols, Contracts

ApplicationRequest ==
  \/ \E a \in Apps, r \in RoomOrNone :
       CreateCheck(a, r) \/ ResubmitCheck(a, r) \/ DecideApproveCheck(a, r)
  \/ \E a \in Apps :
       \/ CancelOwnCheck(a)
       \/ DecideReject(a) \/ DecideCorrection(a) \/ CancelApproved(a)

RoomRequest ==
  \E s \in Students :
    MoveOutResident(s) \/ \E r \in Rooms : AddResidentCheck(s, r)

ProtocolRequest ==
  \E p \in Protocols :
    \/ \E as \in SUBSET Apps, ss \in SUBSET Students, roster \in SUBSET Members :
         CreateProtocol(p, as, ss, roster)
    \/ DeleteProtocolCheck(p)
    \/ \E m \in Members :
         \/ VoteApproved(p, m)
         \/ \E d \in {"approved", "rejected"} : VotePending(p, m, d)

ContractRequest ==
  \E a \in Apps :
    \/ RespondAcceptCheck(a) \/ RespondDecline(a)
    \/ DeadlinePasses(a) \/ FlagOverdue(a)
    \/ DecisionVoid(a) \/ DecisionExtend(a)

\* A request goes on with its next statement, or stops.
Advance ==
  \E h \in handlers :
    \/ CreateInsert(h) \/ CreateHistory(h) \/ CancelOwnDelete(h)
    \/ ResubmitSave(h) \/ DecideApproveSave(h)
    \/ AddResidentInsert(h) \/ DeleteProtocol(h)
    \/ \E a \in Apps :
         \/ HookSkip(h, a) \/ HookReadLegacy(h, a) \/ HookReadAgreed(h, a)
         \/ HookFail(h, a)
    \/ HookSend(h) \/ HookClaim(h) \/ HookSettle(h) \/ HookRefer(h)
    \/ RespondClaim(h) \/ RespondAccept(h)
    \/ Abort(h)

Next ==
  \/ ApplicationRequest \/ RoomRequest \/ ProtocolRequest \/ ContractRequest
  \/ Advance

Spec == Init /\ [][Next]_vars

-----------------------------------------------------------------------------
(* Safety. *)

\* The history of an application has no gap, whoever wrote its entries and in
\* whatever order their transactions committed: every change of status starts
\* from the one the change before it ended with, and the last one is the status
\* of the row (AddHistory beside SetDecision, MarkApplicationSettled and
\* MarkApplicationRejected).  With the entry of the submission the same holds
\* of the whole history, unless that entry, which Create inserts in a statement
\* of its own, was committed behind a decision.  The order is that of the
\* commits; ListHistory sorts by created_at, which is not modelled.
HistoryLinked ==
  \A a \in Apps : Exists(a) =>
    /\ trail[a].chained /\ trail[a].reached = status[a]
    /\ \/ trail[a].linked /\ trail[a].last = status[a]
       \/ trail[a].first = "overtaken"

\* The contract and the application agree, although Respond, ManagerDecision
\* and the hook lock the contract only and CancelApproved and CancelOwn the
\* application only: a settled application has an accepted contract, a refused
\* or voided contract leaves a rejected application, and a contract that is
\* still open belongs to an application the manager approved, or cancelled
\* since.
ContractMatchesApplication ==
  \A a \in Apps :
    /\ status[a] = "settled" => contract[a] = "accepted"
    /\ contract[a] \in {"declined", "expired"} => status[a] = "rejected"
    /\ contract[a] \in OpenContract => status[a] \in {"approved", "rejected"}

\* An application with a room is settled only after a seat was inserted for
\* it, also when the hook stopped half way or the answer to the contract came
\* twice (AddResident runs ahead of MarkApplicationSettled).
SeatBeforeSettlement ==
  \A a \in Apps : status[a] = "settled" /\ assigned[a] # NoRoom => a \in seated

\* ValidateAssignable and the INSERT it guards are two statements, so a room
\* may be overbooked, but never by more than the requests that were between
\* the two at one time, less the one that had a right to the seat.
ClaimSteps == {"resident.insert", "hook.claim", "respond.claim"}
Claims(r) == {h \in handlers : h.step \in ClaimSteps /\ h.room = r}
OverbookingBounded ==
  \A r \in Rooms :
    Cardinality(Occupants(r)) <= Capacity[r] + MaxHandlers - 1

\* A protocol is approved only while every member's row says so, and nobody
\* can take a vote back afterwards (Vote under the protocol's row lock).
ApprovedMeansUnanimous ==
  \A p \in Protocols : pstate[p] = "approved" => Unanimous(votes[p])

\* No application and no resident is put before the committee in two
\* protocols (lockAndValidateApprovedApplications, UNIQUE (student_id)).
OneProtocolEach ==
  \A p, q \in Protocols :
    p # q => papps[p] \cap papps[q] = {} /\ presidents[p] \cap presidents[q] = {}

\* A protocol names a student once: not as a resident and an applicant, and
\* not through two applications, since only one of them is ever active
\* (eligibleResidentCondition, uniq_applications_active_student).
NamedOnce ==
  \A p \in Protocols : \A a \in papps[p] :
    /\ Owner[a] \notin presidents[p]
    /\ \A b \in papps[p] : Owner[a] = Owner[b] => a = b

\* A referral still tied to its protocol says that the committee approved a
\* protocol that names the student, whatever happened to the application
\* while the hook was on its way (IssueForProtocol).
ReferralsFollowApproval ==
  \A p \in Protocols, s \in Students :
    <<p, s>> \in referred /\ pstate[p] # "deleted" =>
      /\ pstate[p] = "approved"
      /\ s \in presidents[p] \cup {Owner[a] : a \in papps[p]}

-----------------------------------------------------------------------------
(* Refinement: the placement keeps the promise of Admission. *)

PhaseOf(a) ==
  IF status[a] = "deleted" THEN "withdrawn"
  ELSE IF status[a] = "settled" THEN "settled"
  ELSE IF a \in granted THEN "granted"
  ELSE IF a \in cleared THEN "cleared"
  ELSE "filed"

Promise == INSTANCE Admission WITH phase <- [a \in Apps |-> PhaseOf(a)]

\* An application is settled only after a manager approved it and then a
\* protocol that lists it was approved by the whole committee; once settled it
\* stays settled until it is deleted.
KeepsPromise == Promise!Spec

-----------------------------------------------------------------------------
(* What documents and comments say of the program and the runs refute. *)

\* "the hook must never place such a student", one whose application was
\* cancelled after the protocol was created.
CancelledNeverPlaced ==
  [][\A a \in Apps : status[a] = "rejected" => status'[a] # "settled"]_vars

\* CancelOwn deletes an application "while it is still pending, or after it
\* has been rejected".
DeletedOnlyWhilePendingOrRejected ==
  [][\A a \in Apps :
       Exists(a) /\ status'[a] = "deleted" =>
         status[a] \in {"pending", "rejected"}]_vars

\* An approved protocol is a finalized decision that cannot be removed.
ApprovedProtocolStays ==
  [][\A p \in Protocols :
       pstate[p] = "approved" => pstate'[p] = "approved"]_vars

\* The first entry of a history is the one without a from_status.
HistoryBeginsWithCreation ==
  \A a \in Apps : trail[a].first \notin {"decision", "overtaken"}
=============================================================================
