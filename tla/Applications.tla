---------------------------- MODULE Applications ----------------------------
(***************************************************************************)
(* ApplicationService: a student submits, withdraws and corrects an        *)
(* application, a manager decides it, an admin cancels an approved one.    *)
(***************************************************************************)
EXTENDS Registry

\* Create: every check is made on what the database holds now, and none of
\* it is locked until the INSERT.
CreateCheck(a, r) ==
  /\ status[a] = "none" /\ a \notin Legacy
  /\ \A h \in handlers : h.app # a
  /\ ~HasActiveApplication(Owner[a])
  /\ home[Owner[a]] = NoRoom
  /\ r # NoRoom => <<Owner[a], r>> \in Suits /\ Holdable(r, {})
  /\ Begin(AppHandler("create.insert", a, r))
  /\ UNCHANGED <<appVars, contractVars, home, protocolVars, ghostVars>>

\* One statement inserts the application and the contract the student agreed
\* to; uniq_applications_active_student refuses a second active application.
CreateInsert(h) ==
  /\ h.step = "create.insert"
  /\ ~HasActiveApplication(h.student)
  /\ status' = [status EXCEPT ![h.app] = "pending"]
  /\ preferred' = [preferred EXCEPT ![h.app] = h.room]
  /\ trail' = [trail EXCEPT ![h.app] = NewTrail]
  /\ contract' = [contract EXCEPT ![h.app] = "accepted"]
  /\ Continue(h, AppHandler("create.history", h.app, NoRoom))
  /\ UNCHANGED <<assigned, overdue, home, protocolVars, ghostVars>>

\* The entry is a statement of its own: a decision may have been faster.
CreateHistory(h) ==
  /\ h.step = "create.history"
  /\ Exists(h.app) /\ ~AppLocked(h.app)
  /\ trail' = [trail EXCEPT ![h.app] = AddCreation(@)]
  /\ End(h)
  /\ UNCHANGED <<status, preferred, assigned, contractVars, home,
                 protocolVars, ghostVars>>

-----------------------------------------------------------------------------
\* CancelOwn reads the status without a lock ...
CancelOwnCheck(a) ==
  /\ status[a] \in {"pending", "rejected"}
  /\ Begin(AppHandler("cancelOwn.delete", a, NoRoom))
  /\ UNCHANGED <<appVars, contractVars, home, protocolVars, ghostVars>>

\* ... and deletes the row whatever its status has become: the statement takes
\* an accepted contract along, any other contract and any protocol that lists
\* the application block it (foreign keys without ON DELETE).
CancelOwnDelete(h) ==
  /\ h.step = "cancelOwn.delete"
  /\ Exists(h.app) /\ ~AppLocked(h.app)
  /\ contract[h.app] \in {"none", "accepted"}
  /\ ~InSomeProtocol(h.app)
  /\ status' = [status EXCEPT ![h.app] = "deleted"]
  /\ preferred' = [preferred EXCEPT ![h.app] = NoRoom]
  /\ assigned' = [assigned EXCEPT ![h.app] = NoRoom]
  /\ trail' = [trail EXCEPT ![h.app] = NoTrail]
  /\ contract' = [contract EXCEPT ![h.app] = "none"]
  /\ End(h)
  /\ UNCHANGED <<overdue, home, protocolVars, ghostVars>>

-----------------------------------------------------------------------------
\* Resubmit locks the row; the room is checked through the pool, so seats
\* and other holds can move before the row is saved.
ResubmitCheck(a, r) ==
  /\ status[a] = "needs_correction" /\ ~AppLocked(a)
  /\ r # NoRoom => <<Owner[a], r>> \in Suits /\ Holdable(r, {a})
  /\ Begin(AppHandler("resubmit.save", a, r))
  /\ UNCHANGED <<appVars, contractVars, home, protocolVars, ghostVars>>

ResubmitSave(h) ==
  /\ h.step = "resubmit.save"
  /\ status' = [status EXCEPT ![h.app] = "pending"]
  /\ preferred' = [preferred EXCEPT ![h.app] =
                     IF h.room # NoRoom THEN h.room ELSE @]
  /\ trail' = [trail EXCEPT ![h.app] =
                 AddHistory(@, "needs_correction", "pending")]
  /\ End(h)
  /\ UNCHANGED <<assigned, contractVars, home, protocolVars, ghostVars>>

-----------------------------------------------------------------------------
\* The two entries a decision writes: manager_review is only ever a history
\* entry, never the status that is saved.
Reviewed(entries, final) ==
  AddHistory(AddHistory(entries, "pending", "manager_review"),
             "manager_review", final)

\* Decide(approve) with a room, the manager's or else the student's own
\* preference: checked through the pool while the application row is locked.
DecideApproveCheck(a, chosen) ==
  LET r == IF chosen # NoRoom THEN chosen ELSE preferred[a] IN
  /\ status[a] = "pending" /\ ~AppLocked(a)
  /\ r # NoRoom => ValidateAssignable(Owner[a], r) /\ Holdable(r, {a})
  /\ Begin(AppHandler("decide.approve", a, r))
  /\ UNCHANGED <<appVars, contractVars, home, protocolVars, ghostVars>>

DecideApproveSave(h) ==
  /\ h.step = "decide.approve"
  /\ status' = [status EXCEPT ![h.app] = "approved"]
  /\ assigned' = [assigned EXCEPT ![h.app] = h.room]
  /\ trail' = [trail EXCEPT ![h.app] = Reviewed(@, "approved")]
  /\ cleared' = cleared \cup {h.app}
  /\ End(h)
  /\ UNCHANGED <<preferred, contractVars, home, protocolVars, granted, seated>>

\* Mutant: a rejection that does not wait for the row lock.
DecideRejectMutant(a) ==
  /\ status[a] = "pending"
  /\ status' = [status EXCEPT ![a] = "rejected"]
  /\ assigned' = [assigned EXCEPT ![a] = NoRoom]
  /\ trail' = [trail EXCEPT ![a] = Reviewed(@, "rejected")]
  /\ UNCHANGED <<preferred, contractVars, home, protocolVars, handlers,
                 ghostVars>>

DecideReject(a) ==
  /\ status[a] = "pending" /\ ~AppLocked(a)
  /\ status' = [status EXCEPT ![a] = "rejected"]
  /\ assigned' = [assigned EXCEPT ![a] = NoRoom]
  /\ trail' = [trail EXCEPT ![a] = Reviewed(@, "rejected")]
  /\ UNCHANGED <<preferred, contractVars, home, protocolVars, handlers,
                 ghostVars>>

\* Mutant: the intermediate status is saved, not only put into the history.
DecideCorrectionMutant(a) ==
  /\ status[a] = "pending" /\ ~AppLocked(a)
  /\ status' = [status EXCEPT ![a] = "manager_review"]
  /\ trail' = [trail EXCEPT ![a] = AddHistory(@, "pending", "manager_review")]
  /\ UNCHANGED <<preferred, assigned, contractVars, home, protocolVars,
                 handlers, ghostVars>>

\* The room is released: the student picks one again when resubmitting.
DecideCorrection(a) ==
  /\ status[a] = "pending" /\ ~AppLocked(a)
  /\ status' = [status EXCEPT ![a] = "needs_correction"]
  /\ assigned' = [assigned EXCEPT ![a] = NoRoom]
  /\ preferred' = [preferred EXCEPT ![a] = NoRoom]
  /\ trail' = [trail EXCEPT ![a] = Reviewed(@, "needs_correction")]
  /\ UNCHANGED <<contractVars, home, protocolVars, handlers, ghostVars>>

CancelApproved(a) ==
  /\ status[a] = "approved" /\ ~AppLocked(a)
  /\ status' = [status EXCEPT ![a] = "rejected"]
  /\ assigned' = [assigned EXCEPT ![a] = NoRoom]
  /\ trail' = [trail EXCEPT ![a] = AddHistory(@, "approved", "rejected")]
  /\ UNCHANGED <<preferred, contractVars, home, protocolVars, handlers,
                 ghostVars>>
=============================================================================
