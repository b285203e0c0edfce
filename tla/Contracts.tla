----------------------------- MODULE Contracts -----------------------------
(***************************************************************************)
(* ContractService: the hook that runs when a protocol is approved, the    *)
(* student's answer to a contract, and what happens past its deadline.     *)
(***************************************************************************)
EXTENDS Registry

\* Mutant: the history takes the status the caller expects the row to have.
MarkMutant(a, final) ==
  /\ Exists(a) /\ ~AppLocked(a)
  /\ status' = [status EXCEPT ![a] = final]
  /\ trail' = [trail EXCEPT ![a] = AddHistory(@, "approved", final)]

\* MarkApplicationSettled and MarkApplicationRejected lock the row, take any
\* status it has and write that status into the history.
Mark(a, final) ==
  /\ Exists(a) /\ ~AppLocked(a)
  /\ status' = [status EXCEPT ![a] = final]
  /\ trail' = [trail EXCEPT ![a] = AddHistory(@, status[a], final)]

\* The INSERT of AddResident, after its checks (see Rooms).
ClaimSeat(h) ==
  /\ home[h.student] = NoRoom
  /\ home' = [home EXCEPT ![h.student] = h.room]
  /\ seated' = seated \cup {h.app}

-----------------------------------------------------------------------------
(* OnProtocolApproved and, once every application is done, the referrals.  *)

HookHandler(step, h, a, r) ==
  [step |-> step, app |-> a, student |-> Owner[a], room |-> r,
   protocol |-> h.protocol, todo |-> h.todo \ {a}]
NextApplication(h) == ProtocolHandler("hook.next", h.protocol, h.todo)

\* The application is read; one that is no longer approved is skipped.
HookSkip(h, a) ==
  /\ h.step = "hook.next" /\ a \in h.todo
  /\ status[a] # "approved"
  /\ Continue(h, ProtocolHandler("hook.next", h.protocol, h.todo \ {a}))
  /\ UNCHANGED <<appVars, contractVars, home, protocolVars, ghostVars>>

HookReadLegacy(h, a) ==
  /\ h.step = "hook.next" /\ a \in h.todo
  /\ status[a] = "approved" /\ a \in Legacy
  /\ Continue(h, HookHandler("hook.send", h, a, assigned[a]))
  /\ UNCHANGED <<appVars, contractVars, home, protocolVars, ghostVars>>

\* settleAgreedApplication: with a room, the seat is checked and then claimed.
HookReadAgreed(h, a) ==
  /\ h.step = "hook.next" /\ a \in h.todo
  /\ status[a] = "approved" /\ a \notin Legacy /\ contract[a] # "none"
  /\ IF assigned[a] = NoRoom
       THEN Continue(h, HookHandler("hook.settle", h, a, NoRoom))
       ELSE /\ ValidateAssignable(Owner[a], assigned[a])
            /\ Continue(h, HookHandler("hook.claim", h, a, assigned[a]))
  /\ UNCHANGED <<appVars, contractVars, home, protocolVars, ghostVars>>

\* CreateIfNotExists: ON CONFLICT (application_id) DO NOTHING.
HookSend(h) ==
  /\ h.step = "hook.send"
  /\ Exists(h.app) /\ ~AppLocked(h.app)
  /\ contract' = [contract EXCEPT ![h.app] = IF @ = "none" THEN "sent" ELSE @]
  /\ Continue(h, NextApplication(h))
  /\ UNCHANGED <<appVars, overdue, home, protocolVars, ghostVars>>

\* Mutant: a seat that could not be inserted does not stop the settlement.
HookClaimMutant(h) ==
  /\ h.step = "hook.claim"
  /\ \/ ClaimSeat(h)
     \/ home[h.student] # NoRoom /\ UNCHANGED <<home, seated>>
  /\ Continue(h, [h EXCEPT !.step = "hook.settle"])
  /\ UNCHANGED <<appVars, contractVars, protocolVars, cleared, granted>>

HookClaim(h) ==
  /\ h.step = "hook.claim"
  /\ ClaimSeat(h)
  /\ Continue(h, [h EXCEPT !.step = "hook.settle"])
  /\ UNCHANGED <<appVars, contractVars, protocolVars, cleared, granted>>

\* Under the row lock of the contract.
HookSettle(h) ==
  /\ h.step = "hook.settle"
  /\ contract[h.app] # "none" /\ ~ContractLocked(h.app)
  /\ Mark(h.app, "settled")
  /\ Continue(h, NextApplication(h))
  /\ UNCHANGED <<preferred, assigned, contractVars, home, protocolVars,
                 ghostVars>>

\* Mutant: the loop is left with the first failure.
HookFailMutant(h, a) ==
  /\ \/ h.step = "hook.next" /\ a \in h.todo
     \/ h.step \in {"hook.send", "hook.claim", "hook.settle"} /\ a = h.app
  /\ Continue(h, ProtocolHandler("hook.next", h.protocol, {}))
  /\ UNCHANGED <<appVars, contractVars, home, protocolVars, ghostVars>>

\* Any of these may fail: the failure is logged, the staff is told, and the
\* hook goes on with the next application.
HookFail(h, a) ==
  /\ \/ h.step = "hook.next" /\ a \in h.todo
     \/ h.step \in {"hook.send", "hook.claim", "hook.settle"} /\ a = h.app
  /\ Continue(h, ProtocolHandler("hook.next", h.protocol, h.todo \ {a}))
  /\ UNCHANGED <<appVars, contractVars, home, protocolVars, ghostVars>>

\* ReferralService.OnProtocolApproved runs after all of them: one statement
\* over the rows the protocol has by then, ON CONFLICT DO NOTHING.
HookRefer(h) ==
  /\ h.step = "hook.next" /\ h.todo = {}
  /\ LET p == h.protocol
         placed == {a \in papps[p] : status[a] \in {"approved", "settled"}}
     IN referred' = referred \cup
          ({p} \X ({Owner[a] : a \in placed} \cup presidents[p]))
  /\ End(h)
  /\ UNCHANGED <<appVars, contractVars, home, pstate, papps, presidents,
                 votes, ghostVars>>

-----------------------------------------------------------------------------
(* Respond: the contract row is locked, the application is not.            *)

Answerable(a) ==
  /\ contract[a] = "sent" /\ a \notin overdue
  /\ ~ContractLocked(a)

RespondAcceptCheck(a) ==
  /\ Answerable(a)
  /\ IF assigned[a] = NoRoom
       THEN Begin(AppHandler("respond.accept", a, NoRoom))
       ELSE /\ ValidateAssignable(Owner[a], assigned[a])
            /\ Begin(AppHandler("respond.claim", a, assigned[a]))
  /\ UNCHANGED <<appVars, contractVars, home, protocolVars, ghostVars>>

\* The seat is committed on its own connection, ahead of the answer.
RespondClaim(h) ==
  /\ h.step = "respond.claim"
  /\ ClaimSeat(h)
  /\ Continue(h, AppHandler("respond.accept", h.app, h.room))
  /\ UNCHANGED <<appVars, contractVars, protocolVars, cleared, granted>>

\* Mutant: the application is settled, the answer is not saved.
RespondAcceptMutant(h) ==
  /\ h.step = "respond.accept"
  /\ Mark(h.app, "settled")
  /\ End(h)
  /\ UNCHANGED <<preferred, assigned, contractVars, home, protocolVars,
                 ghostVars>>

RespondAccept(h) ==
  /\ h.step = "respond.accept"
  /\ contract' = [contract EXCEPT ![h.app] = "accepted"]
  /\ Mark(h.app, "settled")
  /\ End(h)
  /\ UNCHANGED <<preferred, assigned, overdue, home, protocolVars, ghostVars>>

\* The application is refused and whatever room the student lives in is freed.
RefuseAndFree(a, final) ==
  /\ contract' = [contract EXCEPT ![a] = final]
  /\ Mark(a, "rejected")
  /\ home' = [home EXCEPT ![Owner[a]] = NoRoom]
  /\ UNCHANGED <<preferred, assigned, overdue, protocolVars, handlers,
                 ghostVars>>

RespondDecline(a) == Answerable(a) /\ RefuseAndFree(a, "declined")

-----------------------------------------------------------------------------
\* The clock passes the response_deadline of a contract that was sent.
DeadlinePasses(a) ==
  /\ contract[a] = "sent" /\ a \notin overdue
  /\ overdue' = overdue \cup {a}
  /\ UNCHANGED <<appVars, contract, home, protocolVars, handlers, ghostVars>>

\* Mutant: contracts of cancelled applications are left alone.
FlagOverdueMutant(a) ==
  /\ contract[a] = "sent" /\ a \in overdue /\ ~ContractLocked(a)
  /\ status[a] = "approved"
  /\ contract' = [contract EXCEPT ![a] = "awaiting"]
  /\ UNCHANGED <<appVars, overdue, home, protocolVars, handlers, ghostVars>>

\* FlagOverdueContracts looks again under the contract's lock, so what its
\* list said before does not matter.
FlagOverdue(a) ==
  /\ contract[a] = "sent" /\ a \in overdue /\ ~ContractLocked(a)
  /\ contract' = [contract EXCEPT ![a] = "awaiting"]
  /\ UNCHANGED <<appVars, overdue, home, protocolVars, handlers, ghostVars>>

\* ManagerDecision.
DecisionVoid(a) ==
  /\ contract[a] = "awaiting" /\ ~ContractLocked(a)
  /\ RefuseAndFree(a, "expired")

DecisionExtend(a) ==
  /\ contract[a] = "awaiting" /\ ~ContractLocked(a)
  /\ contract' = [contract EXCEPT ![a] = "sent"]
  /\ overdue' = overdue \ {a}
  /\ UNCHANGED <<appVars, home, protocolVars, handlers, ghostVars>>
=============================================================================
