------------------------- MODULE PlacementLiveness -------------------------
(***************************************************************************)
(* What must eventually happen while the server process lives: a request   *)
(* that has started runs to its end, and the ticker of the overdue checker *)
(* keeps coming.  A crash would lose the hook, which nothing starts again, *)
(* so here a request stops only where the database or a check refuses it.  *)
(***************************************************************************)
EXTENDS PlacementInvariant

\* The next statement of a request fails, whatever row locks it waits for.
Refused(h) ==
  \/ h.step = "create.insert" /\ HasActiveApplication(h.student)
  \/ h.step = "create.history" /\ ~Exists(h.app)
  \/ h.step = "cancelOwn.delete" /\
       (~Exists(h.app) \/ contract[h.app] \notin {"none", "accepted"}
                       \/ InSomeProtocol(h.app))
  \/ h.step \in {"resident.insert", "respond.claim"} /\ home[h.student] # NoRoom
  \/ h.step = "protocol.delete" /\ pstate[h.protocol] = "deleted"

\* The seat of an application cannot be given to its owner now.
Unseatable(a) ==
  assigned[a] # NoRoom /\ ~ValidateAssignable(Owner[a], assigned[a])

\* The hook cannot go on with the application it is about to read, or works on.
HookRefused(h, a) ==
  \/ h.step = "hook.next" /\ a \in h.todo /\ a \notin Legacy
       /\ status[a] = "approved" /\ Unseatable(a)
  \/ h.step \in {"hook.send", "hook.settle"} /\ a = h.app /\ ~Exists(a)
  \/ h.step = "hook.claim" /\ a = h.app /\ home[h.student] # NoRoom

\* One step of the request h.
Run(h) ==
  \/ CreateInsert(h) \/ CreateHistory(h) \/ CancelOwnDelete(h)
  \/ ResubmitSave(h) \/ DecideApproveSave(h)
  \/ AddResidentInsert(h) \/ DeleteProtocol(h)
  \/ \E a \in Apps :
       \/ HookSkip(h, a) \/ HookReadLegacy(h, a) \/ HookReadAgreed(h, a)
       \/ HookRefused(h, a) /\ HookFail(h, a)
  \/ HookSend(h) \/ HookClaim(h) \/ HookSettle(h) \/ HookRefer(h)
  \/ RespondClaim(h) \/ RespondAccept(h)
  \/ Refused(h) /\ Abort(h)

HookRuns(p) ==
  \E h \in handlers : h.step \in HookSteps /\ h.protocol = p /\ Run(h)
AnswerRuns(a) ==
  \E h \in handlers : h.step \in ContractLockSteps /\ h.app = a /\ Run(h)

SteadyNext ==
  \/ ApplicationRequest \/ RoomRequest \/ ProtocolRequest \/ ContractRequest
  \/ \E h \in handlers : Run(h)

SteadySpec ==
  /\ Init /\ [][SteadyNext]_vars
  /\ \A p \in Protocols : WF_vars(HookRuns(p))
  /\ \A a \in Apps : WF_vars(AnswerRuns(a)) /\ WF_vars(FlagOverdue(a))

\* Every application the hook has before it is served, also behind one that it
\* could not place: it is settled, or gets the contract to answer, or was
\* cancelled; only an application whose room had no seat for its owner in the
\* meantime may be left approved (the loop of OnProtocolApproved logs and
\* continues).
InHook(a) ==
  \E h \in handlers : h.step \in HookSteps /\ (a \in h.todo \/ a = h.app)
Served(a) ==
  status[a] # "approved" \/ (a \in Legacy /\ contract[a] # "none")
HookServesAll ==
  \A a \in Apps : InHook(a) ~> Served(a) \/ (Unseatable(a) /\ a \notin seated)

\* A contract past its deadline does not stay open: the checker brings it to
\* the manager, also when an answer was under way at the deadline or the
\* application was cancelled (FlagOverdueContracts).
OverdueReachesManager ==
  \A a \in Apps : contract[a] = "sent" /\ a \in overdue ~> contract[a] # "sent"
=============================================================================
