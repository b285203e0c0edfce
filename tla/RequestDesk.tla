----------------------------- MODULE RequestDesk -----------------------------
(***************************************************************************)
(* What is waiting for the manager: TransferRequestListPage,               *)
(* ExitRequestListPage and ContractsAndPaymentsPage.                       *)
(***************************************************************************)
EXTENDS Screen

CONSTANTS Requests, Destinations

\* Lists that have been read are told from those that have not.
ASSUME RequestsAssumption == \A s \in SUBSET Requests : s # None
ASSUME DeskContractsAssumption == None \notin [Requests -> {"sent", "awaiting", "expired"}]

------------------------------------------------------------------------------
\* TransferRequestListPage and ExitRequestListPage, whose requests ask for no
\* dormitory and are approved without a form.

\* server.asked: the dormitory a request asks for; decided: what became of it;
\* the one room of a dormitory is told by the dormitory.
RequestsInit ==
  /\ page = [at |-> "requests", list |-> None, error |-> FALSE, actionError |-> FALSE,
             busy |-> None, reject |-> None, comment |-> FALSE, approve |-> None,
             house |-> None, room |-> None, offered |-> None]
  /\ \E a \in [Requests -> Destinations \cup {None}] :
       server = [asked |-> a, decided |-> [r \in Requests |-> "pending"]]
  /\ tasks = {Task("load", 1, None)} /\ stale = FALSE

Waiting(decided) == {r \in Requests : decided[r] = "pending"}
ListedRequest(r) == page.list # None /\ r \in page.list
\* The buttons of a request are shown while neither of its forms is open.
Plain(r) == ListedRequest(r) /\ page.reject # r /\ page.approve # r

RequestsLoadReturns(t) ==
  /\ t.fn = "load" /\ t.wire # "sent" /\ End(t)
  /\ page' = IF t.wire = "ok" THEN [page EXCEPT !.list = t.reply]
             ELSE [page EXCEPT !.error = TRUE]
  /\ UNCHANGED <<server, stale>>

\* The effect asks for rooms only when the dormitory is another one; opening a
\* form empties the list even when it is the same. No reply is given up.
AskRooms(d) ==
  IF d = None \/ d = page.house THEN UNCHANGED tasks ELSE Start(New("rooms", d))
OpenApprove(r) ==
  /\ Plain(r) /\ MayTap
  /\ page' = [page EXCEPT !.approve = r, !.house = server.asked[r], !.room = None,
                          !.offered = None]
  /\ AskRooms(server.asked[r])
  /\ UNCHANGED <<server, stale>>
ChooseTransferHouse(d) ==
  /\ ListedRequest(page.approve) /\ page.house # d /\ MayTap
  /\ page' = [page EXCEPT !.house = d, !.room = None,
                          !.offered = IF d = None THEN None ELSE @]
  /\ AskRooms(d)
  /\ UNCHANGED <<server, stale>>
ChooseTransferRoom ==
  /\ ListedRequest(page.approve) /\ page.house # None /\ page.offered # None
  /\ page.room # page.offered /\ page' = [page EXCEPT !.room = page.offered]
  /\ UNCHANGED <<tasks, server, stale>>
CloseApprove ==
  /\ ListedRequest(page.approve) /\ page' = [page EXCEPT !.approve = None]
  /\ UNCHANGED <<tasks, server, stale>>
RoomsForDormitory(t, ok) ==
  /\ Awaiting(t, {"rooms"}) /\ End(t)
  /\ page' = [page EXCEPT !.offered = IF ok THEN t.arg ELSE None]
  /\ UNCHANGED <<server, stale>>

OpenReject(r) ==
  /\ Plain(r) /\ page' = [page EXCEPT !.reject = r]
  /\ UNCHANGED <<tasks, server, stale>>
WriteRejectComment ==
  /\ ListedRequest(page.reject) /\ ~page.comment /\ page' = [page EXCEPT !.comment = TRUE]
  /\ UNCHANGED <<tasks, server, stale>>
CloseReject ==
  /\ ListedRequest(page.reject)
  /\ page' = [page EXCEPT !.reject = None, !.comment = FALSE]
  /\ UNCHANGED <<tasks, server, stale>>

HandleRequest(r, to, room) ==
  /\ ListedRequest(r) /\ page.busy # r /\ MayTap
  /\ page' = [page EXCEPT !.busy = r, !.actionError = FALSE]
  /\ Start(New("decide", [request |-> r, to |-> to, room |-> room]))
  /\ UNCHANGED <<server, stale>>
HandleApprove == page.room # None /\ HandleRequest(page.approve, "approved", page.room)
HandleReject == page.comment /\ HandleRequest(page.reject, "rejected", None)
\* ExitRequestListPage: the student moves out of where they are.
HandleExitApprove(r) ==
  server.asked[r] = None /\ page.reject # r /\ HandleRequest(r, "approved", None)

\* The list is taken off the page until it has been read again; the form that
\* is open then closes, of whichever request it is.
RequestDecided(t) ==
  /\ t.fn = "decide" /\ t.wire # "sent"
  /\ IF t.wire = "failed"
       THEN End(t) /\ page' = [page EXCEPT !.busy = None, !.actionError = TRUE]
       ELSE /\ GoOn(t, New("load", None))
            /\ page' = [page EXCEPT !.busy = None, !.list = None,
                 !.approve = IF t.arg.to = "approved" THEN None ELSE @,
                 !.reject = IF t.arg.to = "rejected" THEN None ELSE @,
                 !.comment = @ /\ t.arg.to # "rejected"]
  /\ UNCHANGED <<server, stale>>

ServeRequests(t) ==
  \/ Awaiting(t, {"load"}) /\ Serve(t, TRUE, server, Waiting(server.decided))
  \/ /\ Awaiting(t, {"decide"})
     /\ Serve(t, server.decided[t.arg.request] = "pending",
              [server EXCEPT !.decided[t.arg.request] = t.arg.to], None)

RequestsNext ==
  \/ \E r \in Requests : OpenApprove(r) \/ OpenReject(r) \/ HandleExitApprove(r)
  \/ \E d \in Destinations \cup {None} : ChooseTransferHouse(d)
  \/ ChooseTransferRoom \/ CloseApprove \/ WriteRejectComment \/ CloseReject
  \/ HandleApprove \/ HandleReject
  \/ \E t \in tasks : \/ ServeRequests(t) \/ RequestsLoadReturns(t) \/ RequestDecided(t)
                      \/ \E ok \in BOOLEAN : RoomsForDormitory(t, ok)

RequestsBusy == page.busy # None \/ (page.list = None /\ ~page.error)
RequestsAgree == page.list # None /\ ~page.error => page.list = Waiting(server.decided)

------------------------------------------------------------------------------
\* ContractsAndPaymentsPage

DeskContractsInit ==
  /\ page = [at |-> "deskContracts", list |-> None, overdue |-> None, error |-> FALSE,
             actionError |-> FALSE, void |-> None, extend |-> None, deadline |-> FALSE,
             submitting |-> FALSE]
  /\ server \in [Requests -> {"sent", "awaiting"}]
  /\ tasks = {Task("load", 1, None)} /\ stale = FALSE

Overdue(rows) == {c \in Requests : rows[c] = "awaiting"}
NoDialog == page.void = None

\* The contracts first, with a call about each, then the overdue ones, again
\* with a call about each.
DeskContractsLoaded(t) ==
  /\ t.fn = "load" /\ t.wire # "sent"
  /\ IF t.wire = "failed" THEN End(t) /\ page' = [page EXCEPT !.error = TRUE]
     ELSE GoOn(t, New("enrich", t.reply)) /\ UNCHANGED page
  /\ UNCHANGED <<server, stale>>
ContractsEnriched(t) ==
  /\ Awaiting(t, {"enrich"})
  /\ IF t.reply = None
       THEN /\ page' = [page EXCEPT !.list = t.arg] /\ GoOn(t, [t EXCEPT !.reply = "again"])
       ELSE /\ page' = [page EXCEPT !.overdue = Overdue(t.arg)] /\ End(t)
  /\ UNCHANGED <<server, stale>>

AskVoid(c) ==
  /\ NoDialog /\ page.overdue # None /\ c \in page.overdue /\ page.extend # c
  /\ page' = [page EXCEPT !.void = c]
  /\ UNCHANGED <<tasks, server, stale>>
CancelVoid ==
  /\ page.void # None /\ ~page.submitting /\ page' = [page EXCEPT !.void = None]
  /\ UNCHANGED <<tasks, server, stale>>
\* The deadline that was typed for another contract stays.
OpenExtend(c) ==
  /\ NoDialog /\ page.overdue # None /\ c \in page.overdue /\ page.extend # c
  /\ page' = [page EXCEPT !.extend = c]
  /\ UNCHANGED <<tasks, server, stale>>
TypeDeadline ==
  /\ NoDialog /\ page.extend # None /\ page.extend \in page.overdue /\ ~page.deadline
  /\ page' = [page EXCEPT !.deadline = TRUE]
  /\ UNCHANGED <<tasks, server, stale>>
CloseExtend ==
  /\ NoDialog /\ page.extend # None /\ page.extend \in page.overdue
  /\ page' = [page EXCEPT !.extend = None, !.deadline = FALSE]
  /\ UNCHANGED <<tasks, server, stale>>

\* One flag for both.
HandleContract(fn, c) ==
  /\ ~page.submitting /\ MayTap
  /\ page' = [page EXCEPT !.submitting = TRUE, !.actionError = FALSE]
  /\ Start(New(fn, c))
  /\ UNCHANGED <<server, stale>>
HandleContractVoid == page.void # None /\ HandleContract("void", page.void)
HandleContractExtend ==
  /\ NoDialog /\ page.extend # None /\ page.extend \in page.overdue /\ page.deadline
  /\ HandleContract("extend", page.extend)

ContractDecisionReturns(t) ==
  /\ t.fn \in {"void", "extend"} /\ t.wire # "sent"
  /\ LET ok(fn) == t.wire = "ok" /\ t.fn = fn
     IN page' = [page EXCEPT !.submitting = FALSE, !.actionError = t.wire = "failed",
          !.void = IF ok("void") THEN None ELSE @,
          !.extend = IF ok("extend") THEN None ELSE @, !.deadline = @ /\ ~ok("extend")]
  /\ IF t.wire = "ok" THEN GoOn(t, New("load", None)) ELSE End(t)
  /\ UNCHANGED <<server, stale>>

\* ManagerDecision takes a contract that waits for one.
ServeDeskContracts(t) ==
  \/ Awaiting(t, {"load"}) /\ Serve(t, TRUE, server, server)
  \/ /\ Awaiting(t, {"void", "extend"})
     /\ Serve(t, server[t.arg] = "awaiting",
              [server EXCEPT ![t.arg] = IF t.fn = "void" THEN "expired" ELSE "sent"], None)
ContractFallsDue(c) ==
  server[c] = "sent" /\ Elsewhere([server EXCEPT ![c] = "awaiting"])

DeskContractsNext ==
  \/ \E c \in Requests : AskVoid(c) \/ OpenExtend(c) \/ ContractFallsDue(c)
  \/ CancelVoid \/ TypeDeadline \/ CloseExtend \/ HandleContractVoid \/ HandleContractExtend
  \/ \E t \in tasks : \/ ServeDeskContracts(t) \/ DeskContractsLoaded(t)
                      \/ ContractsEnriched(t) \/ ContractDecisionReturns(t)

DeskContractsBusy == page.submitting \/ page.list = None
\* "Loading" stays under the message that the first reading failed.
DeskContractsUnread == ~page.submitting /\ page.error
DeskContractsAgree ==
  page.list # None /\ ~page.error => page.list = server /\ page.overdue = Overdue(server)
=============================================================================
