------------------------------- MODULE Wizard -------------------------------
(***************************************************************************)
(* NewApplicationPage: the four steps in which a student applies for a     *)
(* room, the lists that arrive while they are being filled in, and the     *)
(* submission, a chain of calls that is rolled back when one fails.        *)
(***************************************************************************)
EXTENDS Screen

CONSTANT Dorms

\* Each dormitory, and the one benefit, requires one document; a room is told
\* by its dormitory.
Benefit == "benefit"
RequiredDocs == Dorms \cup {Benefit}
Contract == [dorm : Dorms \cup {None}, room : Dorms \cup {None}]

\* Null is neither an application nor a list of details.
ASSUME WizardAssumption ==
  /\ None \notin [dorm : Dorms \cup {None}, docs : SUBSET RequiredDocs, agreed : Contract]
  /\ \A details \in SUBSET {"details"} : details # None

WizardInit ==
  /\ page = [at |-> "wizard", step |-> 1, sent |-> FALSE, ready |-> FALSE,
             dorm |-> None, rooms |-> None, room |-> None, dormDocs |-> {},
             chosen |-> FALSE, benefitDocs |-> None, files |-> {}, asked |-> None,
             saving |-> FALSE, contract |-> None, agreed |-> None,
             submitting |-> FALSE, left |-> FALSE]
  /\ server = [app |-> None, known |-> {}]
  /\ tasks = {Task("dormitories", 1, None), Task("profile", 1, None)}
  /\ stale = FALSE

\* The form is there once the dormitories are, and until the end.  A bound: it
\* is not followed past a submission that left an application behind.
Filling == page.ready /\ ~page.sent /\ ~page.left /\ ~stale
AtStep(n) == Filling /\ page.step = n

\* What these calls return does not change here, so that a reply is taken as it
\* arrives.  The wizard does not show the error of useDormitoriesWithMeta.
DormitoriesReturn(t, ok) ==
  /\ Awaiting(t, {"dormitories"}) /\ End(t)
  /\ page' = [page EXCEPT !.ready = ok]
  /\ UNCHANGED <<server, stale>>

\* What the profile lacks is asked for; all of it when the profile failed to
\* load.  Settled once.
ProfileReturns(t) ==
  /\ Awaiting(t, {"profile"}) /\ End(t)
  /\ \E lacks \in {{}, {"details"}} :
       page' = [page EXCEPT !.asked = IF @ = None THEN lacks ELSE @]
  /\ UNCHANGED <<server, stale>>

\* The rooms and the documents of the dormitory are asked for, in one call here,
\* and the room is given up (RoomPicker); nothing tells late replies from
\* current ones.
ChooseDormitory(d) ==
  /\ AtStep(1) /\ page.dorm # d /\ MayTap
  /\ page' = [page EXCEPT !.dorm = d, !.room = None]
  /\ Start(New("lists", d))
  /\ UNCHANGED <<server, stale>>

SelectRoom ==
  /\ AtStep(1) /\ page.rooms # None
  /\ page' = [page EXCEPT !.room = IF @ = page.rooms THEN None ELSE page.rooms]
  /\ UNCHANGED <<tasks, server, stale>>

\* The failure of either list counts as an empty one.
WizardListReturns(t, ok) ==
  /\ Awaiting(t, {"lists", "rooms", "benefitDocs"}) /\ End(t)
  /\ page' = IF t.fn = "benefitDocs"
               THEN [page EXCEPT !.benefitDocs = IF ok THEN {Benefit} ELSE {}]
               ELSE [page EXCEPT !.rooms = IF ok THEN t.arg ELSE None,
                       !.dormDocs = IF t.fn = "rooms" THEN @
                                    ELSE IF ok THEN {t.arg} ELSE {}]
  /\ UNCHANGED <<server, stale>>

ToggleBenefit ==
  /\ AtStep(2) /\ MayTap
  /\ page' = [page EXCEPT !.chosen = ~@]
  /\ IF page.chosen \/ page.benefitDocs # None THEN UNCHANGED tasks
     ELSE Start(New("benefitDocs", None))
  /\ UNCHANGED <<server, stale>>

AllRequiredDocs ==
  page.dormDocs \cup IF page.chosen /\ page.benefitDocs # None THEN page.benefitDocs ELSE {}

\* In one step; who leaves a document out goes on without this step.
SetDocFiles ==
  /\ AtStep(2) /\ ~(AllRequiredDocs \subseteq page.files)
  /\ page' = [page EXCEPT !.files = @ \cup AllRequiredDocs]
  /\ UNCHANGED <<tasks, server, stale>>

\* The effect of step 4: the contract of before is taken away, and one for what
\* is chosen now is asked for; leaving the step gives it up (cancelled).
GivenUp(ts) == {u \in ts : u.fn # "contract"}
ToStep(n, p, ts) ==
  /\ page' = [p EXCEPT !.step = n, !.contract = IF n = 4 THEN None ELSE @]
  /\ tasks' = IF n = 4
       THEN ts \cup {New("contract", [dorm |-> page.dorm, room |-> page.room])}
       ELSE IF page.step = 4 THEN GivenUp(ts) ELSE ts

\* goNext; from step 1 with a dormitory and a room, from step 3 with every
\* document and the details saved.
GoNext ==
  /\ \/ AtStep(1) /\ page.dorm # None /\ page.room # None /\ ToStep(2, page, tasks)
     \/ AtStep(2) /\ ToStep(3, page, tasks)
     \/ /\ AtStep(3) /\ page.asked # None /\ ~page.saving /\ MayTap
        /\ AllRequiredDocs \subseteq page.files
        /\ \/ page.asked = {} /\ ToStep(4, page, tasks)
           \/ /\ page.asked # {} /\ page' = [page EXCEPT !.saving = TRUE]
              /\ Start(New("details", None))
  /\ UNCHANGED <<server, stale>>

\* saveDetails, then a step on from wherever the wizard has gone meanwhile.
DetailsReturn(t, ok) ==
  /\ Awaiting(t, {"details"})
  /\ IF ~ok
       THEN End(t) /\ page' = [page EXCEPT !.saving = FALSE]
       ELSE ToStep(IF page.step < 4 THEN page.step + 1 ELSE page.step,
                   [page EXCEPT !.saving = FALSE, !.asked = {}], tasks \ {t})
  /\ UNCHANGED <<server, stale>>

\* Step 1 mounts RoomPicker again, which gives up the room.
EnterFirst(p) ==
  /\ page' = [p EXCEPT !.step = 1, !.room = None, !.rooms = None]
  /\ tasks' = GivenUp(tasks) \cup {New("rooms", p.dorm)}

\* Mutant: the box stays ticked.
GoBackMutant ==
  /\ Filling /\ page.step > 1 /\ MayTap
  /\ IF page.step = 2 THEN EnterFirst(page) ELSE ToStep(page.step - 1, page, tasks)
  /\ UNCHANGED <<server, stale>>
GoBack ==
  /\ Filling /\ page.step > 1 /\ MayTap
  /\ LET reset == [page EXCEPT !.agreed = None]
     IN IF page.step = 2 THEN EnterFirst(reset) ELSE ToStep(page.step - 1, reset, tasks)
  /\ UNCHANGED <<server, stale>>

\* The two links of step 3 to what was chosen.
Change(n) ==
  /\ AtStep(3) /\ MayTap
  /\ IF n = 1 THEN EnterFirst(page) ELSE ToStep(2, page, tasks)
  /\ UNCHANGED <<server, stale>>

\* A contract without a room cannot be filled in.
ContractReturns(t, ok) ==
  /\ Awaiting(t, {"contract"}) /\ End(t)
  /\ page' = IF ok /\ t.arg.room # None THEN [page EXCEPT !.contract = t.arg] ELSE page
  /\ UNCHANGED <<server, stale>>

SetContractAgreed ==
  /\ AtStep(4) /\ page.contract # None
  /\ page' = [page EXCEPT !.agreed = IF @ = None THEN page.contract ELSE None]
  /\ UNCHANGED <<tasks, server, stale>>

HandleSubmit ==
  /\ AtStep(4) /\ page.agreed # None /\ ~page.submitting /\ MayTap
  /\ page' = [page EXCEPT !.submitting = TRUE]
  /\ Start(New("upload", [dorm |-> page.dorm, room |-> page.room,
                          docs |-> AllRequiredDocs, agreed |-> page.agreed]))
  /\ UNCHANGED <<server, stale>>

\* The files and the benefits first, then the application, then its documents.
\* The receipt that follows may fail without consequence and is left out.
SubmissionGoesOn(t) ==
  /\ t.wire = "ok"
  /\ \/ t.fn = "upload" /\ GoOn(t, New("create", t.arg)) /\ UNCHANGED page
     \/ t.fn = "create" /\ GoOn(t, New("attach", t.arg)) /\ UNCHANGED page
     \/ /\ t.fn = "attach" /\ End(t)
        /\ page' = [page EXCEPT !.sent = TRUE, !.submitting = FALSE]
  /\ UNCHANGED <<server, stale>>

\* A failure after the creation takes the application back.
\* Mutant: it does not.
SubmissionFailsMutant(t) ==
  /\ t.fn \in {"upload", "create", "attach"} /\ t.wire = "failed" /\ End(t)
  /\ page' = [page EXCEPT !.submitting = FALSE] /\ UNCHANGED <<server, stale>>
SubmissionFails(t) ==
  /\ t.fn \in {"upload", "create", "attach"} /\ t.wire = "failed"
  /\ IF t.fn = "attach" THEN GoOn(t, New("rollback", None)) /\ UNCHANGED page
     ELSE End(t) /\ page' = [page EXCEPT !.submitting = FALSE]
  /\ UNCHANGED <<server, stale>>

\* The failure of the rollback itself is ignored; left records it.
RollbackReturns(t) ==
  /\ t.fn = "rollback" /\ t.wire # "sent" /\ End(t)
  /\ page' = [page EXCEPT !.submitting = FALSE, !.left = t.wire = "failed"]
  /\ UNCHANGED <<server, stale>>

\* A room must be one of the dormitory's; a pending application may be deleted.
ServeWizard(t) ==
  \/ Awaiting(t, {"upload"}) /\ Serve(t, t.arg.docs \subseteq page.files, server, None)
  \/ /\ Awaiting(t, {"create"})
     /\ Serve(t, server.app = None /\ t.arg.room = t.arg.dorm,
              [app |-> [dorm |-> t.arg.dorm, docs |-> {}, agreed |-> t.arg.agreed],
               known |-> t.arg.docs], None)
  \/ /\ Awaiting(t, {"attach"})
     /\ \/ Serve(t, server.app # None, [server EXCEPT !.app.docs = t.arg.docs], None)
        \/ \E s \in t.arg.docs :  \* some of them, in parallel
             /\ server' = [server EXCEPT !.app.docs = t.arg.docs \ {s}]
             /\ Answered(t, "failed", None) /\ UNCHANGED <<page, stale>>
  \/ Awaiting(t, {"rollback"}) /\ Serve(t, TRUE, [server EXCEPT !.app = None], None)

WizardNext ==
  \/ \E d \in Dorms : ChooseDormitory(d)
  \/ SelectRoom \/ ToggleBenefit \/ SetDocFiles \/ GoNext \/ GoBack
  \/ SetContractAgreed \/ HandleSubmit
  \/ \E n \in {1, 2} : Change(n)
  \/ \E t \in tasks :
       \/ \E ok \in BOOLEAN : \/ DormitoriesReturn(t, ok) \/ WizardListReturns(t, ok)
                              \/ DetailsReturn(t, ok) \/ ContractReturns(t, ok)
       \/ ServeWizard(t) \/ ProfileReturns(t)
       \/ SubmissionGoesOn(t) \/ SubmissionFails(t) \/ RollbackReturns(t)

WizardBusy == page.submitting \/ page.saving \/ page.asked = None \/ ~page.ready
\* "Loading" stays, without a message, when the dormitories cannot be read.
WizardUnread == ~page.submitting /\ ~page.saving /\ page.asked # None
\* "Sent" means sent with every document the page knew to be required.
WizardDone == page.sent => server.app # None /\ server.app.docs = server.known

\* A submission that failed leaves no application behind, unless the rollback
\* failed too or the answer of a call was lost (handleSubmit, CancelOwn).
NoHalfApplication ==
  page.at = "wizard" /\ tasks = {} /\ ~page.sent /\ ~page.left /\ ~stale =>
    server.app = None

\* The contract that was on the screen when the student agreed is the one of
\* the dormitory and the room applied for, whatever was changed, gone back to
\* or answered late in between (the reset in goBack, the cancelled flag).
AgreedIsSent ==
  page.at = "wizard" /\ server.app # None =>
    server.app.agreed = [dorm |-> server.app.dorm, room |-> server.app.dorm]
=============================================================================
