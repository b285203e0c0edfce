---------------------------- MODULE PagesProofs ----------------------------
(***************************************************************************)
(* What the proofs about the pages share.  A behaviour is that of one      *)
(* page: it begins with the page's own initial state, no step turns a page *)
(* into another, and so every step is one of that page.                    *)
(***************************************************************************)
EXTENDS Pages, TLAPS

Named == "at" \in DOMAIN page
Stays == "at" \in DOMAIN page' /\ page'.at = page.at

------------------------------------------------------------------------------
\* The page that is mounted stays mounted, whatever it does.

LEMMA NoticesStays == Named /\ NoticesNext => Stays
  BY DEF Named, Stays, NoticesNext, HandleClick, AskDelete, NoticeArrives,
         HandleMarkAllRead, AskClearAll, CancelDialog, HandleDelete, HandleClearAll,
         ServeNotices, ServeMarkAll, MarkReadReturns, MarkAllReturns, DeleteReturns,
         ClearAllReturns, LoadNoticesReturns, Elsewhere, Serve

LEMMA PushStays == Named /\ PushNext => Stays
  BY DEF Named, Stays, PushNext, SignIn, TurnOn, TurnOff, SignOut, AnswerPrompt,
         PromptReturns, ResumeReturns, ServePush, SaveReturns, ConfigReturns,
         ServeDrop, Unsubscribe, LogoutGoesOn, Subscribe, SubscribeFails, Serve

LEMMA RegisterStays == Named /\ RegisterNext => Stays
  BY DEF Named, Stays, RegisterNext, Register, HandleContinueAnyway, ChangeAddress,
         ServeRegister, RegisterReturns, RegisterAnywayReturns, Serve

LEMMA EditStays == Named /\ EditNext => Stays
  BY DEF Named, Stays, EditNext, RefusePassword, SetDetail, Submit, ServeEdit,
         EditLoadReturns, UploadReturns, SubmitReturns, Serve

LEMMA DeskStays == Named /\ DeskNext => Stays
  BY DEF Named, Stays, DeskNext, CancelConfirm, ConfirmRequest, PrefillDraft,
         OpenConfirm, DeskDecided, ServeDesk, PlaceReturns, DeskLoadReturns,
         RequestReturns, Elsewhere, Serve

LEMMA ContractsStays == Named /\ ContractsNext => Stays
  BY DEF Named, Stays, ContractsNext, ToggleExpanded, HandleDownload, Acknowledge,
         DeadlinePasses, AskAnswer, CancelAnswer, HandleConfirm, ServeContracts,
         ListReturns, DocumentsReturn, SettledReturns, DownloadReturns,
         RespondReturns, Elsewhere, Serve

LEMMA MineStays == Named /\ MineNext => Stays
  BY DEF Named, Stays, MineNext, AskRemoval, MineDecided, CancelRemoval,
         ConfirmRemoval, ServeMine, MineLoadReturns, JourneysReturn, RemovalReturns,
         Elsewhere, Serve

LEMMA DetailStays == Named /\ DetailNext => Stays
  BY DEF Named, Stays, DetailNext, EditNotes, TypeNotes, HandleDeleteApplication,
         DetailDecided, PickRoom, HandleResubmit, HandleUpload, ServeDetail,
         DetailLoadReturns, RoomNumberReturns, ResubmitReturns, UploadMissingReturns,
         DeletionReturns, Elsewhere, Serve

LEMMA WizardStays == Named /\ WizardNext => Stays
  BY DEF Named, Stays, WizardNext, ChooseDormitory, SelectRoom, ToggleBenefit,
         SetDocFiles, GoNext, GoBack, SetContractAgreed, HandleSubmit, Change,
         DormitoriesReturn, WizardListReturns, DetailsReturn, ContractReturns,
         ServeWizard, ProfileReturns, SubmissionGoesOn, SubmissionFails,
         RollbackReturns, ToStep, EnterFirst, Serve

LEMMA RoutesStays == Named /\ RoutesNext => Stays
  BY DEF Named, Stays, RoutesNext, FollowRedirect, Visit, LogIn, UserReplaced

LEMMA QueueStays == Named /\ QueueNext => Stays
  BY DEF Named, Stays, QueueNext, AskBulk, CancelBulk, RunBulkAction, OpenPicker,
         DownloadSelected, ClosePicker, ToggleSelected, ServeQueue, ListPending,
         ReadGround, ReTriage, Over, GoOn, DecideBatch, QueueLoadReturns, BulkReturns, DownloadEnds, QueueMoves, Serve

LEMMA ReviewStays == Named /\ ReviewNext => Stays
  BY DEF Named, Stays, ReviewNext, HandleSelectRoom, SaveRestrictions,
         CloseRestrictions, WriteComment, ResetPanel, OpenPanel, HandleDecision,
         DecidedElsewhere, ServeReview, ReviewLoadReturns, RoomsReturn,
         RestrictionsReturn, DecisionReturns, Elsewhere, Serve

LEMMA BadgeStays == Named /\ BadgeNext => Stays
  BY DEF Named, Stays, BadgeNext, Poll, MarkApplicationsSeenNow, ApplicationArrives,
         ServePoll, PollReturns, Elsewhere, Serve

LEMMA ResidentsStays == Named /\ ResidentsNext => Stays
  BY DEF Named, Stays, ResidentsNext, ChooseStudent, AskRelease, OpenDetails,
         ResidentMoves, OpenTransfer, HandleAssign, HandleRelease, CancelRelease,
         ChooseRoom, HandleTransfer, CloseDetails, ServeResidents,
         ResidentsLoadReturns, SeatReturns, DetailsArrive, TransferRoomsReturn,
         Elsewhere, Serve

LEMMA FormStays == Named /\ FormNext => Stays
  BY DEF Named, Stays, FormNext, TypeRoom, SubmitRoom, ServeRoomForm, RoomSaved,
         RoomFormReturns, RoomFormLoads, Serve

LEMMA PlaceStays == Named /\ PlaceNext => Stays
  BY DEF Named, Stays, PlaceNext, SelectStudent, ChooseHouse, GoToPlacement,
         BackToStudents, ChangeHouse, SelectPlace, RelaxRoom, LeaveRestrictions,
         HandlePlace, ServePlace, PlaceLoadReturns, HousesReturn, HouseRoomsReturn,
         RelaxReturns, HandlePlaceReturns, InHouse, Serve

LEMMA UsersStays == Named /\ UsersNext => Stays
  BY DEF Named, Stays, UsersNext, AskDeleteUser, OpenPasswordDialog, CancelDeleteUser,
         HandleDeleteUser, ClosePasswordDialog, HandleSetPassword, TypePassword,
         ServeUsers, UsersLoadReturns, DeleteUserReturns, PasswordReturns, Serve

LEMMA RolesStays == Named /\ RolesNext => Stays
  BY DEF Named, Stays, RolesNext, TickPosition, HandleRoleSubmit, ServeRoles,
         MembershipRefused, RolesLoadReturns, RoleStep, RoleSubmitReturns, Serve

LEMMA ApprovalsStays == Named /\ ApprovalsNext => Stays
  BY DEF Named, Stays, ApprovalsNext, HandleApproval, Elsewhere, ServeApprovals,
         ApprovalsLoadReturns, ApprovalReturns, Serve

LEMMA NewUserStays == Named /\ NewUserNext => Stays
  BY DEF Named, Stays, NewUserNext, TypeAccount, HandleUserSubmit, ServeNewUser,
         UserSubmitReturns, Serve

LEMMA CreateStays == Named /\ CreateNext => Stays
  BY DEF Named, Stays, CreateNext, Tick, SwitchLanguage, ToggleSelectAll,
         HandleCreate, ChangeDormitoryFilter, ToggleSelectedKey, TakenElsewhere,
         ServeCreate, CandidatesReturn, CreateReturns, FileFetched, Elsewhere, Serve

LEMMA ProtocolStays == Named /\ ProtocolNext => Stays
  BY DEF Named, Stays, ProtocolNext, AskDeleteProtocol, CancelDeleteProtocol,
         DeleteProtocol, OpenRejectForm, WriteReason, CloseRejectForm, OthersVote,
         HandleVote, ServeProtocol, ProtocolLoadReturns, DeleteProtocolReturns,
         VoteReturns, PreviewReturns, Elsewhere, Serve

LEMMA ProtocolsStays == Named /\ ProtocolsNext => Stays
  BY DEF Named, Stays, ProtocolsNext, AskDeleteRow, CancelDeleteRow, HandleDeleteRow,
         ServeProtocols, ProtocolsLoadReturns, EnrichReturns, DeleteRowReturns, Serve

LEMMA HouseFormStays == Named /\ HouseFormNext => Stays
  BY DEF Named, Stays, HouseFormNext, TypeHouse, SubmitHouse, HandleAddImage,
         ChooseFile, HandleDeleteImage, ServeHouseForm, HouseDataReturns,
         ImagesReturn, HouseReturns, ImageUploaded, AddImageReturns,
         DeleteImageReturns, Serve

LEMMA BenefitStays == Named /\ BenefitNext => Stays
  BY DEF Named, Stays, BenefitNext, HandleToggleDocument, ServeBenefit,
         AssignedReturn, ToggleReturns, Serve

LEMMA PapersStays == Named /\ PapersNext => Stays
  BY DEF Named, Stays, PapersNext, SaveValidity, AskDeletePaper, TypeValidity,
         TypePaper, HandleAddDocument, CancelDeletePaper, HandleDeleteDocument,
         ServePapers, PapersReturn, PaperReturns, Serve

LEMMA RequestsStays == Named /\ RequestsNext => Stays
  BY DEF Named, Stays, RequestsNext, OpenApprove, OpenReject, HandleExitApprove,
         ChooseTransferHouse, ChooseTransferRoom, CloseApprove, WriteRejectComment,
         CloseReject, HandleApprove, HandleReject, ServeRequests, RequestsLoadReturns,
         RequestDecided, RoomsForDormitory, AskRooms, HandleRequest, Serve

LEMMA DeskContractsStays == Named /\ DeskContractsNext => Stays
  BY DEF Named, Stays, DeskContractsNext, AskVoid, OpenExtend, ContractFallsDue,
         CancelVoid, TypeDeadline, CloseExtend, HandleContractVoid,
         HandleContractExtend, ServeDeskContracts, DeskContractsLoaded,
         ContractsEnriched, ContractDecisionReturns, Elsewhere, HandleContract, Serve

LEMMA ChatStays == Named /\ ChatNext => Stays
  BY DEF Named, Stays, ChatNext, SendMessage, NewChat, AskInAnotherTab, ReadHistory,
         AppendMessages, ServeConversation, ConversationReturns, SendReturns,
         TabAnswered, RoleChanges, Elsewhere, Serve

LEMMA AccessStays == Named /\ AccessNext => Stays
  BY DEF Named, Stays, AccessNext, SwitchAccessLanguage, SaveAccess, ToggleAudience,
         ServeAccess, AccessReturns, SaveAccessReturns, Serve

LEMMA BroadcastStays == Named /\ BroadcastNext => Stays
  BY DEF Named, Stays, BroadcastNext, ChooseAudience, ChooseAddressee, WriteBroadcast,
         HandleSend, NewBroadcast, ServeBroadcast, HandleSendReturns, Serve

LEMMA TemplateStays == Named /\ TemplateNext => Stays
  BY DEF Named, Stays, TemplateNext, SwitchTemplateLanguage, EditSheet, HandleAddPage,
         CancelDeleteSheet, HandleDeletePage, SetTwoPagesPerSheet, HandleSaveTemplate,
         FocusSheet, AskDeleteSheet, ServeTemplate, TemplateReturns,
         SaveTemplateReturns, Serve

\* Every page begins with its name.
LEMMA PortalBegins ==
  PortalInit =>
    /\ Named
    /\ \/ page.at = "notices" /\ NoticesInit
       \/ page.at = "push" /\ PushInit
       \/ page.at = "register" /\ RegisterInit
       \/ page.at = "edit" /\ EditInit
       \/ page.at = "residence" /\ DeskInit
       \/ page.at = "contracts" /\ ContractsInit
       \/ page.at = "mine" /\ MineInit
       \/ page.at = "application" /\ DetailInit
       \/ page.at = "wizard" /\ WizardInit
       \/ page.at = "routes" /\ RoutesInit
  BY DEF Named, PortalInit, NoticesInit, PushInit, RegisterInit, EditInit, DeskInit,
         ContractsInit,
         MineInit, DetailInit, WizardInit, RoutesInit

LEMMA OfficeBegins ==
  OfficeInit =>
    /\ Named
    /\ \/ page.at = "queue" /\ QueueInit
       \/ page.at = "review" /\ ReviewInit
       \/ page.at = "badge" /\ BadgeInit
       \/ page.at = "residents" /\ ResidentsInit
       \/ page.at = "roomForm" /\ FormInit
       \/ page.at = "place" /\ PlaceInit
       \/ page.at = "users" /\ UsersInit
       \/ page.at = "roles" /\ RolesInit
       \/ page.at = "approvals" /\ ApprovalsInit
       \/ page.at = "newUser" /\ NewUserInit
       \/ page.at = "create" /\ CreateInit
       \/ page.at = "protocol" /\ ProtocolInit
       \/ page.at = "protocols" /\ ProtocolsInit
       \/ page.at = "houseForm" /\ HouseFormInit
       \/ page.at = "benefit" /\ BenefitInit
       \/ page.at = "papers" /\ PapersInit
       \/ page.at = "requests" /\ RequestsInit
       \/ page.at = "deskContracts" /\ DeskContractsInit
       \/ page.at = "chat" /\ ChatInit
       \/ page.at = "access" /\ AccessInit
       \/ page.at = "broadcast" /\ BroadcastInit
       \/ page.at = "template" /\ TemplateInit
  <1>1. QueueInit => Named /\ page.at = "queue"
    BY DEF Named, QueueInit
  <1>2. ReviewInit => Named /\ page.at = "review"
    BY DEF Named, ReviewInit
  <1>3. BadgeInit => Named /\ page.at = "badge"
    BY DEF Named, BadgeInit
  <1>4. ResidentsInit => Named /\ page.at = "residents"
    BY DEF Named, ResidentsInit
  <1>5. FormInit => Named /\ page.at = "roomForm"
    BY DEF Named, FormInit
  <1>6. PlaceInit => Named /\ page.at = "place"
    BY DEF Named, PlaceInit
  <1>7. UsersInit => Named /\ page.at = "users"
    BY DEF Named, UsersInit
  <1>8. RolesInit => Named /\ page.at = "roles"
    BY DEF Named, RolesInit
  <1>9. ApprovalsInit => Named /\ page.at = "approvals"
    BY DEF Named, ApprovalsInit
  <1>10. NewUserInit => Named /\ page.at = "newUser"
    BY DEF Named, NewUserInit
  <1>11. CreateInit => Named /\ page.at = "create"
    BY DEF Named, CreateInit
  <1>12. ProtocolInit => Named /\ page.at = "protocol"
    BY DEF Named, ProtocolInit
  <1>13. ProtocolsInit => Named /\ page.at = "protocols"
    BY DEF Named, ProtocolsInit
  <1>14. HouseFormInit => Named /\ page.at = "houseForm"
    BY DEF Named, HouseFormInit
  <1>15. BenefitInit => Named /\ page.at = "benefit"
    BY DEF Named, BenefitInit
  <1>16. PapersInit => Named /\ page.at = "papers"
    BY DEF Named, PapersInit
  <1>17. RequestsInit => Named /\ page.at = "requests"
    BY DEF Named, RequestsInit
  <1>18. DeskContractsInit => Named /\ page.at = "deskContracts"
    BY DEF Named, DeskContractsInit
  <1>19. ChatInit => Named /\ page.at = "chat"
    BY DEF Named, ChatInit
  <1>20. AccessInit => Named /\ page.at = "access"
    BY DEF Named, AccessInit
  <1>21. BroadcastInit => Named /\ page.at = "broadcast"
    BY DEF Named, BroadcastInit
  <1>22. TemplateInit => Named /\ page.at = "template"
    BY DEF Named, TemplateInit
  <1> QED BY <1>1, <1>2, <1>3, <1>4, <1>5, <1>6, <1>7, <1>8, <1>9, <1>10, <1>11,
             <1>12, <1>13, <1>14, <1>15, <1>16, <1>17, <1>18, <1>19, <1>20, <1>21,
             <1>22 DEF OfficeInit

LEMMA NextStays == Named /\ [Next]_vars => Stays
  <1> SUFFICES ASSUME Named, [Next]_vars PROVE Stays
    OBVIOUS
  <1>1. CASE PortalNext
    BY <1>1, NoticesStays, PushStays, RegisterStays, EditStays, DeskStays,
       ContractsStays, MineStays, DetailStays, WizardStays, RoutesStays DEF PortalNext
  <1>2. CASE OfficeNext
    BY <1>2, QueueStays, ReviewStays, BadgeStays, ResidentsStays, FormStays,
       PlaceStays, UsersStays, RolesStays, ApprovalsStays, NewUserStays,
       CreateStays, ProtocolStays, ProtocolsStays, HouseFormStays, BenefitStays,
       PapersStays, RequestsStays, DeskContractsStays, ChatStays, AccessStays,
       BroadcastStays, TemplateStays DEF OfficeNext
  <1>3. CASE UNCHANGED vars
    BY <1>3 DEF Named, Stays, vars
  <1> QED BY <1>1, <1>2, <1>3 DEF Next

------------------------------------------------------------------------------
\* A task and the call it awaits.

IsTask(t) ==
  /\ DOMAIN t = {"fn", "no", "wire", "arg", "reply"}
  /\ t.wire \in {"sent", "ok", "failed"}

LEMMA NewTask ==
  ASSUME NEW fn, NEW arg
  PROVE  /\ IsTask(New(fn, arg)) /\ New(fn, arg).fn = fn /\ New(fn, arg).arg = arg
         /\ New(fn, arg).wire = "sent" /\ New(fn, arg).reply = None
  BY DEF New, Task, IsTask

LEMMA FirstTask ==
  ASSUME NEW fn, NEW no, NEW arg
  PROVE  /\ IsTask(Task(fn, no, arg)) /\ Task(fn, no, arg).fn = fn /\ Task(fn, no, arg).arg = arg
         /\ Task(fn, no, arg).wire = "sent" /\ Task(fn, no, arg).reply = None
  BY DEF Task, IsTask

\* What the server has done by the end of a call, in whatever way it ends.
LEMMA Served ==
  ASSUME NEW t, IsTask(t), NEW accepts, NEW after, NEW reply, Serve(t, accepts, after, reply)
  PROVE  /\ UNCHANGED page
         /\ server' # server => accepts /\ server' = after
         /\ \E u : /\ IsTask(u) /\ u.fn = t.fn /\ u.arg = t.arg /\ u.no = t.no
                   /\ tasks' = (tasks \ {t}) \cup {u}
                   /\ u.wire \in {"ok", "failed"}
                   /\ u.wire = "ok" => accepts /\ server' = after /\ u.reply = reply
                   /\ ~stale' =>
                        IF t.fn = "load" /\ u.wire = "ok"
                          THEN \A v \in tasks \ {t} : ~OnItsWay(v)
                          ELSE /\ ~stale
                               /\ server' # server => u.wire = "ok" /\ ~ReadUnderWay(t)
  <1> DEFINE answer(w, r) == [t EXCEPT !.wire = w, !.reply = r]
  <1>1. \A w \in {"ok", "failed"} : \A r :
          /\ IsTask(answer(w, r)) /\ answer(w, r).fn = t.fn /\ answer(w, r).arg = t.arg
          /\ answer(w, r).no = t.no /\ answer(w, r).wire = w /\ answer(w, r).reply = r
    BY DEF IsTask
  <1>2. \A w, r : Answered(t, w, r) => tasks' = (tasks \ {t}) \cup {answer(w, r)}
    BY DEF Answered, GoOn
  <1> HIDE DEF answer
  <1>3. CASE /\ accepts /\ server' = after /\ Answered(t, "ok", reply)
             /\ stale' = IF t.fn = "load" THEN \E u \in tasks \ {t} : OnItsWay(u)
                          ELSE stale \/ (after # server /\ ReadUnderWay(t))
    <2>1. tasks' = (tasks \ {t}) \cup {answer("ok", reply)}
      BY <1>2, <1>3
    <2>2. ~stale' => IF t.fn = "load" THEN \A v \in tasks \ {t} : ~OnItsWay(v)
                     ELSE ~stale /\ (server' # server => ~ReadUnderWay(t))
      BY <1>3
    <2> QED BY <1>1, <1>3, <2>1, <2>2 DEF Serve
  <1>4. CASE /\ Answered(t, "failed", None)
             /\ \/ accepts /\ server' = after /\ stale' = TRUE
                \/ UNCHANGED <<server, stale>>
    <2>1. tasks' = (tasks \ {t}) \cup {answer("failed", None)}
      BY <1>2, <1>4
    <2> QED BY <1>1, <1>4, <2>1 DEF Serve
  <1> QED BY <1>3, <1>4 DEF Serve

\* The same, with a name for the task that is left.
Ended(t, u, accepts, after, reply) ==
  /\ IsTask(u) /\ u.fn = t.fn /\ u.arg = t.arg /\ u.no = t.no
  /\ tasks' = (tasks \ {t}) \cup {u}
  /\ u.wire \in {"ok", "failed"}
  /\ u.wire = "ok" => accepts /\ server' = after /\ u.reply = reply
  /\ ~stale' => IF t.fn = "load" /\ u.wire = "ok"
                  THEN \A v \in tasks \ {t} : ~OnItsWay(v)
                  ELSE ~stale /\ (server' # server => u.wire = "ok" /\ ~ReadUnderWay(t))
LEMMA CallEnds ==
  ASSUME NEW t, IsTask(t), NEW accepts, NEW after, NEW reply, Serve(t, accepts, after, reply)
  PROVE  /\ UNCHANGED page
         /\ server' # server => accepts /\ server' = after
         /\ \E u : Ended(t, u, accepts, after, reply)
  BY Served DEF Ended

\* A step is one of the page that is mounted.
LEMMA StepOfPage ==
  ASSUME Named, [Next]_vars
  PROVE  \/ UNCHANGED vars
         \/ page.at = "notices" /\ NoticesNext
         \/ page.at = "push" /\ PushNext
         \/ page.at = "register" /\ RegisterNext
         \/ page.at = "edit" /\ EditNext
         \/ page.at = "residence" /\ DeskNext
         \/ page.at = "contracts" /\ ContractsNext
         \/ page.at = "mine" /\ MineNext
         \/ page.at = "application" /\ DetailNext
         \/ page.at = "wizard" /\ WizardNext
         \/ page.at = "routes" /\ RoutesNext
         \/ page.at = "queue" /\ QueueNext
         \/ page.at = "review" /\ ReviewNext
         \/ page.at = "badge" /\ BadgeNext
         \/ page.at = "residents" /\ ResidentsNext
         \/ page.at = "roomForm" /\ FormNext
         \/ page.at = "place" /\ PlaceNext
         \/ page.at = "users" /\ UsersNext
         \/ page.at = "roles" /\ RolesNext
         \/ page.at = "approvals" /\ ApprovalsNext
         \/ page.at = "newUser" /\ NewUserNext
         \/ page.at = "create" /\ CreateNext
         \/ page.at = "protocol" /\ ProtocolNext
         \/ page.at = "protocols" /\ ProtocolsNext
         \/ page.at = "houseForm" /\ HouseFormNext
         \/ page.at = "benefit" /\ BenefitNext
         \/ page.at = "papers" /\ PapersNext
         \/ page.at = "requests" /\ RequestsNext
         \/ page.at = "deskContracts" /\ DeskContractsNext
         \/ page.at = "chat" /\ ChatNext
         \/ page.at = "access" /\ AccessNext
         \/ page.at = "broadcast" /\ BroadcastNext
         \/ page.at = "template" /\ TemplateNext
  BY DEF Next, PortalNext, OfficeNext

------------------------------------------------------------------------------
\* The task that a tap starts, and the one that a function goes on as.
Fresh(u, fn, arg) ==
  /\ IsTask(u) /\ u.fn = fn /\ u.arg = arg /\ u.wire = "sent" /\ u.reply = None
LEMMA TapStarts ==
  ASSUME NEW fn, NEW arg, Start(New(fn, arg))
  PROVE  \E u : Fresh(u, fn, arg) /\ tasks' = tasks \cup {u}
  <1> DEFINE new == New(fn, arg)
  <1>1. Fresh(new, fn, arg)
    BY NewTask DEF Fresh
  <1>2. tasks' = tasks \cup {new}
    BY DEF Start
  <1> HIDE DEF new
  <1> QED BY <1>1, <1>2
LEMMA GoesOn ==
  ASSUME NEW t, NEW fn, NEW arg, GoOn(t, New(fn, arg))
  PROVE  \E u : Fresh(u, fn, arg) /\ tasks' = (tasks \ {t}) \cup {u}
  <1> DEFINE new == New(fn, arg)
  <1>1. Fresh(new, fn, arg)
    BY NewTask DEF Fresh
  <1>2. tasks' = (tasks \ {t}) \cup {new}
    BY DEF GoOn
  <1> HIDE DEF new
  <1> QED BY <1>1, <1>2

------------------------------------------------------------------------------
\* Tasks by their function.
Once(fns) == \A t, u \in tasks : t.fn \in fns /\ u.fn \in fns => t = u
Runs(fn) == \E t \in tasks : t.fn = fn

\* A page that begins with its list under way.
LEMMA LoadStarts ==
  ASSUME tasks = {Task("load", 1, None)}
  PROVE  \E l : Fresh(l, "load", None) /\ tasks = {l}
  <1> DEFINE l == Task("load", 1, None)
  <1>1. Fresh(l, "load", None) /\ tasks = {l}
    BY FirstTask DEF Fresh
  <1> HIDE DEF l
  <1> QED BY <1>1

\* The list is being read again, or will be as soon as a mutation returns.
Rereading(ts, mutations) ==
  \E t \in ts : t.fn = "load" \/ (t.fn \in mutations /\ t.wire = "ok")
\* A call has ended as u, in a page whose rows the mutations alone change: what
\* was read before is no older than the rows, as far as nothing is stale.
Replied(t, u, accepts, after, reply, mutations) ==
  /\ IsTask(u) /\ u.fn = t.fn /\ u.arg = t.arg
  /\ u.wire \in {"ok", "failed"}
  /\ tasks' = (tasks \ {t}) \cup {u}
  /\ u.wire = "ok" => accepts /\ server' = after /\ u.reply = reply
  /\ UNCHANGED page /\ (server' # server => accepts /\ server' = after)
  /\ \A v \in tasks \ {t} :
       OnItsWay(v) /\ ~stale' =>
         ~stale /\ (v.fn \in {"load", "enrich"} => server' = server)
  /\ ~stale' =>
       \/ Rereading(tasks', mutations)
       \/ /\ ~stale /\ server' = server
          /\ Rereading(tasks, mutations) => Rereading(tasks', mutations)
LEMMA CallReplies ==
  ASSUME NEW t \in tasks, IsTask(t), NEW accepts, NEW after, NEW reply, NEW mutations,
         t.wire = "sent", Serve(t, accepts, after, reply),
         accepts /\ t.fn \notin mutations => after = server
  PROVE  \E u : Replied(t, u, accepts, after, reply, mutations)
  <1>1. PICK u : Ended(t, u, accepts, after, reply)
    BY CallEnds
  <1>2. UNCHANGED page /\ (server' # server => accepts /\ server' = after)
    BY CallEnds
  <1>3. \A v \in tasks \ {t} :
          OnItsWay(v) /\ ~stale' =>
            ~stale /\ (v.fn \in {"load", "enrich"} => server' = server)
    BY <1>1 DEF Ended, ReadUnderWay
  <1>4. ~stale' => \/ Rereading(tasks', mutations)
                   \/ /\ ~stale /\ server' = server
                      /\ Rereading(tasks, mutations) => Rereading(tasks', mutations)
    <2>1. CASE t.fn = "load"
      BY <1>1, <2>1 DEF Ended, Rereading
    <2>2. CASE t.fn # "load" /\ server' # server
      BY <1>1, <1>2, <2>2 DEF Ended, Rereading
    <2>3. CASE t.fn # "load" /\ server' = server
      <3>1. ~stale' => ~stale
        BY <1>1, <2>3 DEF Ended
      <3>2. Rereading(tasks, mutations) => Rereading(tasks', mutations)
        BY <1>1, <2>3 DEF Ended, Rereading
      <3> QED BY <2>3, <3>1, <3>2
    <2> QED BY <2>1, <2>2, <2>3
  <1> QED BY <1>1, <1>2, <1>3, <1>4 DEF Ended, Replied
\* A mutation has returned: the list is read again when it was carried out.
Again(t, asked, mutations) ==
  /\ tasks' = (tasks \ {t}) \cup asked
  /\ \A u \in asked : Fresh(u, "load", None)
  /\ t.wire = "ok" => asked # {}
  /\ Rereading(tasks, mutations) => Rereading(tasks', mutations)
LEMMA ReadsAgain ==
  ASSUME NEW t, t.fn # "load", NEW mutations,
         IF t.wire = "ok" THEN GoOn(t, New("load", None)) ELSE End(t)
  PROVE  \E asked : Again(t, asked, mutations)
  <1>1. CASE t.wire = "ok"
    <2>1. PICK u : Fresh(u, "load", None) /\ tasks' = (tasks \ {t}) \cup {u}
      BY <1>1, GoesOn
    <2>2. PICK asked : asked = {u}
      OBVIOUS
    <2>3. Rereading(tasks', mutations)
      BY <2>1 DEF Rereading, Fresh
    <2> QED BY <2>1, <2>2, <2>3 DEF Again
  <1>2. CASE t.wire # "ok"
    <2>1. PICK none : none = {}
      OBVIOUS
    <2>2. tasks' = (tasks \ {t}) \cup none
      BY <1>2, <2>1 DEF End
    <2>3. Rereading(tasks, mutations) => Rereading(tasks', mutations)
      BY <1>2, <2>1, <2>2 DEF Rereading
    <2> QED BY <1>2, <2>1, <2>2, <2>3 DEF Again
  <1> QED BY <1>1, <1>2
=============================================================================
