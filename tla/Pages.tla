------------------------------- MODULE Pages -------------------------------
(***************************************************************************)
(* The frontend: the router mounts one page of the student portal, or of   *)
(* the office of managers, committee members and administrators.  Pages    *)
(* share no state but the session (Session) and the rows of the server,    *)
(* which somebody else may always change, so that a behaviour is that of   *)
(* one page.                                                               *)
(***************************************************************************)
EXTENDS Notices, Push, Account, ResidenceDesk, ContractsScreen, StudentApplications,
        Wizard, Routes, AdminApplications, RoomDesk, People, ProtocolDesk, Catalogue,
        RequestDesk, Assistant

\* The student portal.
PortalInit ==
  \/ NoticesInit \/ PushInit \/ RegisterInit \/ EditInit \/ DeskInit
  \/ ContractsInit \/ MineInit \/ DetailInit \/ WizardInit \/ RoutesInit

PortalNext ==
  \/ page.at = "notices" /\ NoticesNext
  \/ page.at = "push" /\ PushNext
  \/ page.at = "register" /\ RegisterNext
  \/ page.at = "edit" /\ EditNext
  \/ page.at = "residence" /\ DeskNext
  \/ page.at = "contracts" /\ ContractsNext
  \/ page.at = "mine" /\ MineNext
  \/ page.at = "application" /\ DetailNext
  \/ page.at = "wizard" /\ WizardNext
  \/ page.at = "routes" /\ RoutesNext

\* The office.
OfficeInit ==
  \/ QueueInit \/ ReviewInit \/ BadgeInit \/ ResidentsInit \/ FormInit \/ PlaceInit
  \/ UsersInit \/ RolesInit \/ ApprovalsInit \/ NewUserInit \/ CreateInit
  \/ ProtocolInit \/ ProtocolsInit \/ HouseFormInit \/ BenefitInit \/ PapersInit
  \/ RequestsInit \/ DeskContractsInit \/ ChatInit \/ AccessInit \/ BroadcastInit
  \/ TemplateInit

OfficeNext ==
  \/ page.at = "queue" /\ QueueNext
  \/ page.at = "review" /\ ReviewNext
  \/ page.at = "badge" /\ BadgeNext
  \/ page.at = "residents" /\ ResidentsNext
  \/ page.at = "roomForm" /\ FormNext
  \/ page.at = "place" /\ PlaceNext
  \/ page.at = "users" /\ UsersNext
  \/ page.at = "roles" /\ RolesNext
  \/ page.at = "approvals" /\ ApprovalsNext
  \/ page.at = "newUser" /\ NewUserNext
  \/ page.at = "create" /\ CreateNext
  \/ page.at = "protocol" /\ ProtocolNext
  \/ page.at = "protocols" /\ ProtocolsNext
  \/ page.at = "houseForm" /\ HouseFormNext
  \/ page.at = "benefit" /\ BenefitNext
  \/ page.at = "papers" /\ PapersNext
  \/ page.at = "requests" /\ RequestsNext
  \/ page.at = "deskContracts" /\ DeskContractsNext
  \/ page.at = "chat" /\ ChatNext
  \/ page.at = "access" /\ AccessNext
  \/ page.at = "broadcast" /\ BroadcastNext
  \/ page.at = "template" /\ TemplateNext

Init == PortalInit \/ OfficeInit

Next == PortalNext \/ OfficeNext

Spec == Init /\ [][Next]_vars

------------------------------------------------------------------------------

\* A page never waits for what is not under way: with no function running, no
\* button stays disabled and no spinner turns, whichever calls failed and in
\* whatever order they returned (the finally blocks, the functional updates).
\* One exception: the wizard, which is told nothing of dormitories that could
\* not be read, says "loading" until it is left.
PortalSettles ==
  tasks = {} =>
    CASE page.at = "notices" -> ~NoticesBusy
      [] page.at = "push" -> page.user # None => ~page.busy
      [] page.at = "register" -> ~RegisterBusy
      [] page.at = "edit" -> ~EditBusy
      [] page.at = "residence" -> ~DeskBusy
      [] page.at = "contracts" -> ~ContractsBusy
      [] page.at = "mine" -> ~MineBusy
      [] page.at = "application" -> ~DetailBusy
      [] page.at = "wizard" -> WizardBusy => WizardUnread
      [] OTHER -> TRUE

\* What a form reports as done has been done, to the values that were sent, also
\* when its fields were edited or another form of the page was sent while the
\* call was under way (RegisterPage, EditProfilePage, the wizard).
PortalReports ==
  tasks = {} =>
    CASE page.at = "register" -> RegisterDone
      [] page.at = "edit" -> EditDone
      [] page.at = "wizard" -> WizardDone
      [] OTHER -> TRUE

\* A page of the portal at rest shows the rows as they are (the reload after a
\* mutation, the local updates that replace one), as long as AtRest says that it
\* can know of them.
PortalAgrees ==
  AtRest =>
    CASE page.at = "notices" -> NoticesAgree
      [] page.at = "residence" -> DeskAgree
      [] page.at = "contracts" -> ContractsAgree
      [] page.at = "mine" -> MineAgree
      [] page.at = "application" -> DetailAgree
      [] OTHER -> TRUE

------------------------------------------------------------------------------

\* No page of the office stays disabled or loading with nothing under way,
\* whichever of its calls failed and however those of its buttons that stay
\* open overlapped (the finally blocks, the one variable that names the row
\* that waits in PendingStudentsPage and BenefitFormPage).  Two exceptions:
\* PlaceStudentPage and ContractsAndPaymentsPage show the message of a first
\* reading that failed and "loading" below it, until they are left.
OfficeSettles ==
  tasks = {} =>
    CASE page.at = "queue" -> ~QueueBusy
      [] page.at = "review" -> ~ReviewBusy
      [] page.at = "residents" -> ~ResidentsBusy
      [] page.at \in {"roomForm", "newUser"} -> ~page.submitting
      [] page.at = "place" -> PlaceBusy => PlaceUnread
      [] page.at = "users" -> ~UsersBusy
      [] page.at = "roles" -> ~RolesBusy
      [] page.at = "approvals" -> ~ApprovalsBusy
      [] page.at = "create" -> ~CreateBusy
      [] page.at = "protocol" -> ~ProtocolBusy
      [] page.at = "protocols" -> ~ProtocolsBusy
      [] page.at = "houseForm" -> ~HouseFormBusy
      [] page.at = "benefit" -> ~BenefitBusy
      [] page.at = "papers" -> ~PapersBusy
      [] page.at = "requests" -> ~RequestsBusy
      [] page.at = "deskContracts" -> DeskContractsBusy => DeskContractsUnread
      [] page.at = "chat" -> ~ChatBusy
      [] page.at = "access" -> ~AccessBusy
      [] page.at = "broadcast" -> ~BroadcastBusy
      [] page.at = "template" -> ~TemplateBusy
      [] OTHER -> TRUE

\* What a page of the office reports as done, or leaves as done, the rows say
\* too, the calls it takes several of included: a room with its restrictions,
\* the three positions of a user, a decision with its room, a question with its
\* answer.  Decisions, passwords, audiences and broadcasts only while nobody
\* else changed the rows and no answer was lost (stale); the manager's position
\* only in a first attempt (retried).
OfficeReports ==
  tasks = {} =>
    CASE page.at = "review" -> ReviewDone
      [] page.at = "roomForm" -> FormDone
      [] page.at = "place" -> PlaceDone
      [] page.at = "users" -> UsersDone
      [] page.at = "roles" -> RolesDone
      [] page.at = "newUser" -> NewUserDone
      [] page.at = "create" -> CreateDone
      [] page.at = "protocol" -> ProtocolDone
      [] page.at = "houseForm" -> HouseFormDone
      [] page.at = "access" -> AccessDone
      [] page.at = "broadcast" -> BroadcastDone
      [] page.at = "chat" -> ChatWhole
      [] page.at = "template" -> TemplateDone /\ TemplateWhole
      [] OTHER -> TRUE

\* A page of the office at rest shows the rows as they are, after its own
\* actions and their failures: every one of them reads the list again, or
\* changes the copy on the screen, as long as AtRest says that it can know.
OfficeAgrees ==
  AtRest =>
    CASE page.at = "queue" -> QueueAgree
      [] page.at = "review" -> ReviewAgree
      [] page.at = "residents" -> ResidentsAgree
      [] page.at = "place" -> PlaceAgree
      [] page.at = "users" -> UsersAgree
      [] page.at = "approvals" -> ApprovalsAgree
      [] page.at = "protocol" -> ProtocolAgrees
      [] page.at = "protocols" -> ProtocolsAgree
      [] page.at = "houseForm" -> HouseFormAgrees
      [] page.at = "benefit" -> BenefitAgrees
      [] page.at = "papers" -> PapersAgree
      [] page.at = "requests" -> RequestsAgree
      [] page.at = "deskContracts" -> DeskContractsAgree
      [] page.at = "chat" -> ChatAgrees
      [] page.at = "access" -> AccessAgrees
      [] OTHER -> TRUE

------------------------------------------------------------------------------

\* A page never waits for what is not under way: with no function running, no
\* button stays disabled and no spinner turns, whichever calls failed and in
\* whatever order they returned (the finally blocks, the functional updates,
\* the one variable that names the row that waits in PendingStudentsPage).
\* The code has three exceptions, which say "loading" for ever once a first
\* reading has failed: the wizard (dormitories, without a message), and below
\* the message PlaceStudentPage (students or dormitories) and
\* ContractsAndPaymentsPage (contracts).  Nothing else on them waits then.
NeverStuck == PortalSettles /\ OfficeSettles

\* What a page reports as done, or leaves as done, has been done, to the values
\* that were sent, also when it takes several calls or its fields were edited
\* while one was under way: an application with its documents, a room with its
\* restrictions, the positions of a user, a decision with its room, a question
\* with its answer.  Not claimed: that the fields beside the message still hold
\* what was sent (EditDone says when they do); the manager's position after a
\* failed attempt, which the next one does not send again (RolesDone); and on
\* the pages whose rows others change (decisions, passwords, audiences,
\* broadcasts) anything once they have, or an answer was lost.
SuccessIsTrue == PortalReports /\ OfficeReports

\* A page at rest shows the rows as they are after its own actions and their
\* failures: on every way out of an action the page reads again, or changes the
\* copy on the screen as the server changed the rows.  Only while it can know of
\* them (stale): not once others changed the rows, an own change was carried out
\* whose answer was lost, an own change was carried out while a reading was on
\* its way, or a reading was answered while another answer was on its way: rows
\* read earlier may then be put back on the screen, which the code allows.
RestAgrees == PortalAgrees /\ OfficeAgrees
=============================================================================
