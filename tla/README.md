# StudHouse: formal models

StudHouse gives students places in university dormitories. This directory holds
TLA+ models of its backend (Go, PostgreSQL, `src/backend`) and of its frontend
(TypeScript, React, `src/frontend`), the TLC configurations that check them on small
instances, and proofs for every size of instance that `tlapm` checks.
`PROJECT.json` maps every definition to the lines it stands for and lists the
components, runs, hazards, findings and theorems; this file explains them.

## 1. The system

### The path of a student

A student applies for a place, with a benefit or without, and with documents. A
manager approves the application, rejects it or sends it back. Approved applicants
and residents are put into a *protocol*, on which every member of the *committee*
votes. The last vote that makes it unanimous approves it, and the *hook* then serves
its students one by one: it claims a seat, settles the application, and issues a
*referral*; an older ("legacy") application gets a *contract* first, which the student
accepts or declines before a deadline and a manager decides after it. Residents ask
for a *transfer* or an *exit*. Every July 30 their course goes up by one, or they
graduate.

| component | state | operations | what is hard |
|---|---|---|---|
| Application service | applications, their history and documents | Create, CancelOwn, Resubmit, Decide, CancelApproved | checks before the lock, two transactions per creation |
| Protocol service | protocols, their candidates, votes | Create, Delete, Vote | concurrent votes, a deletion that races the approval |
| Contract service | contracts | hook, Respond, ManagerDecision, FlagOverdueContracts, reminders | one request over several transactions, deadline against answer |
| Referral service | referrals | IssueForProtocol | runs after the hook on what it reads then |
| Room service | rooms, room_residents | Create, Update, UpdateRestrictions, Delete, AddResident, MoveOutResident, TransferResident | every one checks and then writes |
| Transfer and exit requests | transfer_requests, exit_requests | Create, Decide | Decide calls the room service on another connection |
| Users, positions, committee | users, student_profiles | registration, approval, positions, membership, deletion | statements of one operation that a CHECK or a reader sees apart |
| Sessions | refresh_tokens, localStorage, memory of each tab | login, refresh with rotation, logout, bootstrap, the 401 interceptor | tabs that share one token, calls refused together |
| Academic year | academic_year_rollover_state | Run | startup, ticker and manual call at once; missed years; profiles written meanwhile |
| Document checks | application_documents.ai_* | the queue, the goroutine | crashes between claim and answer, claims that get old |
| Triage, notifications, push, assistant, templates, statistics | their own rows | see section 5 | bulk decisions on what was triaged before; turns answered at once |
| Frontend pages | React state, async functions under way | the handlers of every page | replies that are lost, late, or overtake each other |

The services talk through the database and through calls to each other, often on a
second connection and outside of the caller's transaction; the frontend talks to them
by HTTP calls that may be lost in both directions; the background jobs run beside both.
The hazards in `PROJECT.json` are where this bites.

## 2. The modules

### Placement: from the application to the seat

`Registry` has the tables, one function per column that matters, and the requests that
are between two of their statements (`handlers`). One action is one statement or one
transaction; a request that needs several leaves a record of what it has read and does
next, so that others run in between, and any request may stop there. `Applications`,
`Rooms`, `Protocols` and `Contracts` (with the referrals) are the services over it;
`Placement` composes them and defines the safety properties. `Admission` is what they
promise, without tables or requests: an application is cleared, then granted, then
settled, skips nothing and never goes back. `Placement` implements it under a refinement
mapping (`KeepsPromise`). `PlacementInvariant` has the inductive invariant,
`PlacementLiveness` the fair specification.

Of the history of an application (`trail`) the model keeps what its first and its last
entry are, whether the entries follow on from each other, and the same of the changes
alone. The entry of the creation is written after the row is visible
(`application_service.go:158`): when a decision gets in first, the history is
"overtaken" and is no chain any more. `HistoryLinked` claims that the changes always form
a chain which ends with the status, and the whole history in every other case.

Left out: notices, printed documents, the fields of a form, the dormitory rules of an
application beyond "this student suits this room" (`Suits`).

### Residence: living in a dormitory

`Residence` models the room service and the two kinds of request over rooms, stays and
requests. The checks of a call are one action, each later statement is another, and a
call may die in between; only the two Decide calls hold a row lock, on the request, not
on the room. Gender, course, degree and benefits are one `profile` of each student, and
the restrictions of a room the set of profiles it admits: profile and benefit forms
(`SaveProfile`) and the rollover of July 30 (`RollOver`) change profiles without asking
any room, at any moment. The room that a transfer request asks for is stored; as in the
code nothing decides by it, but it keeps that room from being deleted (migration
000025). Notices are left out. The seat that a contract claims is in `Placement`, not
here.

Ghost variables say which rooms two requests were after at once or whose request died
half-way (`contended`), which had their capacity lowered below what they had let in
(`lowered`), and which lost the agreement with a resident, or somebody on the way there,
through a new profile (`outgrown`). The properties are stated with them, because the code
does overbook, and does house the wrong person, in those cases, and the question is how
far that goes and that nothing else does it.

### Session

`Session` has the tabs of one browser (memory), the localStorage they share, the calls in
flight, and the refresh tokens of the server, which are read and rotated in two steps. It
models the interceptor with its shared refresh promise, the bootstrap on load, login,
logout, the expiry of access tokens, lost requests and answers, and refresh tokens that
outlive their time while they are stored or on their way (`Lapse`): Refresh refuses those
too (`auth_service.go:328`), so that `SessionKept` names it as one of the ways to lose a
session.

### Jobs: what runs beside the requests

`AcademicYear` models `Run` from several goroutines, statement by statement: an UPDATE
holds the rows it changed until the transaction ends, and a statement of somebody else
on such a row waits (READ COMMITTED). Registrations, approvals, deletions and profile
forms write in between. The history variable `since` keeps what was last recorded of a
student, at which year, and whether that happened between the two UPDATEs of a rollover.
`DocumentCheck` models the queue and the goroutine that works it off in batches, with
attempts, failed statements, crashes and the age of claims. `Jobs` puts them side by
side; they share no row, so a behaviour is that of one of them. The overdue checker of
contracts is in `PlacementLiveness`, because it works on the same rows as the requests.

### Pages

`Screen` is what pages have in common: the state of the mounted component (`page`), the
async functions under way (`tasks`), the rows behind the page (`server`), and a ghost
`stale` that is set when the rows have changed in a way the page cannot know of. A call is
carried out and answered, refused, or carried out with its answer lost, and answers come
in any order. Every page module has the handlers of its pages up to and after each await:

- student portal: `Notices`, `Push`, `Account`, `ResidenceDesk`, `ContractsScreen`,
  `StudentApplications`, `Wizard`, `Routes`;
- office: `AdminApplications`, `RoomDesk`, `People`, `ProtocolDesk`, `Catalogue`,
  `RequestDesk`, `Assistant`.

`Pages` composes them all: one page is mounted in a behaviour. Texts, layout and validation of
single fields are left out; a form is what it sends. The services behind a page are what
one call does to its rows; their own concurrency is the subject of the modules above.
Three answers take several steps, because what they promise depends on what happens in
between: the triage of a bulk action (list, each ground of each application, the
decisions), a turn of the assistant (history, answer, both messages), and the chains of
calls of one handler.

What `stale` is for: most pages have no guard against a reading that was asked for before
a change and arrives after it, or after a later reading; old rows are then put back on
the screen until the next reading. `stale` is set when that can happen, when others
change the rows, and when the answer to an own change is lost. `RestAgrees` is about
everything else: the ways out of an action, and whether the page reads again or changes
its copy on each of them.

## 3. What is model-checked

| run | specification | properties | what it shows |
|---|---|---|---|
| `placement` | `Placement` | TypeOK, HistoryLinked, ContractMatchesApplication, SeatBeforeSettlement, Inductive, NamedOnce, KeepsPromise | history (but for an overtaken one), contract, seat and status agree while two requests interleave; the inductive invariant holds; the promise of `Admission` is kept |
| `committee` | `Placement` | ApprovedMeansUnanimous, OneProtocolEach, ReferralsFollowApproval | three requests in flight on two protocols and two members |
| `steady` | `PlacementLiveness` | HookServesAll, OverdueReachesManager | the hook reaches every application, also behind one it cannot place; an overdue contract reaches the manager |
| `residence` | `Residence` | SeatsBounded, RoomsApart, DecisionsCarriedOut | how far check-then-insert overbooks, that only requests for the same room, or a new profile, spoil what a call has checked, that decisions agree with the stays |
| `session` | `Session` | TypeOK, RotatedOnce, SessionKept, CallsSettle, BootstrapEnds | no token is rotated twice; a session is lost only to a lost call, a tab closed in the middle of one, two tabs at once, or a token that outlives its time; nobody waits forever |
| `jobs` | `Jobs` | CourseKeepsPace, YearsCatchUp, ClaimHeld, EveryUploadAnswered | students keep pace with the years and no year is missed; what is in hand stays claimed and every upload is answered |
| `pages` | `Pages` | NeverStuck, SuccessIsTrue, RestAgrees and thirteen promises of single pages | pages do not get stuck (but for three first readings that fail), claim nothing that has not happened, and at rest show what is there |

Five more runs show where the code does not do what its own comments say; each is a
finding in `PROJECT.json`:

- `cancelled_placed`: the hook reads an application before a manager cancels it, and
  still seats the student and settles the application;
- `approved_deleted`: CancelOwn deletes an application that was approved in between;
- `protocol_removed`: Delete removes a protocol that the last vote has just approved;
- `history_reordered`: a decision can be the first entry of an application's history;
- `chair_kept`: the membership of a chairperson cannot be revoked, because the CHECK of
  the table refuses the first of the two statements.

### Bounds

- Placement: two students and one room with one seat, so that both compete for it; one
  application of the wizard and one legacy application, so that hook and contract both
  happen; `MaxHandlers` requests between two statements (two, and three for the
  committee, which has one application and two protocols). Two interleaved requests are
  what the races of these services need; three let a deletion meet a vote and a hook.
  Two applications of one student are not in the instance; that case is in the theorem
  NamedByOneRoute.
- Residence: two alike students, one room that is created, edited and deleted
  (`Edited`), one that is there from the start with one seat, two stays, one transfer
  or exit (`MaxRequests`), two calls at a time (`MaxHandlers`); a first and a last course,
  a restriction to the first, and one saving of a profile or rollover (`MaxSaves`). Two
  stays are one move of one student or a home for each of the two, which fight for the
  same seat before the second is inserted; one edited room against one fixed room gives a
  transfer both a source and a target. More stays are in the theorems.
- Session: two tabs, one user, three refresh tokens (so that a rotated one is rotated
  again), one kind of periodic request, `MaxInFlight` two calls per tab.
- Jobs: two callers of Run, `MaxYear` three July 30ths, a degree of two courses, one
  student (no statement relates two of them), `MaxCalls` one request between its
  statements, `MaxRollbacks` one run that breaks off; two documents, `Batch` two,
  `MaxAttempts` two, `MaxLosses` two failures or crashes.
- Pages: two functions under way (`MaxTasks`), two rows of each kind, two grounds of
  triage, `MaxTicks` one student in a protocol of which there are two candidates (the
  limit that the page counts down to), `MaxTurns` two and `MaxAsks` three for a
  conversation; the browser's clock, which the badge compares with the server's, is
  behind by as much as there is, or ahead by one arrival. A race of replies is between two functions. The sets of different pages
  share their names, which is sound because one page is mounted in a behaviour; the
  symmetry is over these names.

Deadlock is not checked where the system may stop: a database at rest, a browser with no
page open, identifiers that are used up.

### Fairness

Fairness is stated only for what the running process does by itself.

- `PlacementLiveness`: weak fairness of the steps of a hook and of an answer that have
  begun, and of the overdue checker for each contract. Crashes are left out there: a crash
  loses the hook, and nothing in the code starts it again.
- `Session`: weak fairness of the steps by which a call under way is answered or given
  up, since an HTTP call ends one way or the other. Nobody has to log in, open a tab or
  press anything.
- `Jobs`: the ticker calls Run again, a step of some run is made (whose rows are not
  held for ever, since the one that holds them is among them), the goroutine goes on or
  is started again, and time passes. Failures are bounded by `MaxRollbacks` and
  `MaxLosses`; a database that always fails answers nothing.

Pages have no fairness: their properties are about what may be shown and about rest.

### What the properties of the pages except

Where the code gives no guarantee, the property says so instead of leaving the case out
of the model; the mutants show that what is left can be broken.

- `NeverStuck`: three pages say "loading" for ever once a first reading has failed: the
  wizard when the dormitories cannot be read (`NewApplicationPage.tsx:522`, without a
  message), `PlaceStudentPage.tsx:388` (students) and `:273` (dormitories), and
  `ContractsAndPaymentsPage.tsx:118`, under the message. Nothing else waits on them then.
- `SuccessIsTrue` compares with what was sent. The fields beside the message may hold
  other text by then (`EditProfilePage.tsx:79`); the manager's position is claimed for a
  first attempt (`retried`), because the next one does not send it again; decisions,
  passwords, audiences and broadcasts only until others change them (`stale`).
- `RestAgrees`: see `stale` above.
- `SwitchHonest`: the switch asks the browser alone (`pwa.ts:118`, `usePush.ts:28`), so
  that it says on when the silent renewal after signing in has failed, though the server
  has no row for this user, and the property excuses that (`doubt`), and a sign-in while
  something of an earlier session is still under way. It claims the rest: turning on and
  off, by one user after the other, over failures and lost answers of both.
- `NoNoticesAfterLogout`, `OptOutKept`: a renewal under way while the switch is turned off
  or the user leaves, and a subscription that can neither be deleted on the server nor
  ended in the browser.
- `BulkIsFresh`: triage reads in separate statements, so that each ground of a decision
  held at some moment after the manager confirmed, but they need not have held together.
- `BadgeCleared`: `markApplicationsSeenNow` notes the browser's clock, and `created_at` is
  the server's. Nothing that arrived before the noted time is counted; what had arrived
  by then is not counted either unless the browser's clock was behind. When it is ahead,
  new applications are missed for as long, which the property does not claim to exclude.

### Why these properties say something

Every property has a mutant in `PROJECT.json`: one definition changed the way a likely
mistake would change the code, for which TLC finds the property violated under the same
configuration. The mutated definitions stand before the originals in the modules,
marked "Mutant".

## 4. What is proved

| module | theorems | for every |
|---|---|---|
| `PlacementProofs` | TypeCorrect, Safe, HistoryHasNoGap, ContractAgrees, SeatComesFirst, OverbookingIsBounded, ApprovalIsUnanimous, InOneProtocol, NamedByOneRoute, ReferralsAreEarned | number of students, applications, rooms, protocols, members, concurrent requests |
| `PlacementProofs` | PromiseKept: every behaviour of Placement is one of Admission | as above |
| `SessionProofs` | SessionInvariant, SessionTypes, SessionsNeverFork, SessionsAreKept | number of tabs, calls, tokens |
| `ResidenceProofs` | ResidenceInvariant, ResidenceTypes, SeatsNeverRunAway, RoomsNeverInterfere, DecisionsHold | number of students, rooms, stays, requests, calls |
| `JobsProofs` | PaceHolds, YearsOneByOne, YearTypesHold, ClaimsAreHeld, AttemptsAreBounded, DocTypesHold | number of students, degrees, callers, years, documents, batch, attempts |
| `PagesProofs` | what the pages' proofs share: a behaviour is that of one page (NextStays, StepOfPage), how a call ends (CallEnds) | calls under way, rows of every page |
| `PortalProofs` | MarksAreTaken, RedirectsAreFew, PhoneIsLeftQuiet, ChoiceIsKept, SwitchIsHonest, JourneysFollow, FailureIsUndone, AgreementIsSent | notices, users, subscriptions, applications, dormitories, calls under way |
| `OfficeProofs` | BulkDecidesFresh, BadgeCounts, PlacedWhereShown, ProtocolAsShown, TurnsInOrder | rows of the queue, grounds of triage, students, dormitories, candidates, conversations, turns, calls under way |
| `DeskProofs` | PagesNeverStick, SuccessIsTold, RestIsTrue: what all pages promise together | all of these, and persons, tenants, requests, documents, images, audiences |

The assumptions are those named in the modules that declare the constants: sets are
finite where they are counted, NULL is no row, bounds are natural numbers, a degree has at
least one course, a room without restrictions admits every profile. For the pages they say that a list, an application, a conversation or a
choice that has arrived is told from one that has not, as null is told from an array in
TypeScript (the assumption beside the CONSTANTS of each page module; `PushAssumption`,
`WizardAssumption` and `RoutesAssumption` say it of users, addresses and rooms), and that
the candidates for a protocol are finitely many (`CandidatesAssumption`). TLC evaluates
them in every run.

The argument is the same each time: an inductive invariant that is stronger than the
properties, one lemma for each kind of step, and a temporal theorem that combines them.
What makes it stronger is what a request still knows of a row it read earlier:

- Placement (`Inductive`): the record of a request says what it has read; the invariant
  says how much of that can still be true, for example that a request which has claimed
  a seat is the only one that may settle that application's contract. The status of an
  application alone does not imply that its seat was claimed; that the request in between
  holds the lock does.
- Residence (`IInv`): every admitted call has one reserved place in the count of its
  room, unless another request for the room harmed it; seats are then bounded by
  counting, with the cardinality facts of the library. Who is on the way to a room still
  satisfies its restrictions and those about to be saved for it, unless the room is
  contended or outgrown.
- Session (`IInv`): tokens in flight were issued, and the parent of an issued token is
  revoked, so that a second rotation of it finds it revoked.
- Rollover (`YearInv`): there is one transaction, at the year after the last one; the
  rows it holds are approved students at or below their last course; and who is approved
  but among neither UPDATE's rows was recorded after it. `CourseKeepsPace` follows at the
  commit, where the last year and the courses move together.
- Document checks (`DocInv`): what is not in hand has an attempt to spare (`Spare`), which
  is what a loss or a requeue uses up.

- A session that is kept (`CalmInv` in `SessionProofs`): as long as nothing disturbed it,
  at most one tab changes it at a time; the stored token is in force or the tab that is
  about to replace it holds its successor; and what each tab shows and sends belongs to
  the owner of the stored token. Which of the tabs' calls may be under way together is
  most of the invariant.
- The pages: the frame is `PagesProofs` (the page that is mounted stays mounted, so that
  every step is one of that page's). Each page then has an invariant of its own which says
  of every task that is under way what its reply may still be worth when it arrives:
  - Notices: an optimistic mark that is not on the server has a call under way that will
    take it there or take it back.
  - Push: at most one task renews the subscription; a subscription delivers to nobody but
    the user who is signed in, or a task that stops it is under way, as one is when that
    user has opted out; and the switch follows.
  - Mine: of the requests for journeys only those of the list on the screen are not
    abandoned, and what they bring is computed from that list.
  - Wizard: in step 4 the contract on the screen or on its way is that of the room chosen;
    an application exists only while its submission, or the rollback, is under way or sent.
  - Queue: what triage has found so far, and what it has found nothing against, was so at
    some moment since the manager confirmed. Badge: a poll brings the arrival of each
    application, or does not know of it yet; the last one to return has compared it with
    the time of the last look.
  - Place: replies under way are for the dormitory on the screen or given up.
  - Create: what is ticked is in the list, under the filter it was ticked in, and a
    creation under way was sent what was ticked then.
  - Chat (`ChatInv`): the messages are question and answer in turn, twice as many as some
    number of turns the conversation has, and one question more while one is under way;
    the question that is answered finds the turns it was read with.
  - Forms (register, edit, room, new user, roles, house): a submission that has returned as
    carried out stands in the rows with what it was sent with, and the report follows that.
  - Lists that are read again after every change (residence, contracts, application,
    residents, users, approvals, benefit, papers, requests, protocols, desk contracts):
    either the list is as the rows are, or a reading of it is under way, or the mutation
    whose return starts one is (`Rereading`), or somebody else changed the rows (`stale`).
    What is on its way to the page is as new as the rows, or the ghost says otherwise.
  - Review, protocol: what was decided here stays decided, and what is gone stays gone.
  - Broadcast: one call at a time, counted or about to be. Access: one save at a time, and
    what was read or saved last is what there is.
  - Template: the editor has a sheet, and the one that text goes to is among its sheets,
    after any insertion and deletion.
- All pages (`MountedInv` in `DeskProofs`): the page that is mounted has its own invariant,
  and that is enough for `NeverStuck`, `SuccessIsTrue` and `RestAgrees`; a lemma per page
  (`NoticesRest`, ..., `TemplateRest`) says what the invariant means when nothing is under
  way.

Two steps of that work changed a model: in `Push.SaveReturns` two cases of a reply
overlapped, and the proof needed them apart; and `Assistant.HandleDeletePage` takes a
sheet away at its place, where the code filters by key (keys are distinct), because the
prover has no facts about SelectSeq.

Only model-checked: liveness (HookServesAll, OverdueReachesManager, CallsSettle,
BootstrapEnds, YearsCatchUp, EveryUploadAnswered), which needs ENABLED and fairness. Every
safety property that a passing run checks is also a theorem.

### What the theorems say of the code

- The overbooking of a room by check-then-insert is real but bounded: by fewer than the
  calls that can be under way.
- "Must never strand the student" (`room_service.go:390`) holds of TransferResident unless
  another request for the same room comes in between, the student's profile changes under
  way, or the process stops.
- A room admits those who live in it only as long as their profiles stay as they are: the
  rollover of July 30 (`academic_year_repo.go:82`) asks no room.
- An exit that is approved after a transfer closes the old stay, finds none
  (ErrNotFound is ignored) and leaves the student in the new room: the properties allow
  exactly that case.
- A document is sent to the model as often as `documentCheckMaxAttempts` allows and once
  more for each claim that was lost; nothing limits these.
- A student recorded between the two UPDATEs of a rollover may miss or gain that one year,
  and never more.

## 5. What is not modelled

Backend:

- data retention: it deletes by age, and the models have no age;
- the reminder before a deadline (`RemindUpcomingDeadlines`), which only sends notices; that
  it lists, sends and marks in three steps, so that two runs remind twice, is known;
- the connection pool: handlers that hold a connection ask for a second one, so that as
  many of them as there are connections would wait for each other. It depends on numbers
  that the code does not limit;
- the rule that there is one administrator, statistics, rendering of documents, the score of
  triage, HTTP parsing and middleware.

Frontend: pages that show what one call returns (HomePage, MyReferral, MyCertificate,
Dormitories, DormitoryInfo, Profile, Feedback, DashboardPage, CampaignProgress,
DormitoryListPage, DormitoryDetailPage, ContractDetailPage, StaffProfilePage, ResidentsPage,
CommitteeProtocolListPage), pages that repeat a modelled shape (StudentRegisterFormPage, the
templates of referrals, contracts and petitions), the map picker, translations and styles.

Known behaviour that the properties exclude, because the code gives no guarantee there:

- EditProfilePage swallows a failed load (`EditProfilePage.tsx:52`) and then saves blanks over
  what was stored; text typed while it saves is not stored;
- a late reply may bring a deleted notice back, overwrite typed fields of a dormitory
  (`DormitoryFormPage.tsx:82`) or notes that are being edited, or hide a request just made;
- creating again after a lost answer is refused (rooms), or made twice (documents,
  broadcasts);
- the wizard takes its application back when a later call fails; when that fails too, or the
  answer to the creation is lost, the application stays;
- a bulk decision triages once and then decides one after the other;
- the badge with a browser clock that is ahead of the server's or behind it;
- a push subscription that is being resumed while the user leaves, or that could not be;
- two tabs that refresh at the same moment may lose the session;
- a profile form writes the course that it loaded, so that saving it after July 30 undoes
  the year; `CourseKeepsPace` counts from the last record;
- the comment on `DocumentCheckService.Enabled` says that an admin may turn the checks off;
  only the API key decides.
