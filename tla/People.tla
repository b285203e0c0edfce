------------------------------- MODULE People -------------------------------
(***************************************************************************)
(* The accounts in the office: UserListPage, RoleAssignPage,               *)
(* PendingStudentsPage and UserRegisterFormPage.                           *)
(***************************************************************************)
EXTENDS Screen

CONSTANT Persons

\* A list that has been read is told from one that has not.
ASSUME PersonsAssumption == \A s \in SUBSET Persons : s # None

------------------------------------------------------------------------------
\* UserListPage; server.secret: the password an account was last given.

UsersInit ==
  /\ page = [at |-> "users", list |-> None, error |-> FALSE, delete |-> None,
             deleting |-> FALSE, deleteError |-> FALSE, who |-> None, typed |-> None,
             saving |-> FALSE, passwordError |-> FALSE, changed |-> None]
  /\ server = [there |-> Persons, secret |-> [u \in Persons |-> "first"]]
  /\ tasks = {Task("load", 1, None)} /\ stale = FALSE

Dialog == page.delete # None \/ page.who # None

UsersLoadReturns(t) ==
  /\ t.fn = "load" /\ t.wire # "sent" /\ End(t)
  /\ page' = IF t.wire = "ok" THEN [page EXCEPT !.list = t.reply]
             ELSE [page EXCEPT !.error = TRUE]
  /\ UNCHANGED <<server, stale>>

AskDeleteUser(u) ==
  /\ ~Dialog /\ page.list # None /\ u \in page.list
  /\ page' = [page EXCEPT !.delete = u]
  /\ UNCHANGED <<tasks, server, stale>>
CancelDeleteUser ==
  /\ page.delete # None /\ ~page.deleting /\ page' = [page EXCEPT !.delete = None]
  /\ UNCHANGED <<tasks, server, stale>>
HandleDeleteUser ==
  /\ page.delete # None /\ ~page.deleting /\ MayTap
  /\ page' = [page EXCEPT !.deleting = TRUE, !.deleteError = FALSE]
  /\ Start(New("delete", page.delete))
  /\ UNCHANGED <<server, stale>>
DeleteUserReturns(t) ==
  /\ t.fn = "delete" /\ t.wire # "sent"
  /\ page' = [page EXCEPT !.deleting = FALSE, !.deleteError = t.wire = "failed",
                          !.delete = IF t.wire = "ok" THEN None ELSE @]
  /\ IF t.wire = "ok" THEN GoOn(t, New("load", None)) ELSE End(t)
  /\ UNCHANGED <<server, stale>>

OpenPasswordDialog(u) ==
  /\ ~Dialog /\ page.list # None /\ u \in page.list
  /\ page' = [page EXCEPT !.who = u, !.typed = None, !.passwordError = FALSE]
  /\ UNCHANGED <<tasks, server, stale>>
ClosePasswordDialog ==
  /\ page.who # None /\ ~page.saving
  /\ page' = [page EXCEPT !.who = None, !.typed = None, !.passwordError = FALSE]
  /\ UNCHANGED <<tasks, server, stale>>
\* The field stays open while the password is saved.
TypePassword(v) ==
  /\ page.who # None /\ page.typed # v /\ page' = [page EXCEPT !.typed = v]
  /\ UNCHANGED <<tasks, server, stale>>
HandleSetPassword ==
  /\ page.who # None /\ page.typed # None /\ ~page.saving /\ MayTap
  /\ page' = [page EXCEPT !.saving = TRUE, !.passwordError = FALSE,
                          !.changed = None]
  /\ Start(New("password", [who |-> page.who, new |-> page.typed]))
  /\ UNCHANGED <<server, stale>>
PasswordReturns(t) ==
  /\ t.fn = "password" /\ t.wire # "sent" /\ End(t)
  /\ page' = IF t.wire = "failed" THEN [page EXCEPT !.saving = FALSE, !.passwordError = TRUE]
             ELSE [page EXCEPT !.saving = FALSE, !.who = None, !.typed = None,
                               !.changed = t.arg]
  /\ UNCHANGED <<server, stale>>

\* An account that other rows name cannot be deleted.
ServeUsers(t) ==
  \/ Awaiting(t, {"load"}) /\ Serve(t, TRUE, server, server.there)
  \/ /\ Awaiting(t, {"delete"})
     /\ Serve(t, t.arg \in server.there, [server EXCEPT !.there = @ \ {t.arg}], None)
  \/ /\ Awaiting(t, {"password"})
     /\ Serve(t, t.arg.who \in server.there,
              [server EXCEPT !.secret[t.arg.who] = t.arg.new], None)

UsersNext ==
  \/ \E u \in Persons : AskDeleteUser(u) \/ OpenPasswordDialog(u)
  \/ CancelDeleteUser \/ HandleDeleteUser \/ ClosePasswordDialog \/ HandleSetPassword
  \/ \E v \in {"second", "third"} : TypePassword(v)
  \/ \E t \in tasks : \/ ServeUsers(t) \/ UsersLoadReturns(t) \/ DeleteUserReturns(t)
                      \/ PasswordReturns(t)

UsersBusy == page.deleting \/ page.saving \/ (page.list = None /\ ~page.error)
UsersAgree == page.list # None /\ ~page.error => page.list = server.there
\* The dialog closes by itself only on the password the account has now.
UsersDone ==
  page.changed # None /\ ~stale => server.secret[page.changed.who] = page.changed.new

------------------------------------------------------------------------------
\* RoleAssignPage

Positions == [manager : BOOLEAN, member : BOOLEAN, chair : BOOLEAN]
ASSUME PositionsAssumption == None \notin Positions
Elected == {p \in Positions : p.chair => p.member}

\* page.retried: an attempt to save has failed.
RolesInit ==
  /\ page = [at |-> "roles", user |-> None, form |-> None, error |-> FALSE,
             submitting |-> FALSE, retried |-> FALSE, left |-> FALSE, saved |-> None]
  /\ server \in Elected
  /\ tasks = {Task("load", 1, None)} /\ stale = FALSE

RolesLoadReturns(t) ==
  /\ t.fn = "load" /\ t.wire # "sent" /\ End(t)
  /\ page' = IF t.wire = "ok" THEN [page EXCEPT !.user = t.reply, !.form = t.reply]
             ELSE [page EXCEPT !.left = TRUE]
  /\ UNCHANGED <<server, stale>>

\* Without membership the chair is cleared and its box is disabled.
TickPosition(p) ==
  /\ ~page.left /\ page.form # None /\ p # page.form /\ p \in Elected
  /\ Cardinality({k \in {"manager", "member"} : p[k] # page.form[k]})
       + (IF p.chair # page.form.chair /\ p.member = page.form.member THEN 1 ELSE 0) = 1
  /\ p.member # page.form.member => p.chair = (p.member /\ page.form.chair)
  /\ page' = [page EXCEPT !.form = p]
  /\ UNCHANGED <<tasks, server, stale>>

\* The manager's position is sent only when it differs from what was loaded.
HandleRoleSubmit ==
  /\ ~page.left /\ page.form # None /\ ~page.submitting /\ MayTap
  /\ page' = [page EXCEPT !.submitting = TRUE, !.error = FALSE]
  /\ Start(New(IF page.form.manager # page.user.manager THEN "manager" ELSE "member",
               page.form))
  /\ UNCHANGED <<server, stale>>

RoleStep(t) ==
  /\ t.wire = "ok"
  /\ \/ t.fn = "manager" /\ GoOn(t, New("member", t.arg))
     \/ t.fn = "member" /\ t.arg.member /\ GoOn(t, New("chair", t.arg))
  /\ UNCHANGED <<page, server, stale>>

RoleSubmitReturns(t) ==
  /\ \/ t.fn \in {"manager", "member", "chair"} /\ t.wire = "failed"
     \/ t.fn = "member" /\ t.wire = "ok" /\ ~t.arg.member
     \/ t.fn = "chair" /\ t.wire = "ok"
  /\ End(t)
  /\ page' = IF t.wire = "ok" THEN [page EXCEPT !.submitting = FALSE, !.left = TRUE,
                                             !.saved = t.arg]
             ELSE [page EXCEPT !.submitting = FALSE, !.error = TRUE, !.retried = TRUE]
  /\ UNCHANGED <<server, stale>>

\* The row must not hold a chair without its membership (a CHECK of the table):
\* SetCommitteeMember, which clears the chair in a later statement, is refused.
LeavesChair(t) == server.chair /\ ~t.arg.member
ServeRoles(t) ==
  \/ Awaiting(t, {"load"}) /\ Serve(t, TRUE, server, server)
  \/ Awaiting(t, {"manager"}) /\ Serve(t, TRUE, [server EXCEPT !.manager = t.arg.manager], None)
  \/ /\ Awaiting(t, {"member"})
     /\ Serve(t, ~LeavesChair(t), [server EXCEPT !.member = t.arg.member], None)
  \/ /\ Awaiting(t, {"chair"})
     /\ Serve(t, t.arg.chair => server.member, [server EXCEPT !.chair = t.arg.chair], None)
MembershipRefused(t) ==
  /\ Awaiting(t, {"member"}) /\ LeavesChair(t)
  /\ Answered(t, "failed", "constraint") /\ UNCHANGED <<page, server, stale>>

RolesNext ==
  \/ \E p \in Elected : TickPosition(p)
  \/ HandleRoleSubmit
  \/ \E t \in tasks : \/ ServeRoles(t) \/ MembershipRefused(t) \/ RolesLoadReturns(t)
                      \/ RoleStep(t) \/ RoleSubmitReturns(t)

RolesBusy == page.submitting \/ (page.form = None /\ ~page.left)
\* The attempt that leads back has given both positions on the committee, and the
\* manager's too unless an attempt before it failed: that may have given it, and
\* the next one compares with what was loaded before both.
RolesDone ==
  page.saved # None =>
    /\ server.member = page.saved.member /\ server.chair = page.saved.chair
    /\ ~page.retried => server.manager = page.saved.manager

\* SetCommitteeMember says that "revoking membership implicitly clears the
\* chairperson flag too": then a chairperson's membership can be revoked.
ChairGoesWithMembership ==
  page.at = "roles" => ~\E t \in tasks : t.fn = "member" /\ t.reply = "constraint"

------------------------------------------------------------------------------
\* PendingStudentsPage

ApprovalsInit ==
  /\ page = [at |-> "approvals", list |-> None, error |-> FALSE, busy |-> None,
             actionError |-> FALSE]
  /\ server = [s \in Persons |-> "pending"]
  /\ tasks = {Task("load", 1, None)} /\ stale = FALSE

ApprovalsLoadReturns(t) ==
  /\ t.fn = "load" /\ t.wire # "sent" /\ End(t)
  /\ page' = IF t.wire = "ok" THEN [page EXCEPT !.list = t.reply]
             ELSE [page EXCEPT !.error = TRUE]
  /\ UNCHANGED <<server, stale>>

\* One variable names the student who waits: the buttons of the others stay open.
HandleApproval(s, to) ==
  /\ page.list # None /\ s \in page.list /\ page.busy # s /\ MayTap
  /\ page' = [page EXCEPT !.busy = s, !.actionError = FALSE]
  /\ Start(New("decide", [student |-> s, to |-> to]))
  /\ UNCHANGED <<server, stale>>

ApprovalReturns(t) ==
  /\ t.fn = "decide" /\ t.wire # "sent"
  /\ page' = [page EXCEPT !.busy = None, !.actionError = t.wire = "failed"]
  /\ IF t.wire = "ok" THEN GoOn(t, New("load", None)) ELSE End(t)
  /\ UNCHANGED <<server, stale>>

\* DecideStudentApproval takes a pending account; a rejected one is erased.
ServeApprovals(t) ==
  \/ /\ Awaiting(t, {"load"})
     /\ Serve(t, TRUE, server, {s \in Persons : server[s] = "pending"})
  \/ /\ Awaiting(t, {"decide"})
     /\ Serve(t, server[t.arg.student] = "pending",
              [server EXCEPT ![t.arg.student] = t.arg.to], None)

ApprovalsNext ==
  \/ \E s \in Persons, to \in {"approved", "erased"} : HandleApproval(s, to)
  \/ \E s \in Persons : server[s] = "pending" /\ Elsewhere([server EXCEPT ![s] = "approved"])
  \/ \E t \in tasks : ServeApprovals(t) \/ ApprovalsLoadReturns(t) \/ ApprovalReturns(t)

ApprovalsBusy == page.busy # None \/ (page.list = None /\ ~page.error)
ApprovalsAgree ==
  page.list # None /\ ~page.error => page.list = {s \in Persons : server[s] = "pending"}

------------------------------------------------------------------------------
\* UserRegisterFormPage: an account is its address; server: those there are.

NewUserInit ==
  /\ page = [at |-> "newUser", form |-> None, submitting |-> FALSE, error |-> FALSE,
             left |-> None]
  /\ server \in SUBSET Persons
  /\ tasks = {} /\ stale = FALSE

TypeAccount(u) ==
  /\ page.left = None /\ page.form # u /\ page' = [page EXCEPT !.form = u]
  /\ UNCHANGED <<tasks, server, stale>>
HandleUserSubmit ==
  /\ page.left = None /\ page.form # None /\ ~page.submitting /\ MayTap
  /\ page' = [page EXCEPT !.submitting = TRUE, !.error = FALSE]
  /\ Start(New("create", page.form))
  /\ UNCHANGED <<server, stale>>
UserSubmitReturns(t) ==
  /\ t.fn = "create" /\ t.wire # "sent" /\ End(t)
  /\ page' = [page EXCEPT !.submitting = FALSE, !.error = t.wire = "failed",
                          !.left = IF t.wire = "ok" THEN t.arg ELSE @]
  /\ UNCHANGED <<server, stale>>
ServeNewUser(t) ==
  Awaiting(t, {"create"}) /\ Serve(t, t.arg \notin server, server \cup {t.arg}, None)

NewUserNext ==
  \/ \E u \in Persons : TypeAccount(u)
  \/ HandleUserSubmit
  \/ \E t \in tasks : ServeNewUser(t) \/ UserSubmitReturns(t)
NewUserDone == page.left # None => page.left \in server
=============================================================================
