------------------------------- MODULE Routes -------------------------------
(***************************************************************************)
(* The routes of App: who sees which pages, and where those who do not are *)
(* sent (ProtectedRoute, RoleBasedRedirect).                               *)
(***************************************************************************)
EXTENDS Screen

\* The addresses, by the guards in front of them.
Addresses == {"login", "verify", "home", "profile", "dashboard", "votes",
              "manage", "administer", "unknown"}
Users == {u \in [role : {"student", "user", "admin"}, manager : BOOLEAN, member : BOOLEAN] :
            u.role = "student" => ~u.manager /\ ~u.member}
\* Null is neither an address nor somebody who is signed in.
ASSUME RoutesAssumption == None \notin Addresses \cup Users

CanManage(u) == u.role = "admin" \/ (u.role = "user" /\ u.manager)

RoutesInit ==
  /\ page = [at |-> "routes", path |-> "unknown", from |-> None, user |-> None, hops |-> 0]
  /\ server = None /\ tasks = {} /\ stale = FALSE

\* ProtectedRoute: where somebody else than it allows is sent, None for nowhere.
Guard(allowedRoles, allowed, u) ==
  CASE u = None -> "login"
    [] u # None /\ u.role \notin allowedRoles -> "profile"
    [] u # None /\ u.role \in allowedRoles /\ u \notin allowed -> "dashboard"
    [] OTHER -> None
Managers == {u \in Users : CanManage(u)}
Voters == Managers \cup {u \in Users : u.member}
RoleBasedRedirect(u) == IF u # None /\ u.role # "student" THEN "dashboard" ELSE "home"

\* Mutant: the dashboard moves behind the guard of the managers.
RedirectMutant(path, u) ==
  LET everyone == {"student", "user", "admin"}
  IN CASE path \in {"login", "verify"} -> None
       [] path = "unknown" -> RoleBasedRedirect(u)
       [] path \in {"home", "profile"} -> Guard(everyone, Users, u)
       [] path = "votes" -> Guard({"admin", "user"}, Voters, u)
       [] path \in {"dashboard", "manage"} -> Guard({"admin", "user"}, Managers, u)
       [] path = "administer" -> Guard({"admin"}, Users, u)
\* The guards on the way to a page, the outer one first.
Redirect(path, u) ==
  LET everyone == {"student", "user", "admin"}
      staff == Guard({"admin", "user"}, Users, u)
      Inner(g) == IF staff # None THEN staff ELSE g
  IN CASE path \in {"login", "verify"} -> None
       [] path = "unknown" -> RoleBasedRedirect(u)
       [] path \in {"home", "profile"} -> Guard(everyone, Users, u)
       [] path = "dashboard" -> staff
       [] path = "votes" -> Inner(Guard({"admin", "user"}, Voters, u))
       [] path = "manage" -> Inner(Guard({"admin", "user"}, Managers, u))
       [] path = "administer" -> Inner(Guard({"admin"}, Users, u))

Rendered == Redirect(page.path, page.user) = None

FollowRedirect ==
  /\ ~Rendered
  /\ page' = [page EXCEPT !.hops = @ + 1,
       !.path = Redirect(page.path, page.user),
       !.from = IF page.user = None /\ Redirect(page.path, page.user) = "login"
                  THEN page.path ELSE @]
  /\ UNCHANGED <<tasks, server, stale>>

Visit(path) ==
  /\ Rendered
  /\ page' = [page EXCEPT !.path = path, !.from = None, !.hops = 0]
  /\ UNCHANGED <<tasks, server, stale>>

\* LoginPage goes back to where the visitor was turned away.
LogIn(u) ==
  /\ page.path = "login"
  /\ page' = [page EXCEPT !.user = u, !.hops = 0,
                !.path = IF page.from = None THEN "unknown" ELSE page.from]
  /\ UNCHANGED <<tasks, server, stale>>

\* The session ends, or the bootstrap brings other positions, while a page is
\* shown; a student stays one.
UserReplaced(u) ==
  /\ Rendered /\ page.user # None
  /\ u # None => u.role = page.user.role
  /\ page' = [page EXCEPT !.user = u, !.hops = 0]
  /\ UNCHANGED <<tasks, server, stale>>

RoutesNext ==
  \/ FollowRedirect
  \/ \E path \in Addresses : Visit(path)
  \/ \E u \in Users : LogIn(u) \/ UserReplaced(u)
  \/ UserReplaced(None)

\* Every address ends at a page: whoever opens it, and whatever they lost in
\* the meantime, is sent on at most twice; no two guards send anybody back and
\* forth (ProtectedRoute inside ProtectedRoute, RoleBasedRedirect behind "*").
RedirectsEnd == page.at = "routes" => page.hops <= 2
=============================================================================
