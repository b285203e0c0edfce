------------------------------ MODULE Session ------------------------------
(***************************************************************************)
(* Signing in, with several tabs of one browser.  A tab keeps its access   *)
(* token in memory (authStore); the refresh token and the cached user are  *)
(* in localStorage (tokenStorage), which all tabs share.  A refresh token  *)
(* is spent by the refresh that rotates it (AuthService.Refresh), so who   *)
(* presents which one when decides who stays signed in.                    *)
(***************************************************************************)
EXTENDS Naturals, FiniteSets, TLC

CONSTANTS Tabs, Users, Tokens, Requests, MaxInFlight, None

ASSUME SessionAssumption ==
  /\ IsFiniteSet(Tokens) /\ None \notin Tokens \cup Users
  /\ {"me", "login"} \cap Requests = {}

VARIABLES
  stored,    \* localStorage: student_house_refresh_token
  cached,    \* localStorage: student_house_user
  tab,       \* what a tab holds in memory
  exchange,  \* the /auth/refresh calls of a tab: of bootstrap, of the interceptor
  request,   \* the calls of a tab through apiClient
  leaving,   \* the logout of a tab
  owner,     \* refresh_tokens.user_id, None for a token not issued yet
  dead,      \* refresh_tokens with revoked_at set or expires_at in the past
  parent,    \* ghost: the token whose rotation issued this one
  disturbed  \* ghost: two tabs acted at once, a call was lost, or a token that a
             \* tab had to go on with outlived its time

storage == <<stored, cached>>
server == <<owner, dead, parent>>
vars == <<stored, cached, tab, exchange, request, leaving, owner, dead, parent,
          disturbed>>

Calls == Requests \cup {"me", "login"}
Callers == {"boot", "interceptor"}

\* An access token: whose it is, and whether the server still takes it.
NoAccess == [of |-> None, valid |-> FALSE]
AccessOf(u) == [of |-> u, valid |-> TRUE]

\* Mutant: clear() forgets the user and the token only.
SignedOutMutant(page) ==
  [page |-> page, user |-> None, access |-> NoAccess, authenticated |-> page = "open"]
\* authStore after clear(), on a page that may or may not be mounted yet.
SignedOut(page) ==
  [page |-> page, user |-> None, access |-> NoAccess, authenticated |-> FALSE]
SignedIn(u, access) ==
  [page |-> "open", user |-> u, access |-> access, authenticated |-> TRUE]

NoExchange == [step |-> "idle", token |-> None, got |-> None, who |-> None,
               again |-> FALSE]
Present(token, who, again) ==
  [NoExchange EXCEPT !.step = "sent", !.token = token, !.who = who, !.again = again]

NoRequest == [step |-> "idle", access |-> NoAccess, again |-> FALSE,
              who |-> None, got |-> None]

NoLeaving == [step |-> "idle", token |-> None]

TypeOK ==
  /\ stored \in Tokens \cup {None} /\ cached \in Users \cup {None}
  /\ tab \in [Tabs -> [page : {"closed", "boot", "open"}, user : Users \cup {None},
                       access : [of : Users \cup {None}, valid : BOOLEAN],
                       authenticated : BOOLEAN]]
  /\ \A t \in Tabs : tab[t].authenticated => tab[t].user # None
  /\ exchange \in [Tabs -> [Callers ->
       [step : {"idle", "sent", "checked", "granted", "denied", "failed", "waiting"},
        token : Tokens \cup {None}, got : Tokens \cup {None},
        who : Users \cup {None}, again : BOOLEAN]]]
  /\ request \in [Tabs -> [Calls ->
       [step : {"idle", "sent", "ok", "denied", "waiting"},
        access : [of : Users \cup {None}, valid : BOOLEAN], again : BOOLEAN,
        who : Users \cup {None}, got : Tokens \cup {None}]]]
  /\ leaving \in [Tabs -> [step : {"idle", "sent", "done"}, token : Tokens \cup {None}]]
  /\ owner \in [Tokens -> Users \cup {None}] /\ dead \subseteq Tokens
  /\ parent \in [Tokens -> Tokens \cup {None}] /\ disturbed \in BOOLEAN

Init ==
  /\ stored = None /\ cached = None
  /\ tab = [t \in Tabs |-> SignedOut("closed")]
  /\ exchange = [t \in Tabs |-> [c \in Callers |-> NoExchange]]
  /\ request = [t \in Tabs |-> [k \in Calls |-> NoRequest]]
  /\ leaving = [t \in Tabs |-> NoLeaving]
  /\ owner = [k \in Tokens |-> None] /\ dead = {}
  /\ parent = [k \in Tokens |-> None] /\ disturbed = FALSE

\* The tab is changing its session, or has a call in flight that may.
Busy(t) ==
  \/ \E c \in Callers : exchange[t][c].step # "idle"
  \/ \E k \in {"me", "login"} : request[t][k].step # "idle"
  \/ leaving[t].step # "idle"
\* A bound: how many calls one step of a person or a page may add to.
InFlight ==
  {w \in Tabs \X Callers : exchange[w[1]][w[2]].step # "idle"}
  \cup {w \in Tabs \X Calls : request[w[1]][w[2]].step # "idle"}
  \cup {<<t, "leaving">> : t \in {o \in Tabs : leaving[o].step # "idle"}}
MayCall == Cardinality(InFlight) < MaxInFlight
Alone(t) == \A o \in Tabs \ {t} : ~Busy(o)
Unissued == {k \in Tokens : owner[k] = None}
Fresh == CHOOSE k \in Unissued : TRUE

------------------------------------------------------------------------------
\* The page is loaded (useAuthBootstrap).
Open(t) ==
  /\ tab[t].page = "closed" /\ MayCall
  /\ IF stored = None \/ cached = None
       THEN /\ tab' = [tab EXCEPT ![t] = SignedOut("open")]
            /\ UNCHANGED <<exchange, disturbed>>
       ELSE /\ tab' = [tab EXCEPT ![t] = SignedOut("boot")]
            /\ exchange' = [exchange EXCEPT ![t]["boot"] =
                              Present(stored, cached, FALSE)]
            /\ disturbed' = (disturbed \/ ~Alone(t))
  /\ UNCHANGED <<storage, request, leaving, server>>

\* A reload, or the tab is closed: what it held in memory is gone, and the
\* replies to its calls with it.
Close(t) ==
  /\ tab[t].page # "closed"
  /\ tab' = [tab EXCEPT ![t] = SignedOut("closed")]
  /\ exchange' = [exchange EXCEPT ![t] = [c \in Callers |-> NoExchange]]
  /\ request' = [request EXCEPT ![t] = [k \in Calls |-> NoRequest]]
  /\ leaving' = [leaving EXCEPT ![t] = NoLeaving]
  /\ disturbed' = (disturbed \/ Busy(t))
  /\ UNCHANGED <<storage, server>>

\* The server: the row is read first, and refused when it is revoked or its
\* time is over; then it is revoked and followed by a new one.
ReadToken(t, c) ==
  LET k == exchange[t][c].token IN
  /\ exchange[t][c].step = "sent"
  /\ exchange' = [exchange EXCEPT ![t][c].step =
                    IF k \in dead THEN "denied" ELSE "checked"]
  /\ UNCHANGED <<storage, tab, request, leaving, server, disturbed>>

\* Mutant: the row is revoked whether or not it still is in force.
RotateMutant(t, c) ==
  LET k == exchange[t][c].token IN
  /\ exchange[t][c].step = "checked"
  /\ dead' = dead \cup {k}
  /\ Unissued # {}
  /\ owner' = [owner EXCEPT ![Fresh] = owner[k]]
  /\ parent' = [parent EXCEPT ![Fresh] = k]
  /\ exchange' = [exchange EXCEPT ![t][c].step = "granted", ![t][c].got = Fresh]
  /\ UNCHANGED <<storage, tab, request, leaving, disturbed>>

Rotate(t, c) ==
  LET k == exchange[t][c].token IN
  /\ exchange[t][c].step = "checked" /\ k \notin dead
  /\ dead' = dead \cup {k}
  /\ Unissued # {}
  /\ owner' = [owner EXCEPT ![Fresh] = owner[k]]
  /\ parent' = [parent EXCEPT ![Fresh] = k]
  /\ exchange' = [exchange EXCEPT ![t][c].step = "granted", ![t][c].got = Fresh]
  /\ UNCHANGED <<storage, tab, request, leaving, disturbed>>

\* Revoke finds no row in force: ErrNotFound, which is no 401.
RotateRefused(t, c) ==
  /\ exchange[t][c].step = "checked" /\ exchange[t][c].token \in dead
  /\ exchange' = [exchange EXCEPT ![t][c].step = "failed"]
  /\ UNCHANGED <<storage, tab, request, leaving, server, disturbed>>

\* The call, or its answer, is lost; or the insert after the revocation fails.
LoseExchange(t, c) ==
  /\ exchange[t][c].step \in {"sent", "checked", "granted"}
  /\ exchange' = [exchange EXCEPT ![t][c].step = "failed"]
  /\ dead' = IF exchange[t][c].step = "checked" THEN dead \cup {exchange[t][c].token}
             ELSE dead
  /\ disturbed' = TRUE
  /\ UNCHANGED <<storage, tab, request, leaving, owner, parent>>

\* Mutant: every 401 starts a refresh of its own.
RefreshingMutant(t) == Present(stored, None, FALSE)
\* The first 401 starts the refresh, the others await the same promise.
Refreshing(t) ==
  IF exchange[t]["interceptor"].step = "idle"
    THEN Present(stored, None, FALSE) ELSE exchange[t]["interceptor"]

BootGranted(t) ==
  LET x == exchange[t]["boot"] IN
  /\ x.step = "granted"
  /\ stored' = x.got /\ cached' = x.who
  /\ tab' = [tab EXCEPT ![t] = SignedIn(x.who, AccessOf(owner[x.got]))]
  /\ request' = [request EXCEPT ![t]["me"] =
                   [NoRequest EXCEPT !.step = "sent", !.access = AccessOf(owner[x.got])]]
  /\ exchange' = [exchange EXCEPT ![t]["boot"] = NoExchange]
  /\ UNCHANGED <<leaving, server, disturbed>>

\* Bootstrap refreshes through apiClient, so that its own 401 is intercepted too.
BootDenied(t) ==
  /\ exchange[t]["boot"].step = "denied" /\ ~exchange[t]["boot"].again
  /\ stored # None
  /\ exchange' = [exchange EXCEPT ![t]["boot"].step = "waiting",
                                  ![t]["interceptor"] = Refreshing(t)]
  /\ disturbed' = (disturbed \/ ~Alone(t))
  /\ UNCHANGED <<storage, tab, request, leaving, server>>

\* Mutant: the page is ready only when bootstrap succeeds.
BootGivesUpMutant(t) ==
  LET x == exchange[t]["boot"] IN
  /\ \/ x.step = "failed"
     \/ x.step = "denied" /\ (x.again \/ stored = None)
  /\ stored' = None /\ cached' = None
  /\ exchange' = [exchange EXCEPT ![t]["boot"] = NoExchange]
  /\ UNCHANGED <<tab, request, leaving, server, disturbed>>

BootGivesUp(t) ==
  LET x == exchange[t]["boot"] IN
  /\ \/ x.step = "failed"
     \/ x.step = "denied" /\ (x.again \/ stored = None)
  /\ stored' = None /\ cached' = None
  /\ tab' = [tab EXCEPT ![t].page = "open"]
  /\ exchange' = [exchange EXCEPT ![t]["boot"] = NoExchange]
  /\ UNCHANGED <<request, leaving, server, disturbed>>

------------------------------------------------------------------------------
\* A page, or its poller, calls the API with the access token the tab holds.
Send(t, k) ==
  /\ k \in Requests /\ tab[t].authenticated /\ request[t][k].step = "idle" /\ MayCall
  /\ request' = [request EXCEPT ![t][k] =
                   [NoRequest EXCEPT !.step = "sent", !.access = tab[t].access]]
  /\ UNCHANGED <<storage, tab, exchange, leaving, server, disturbed>>

Login(t, u) ==
  /\ tab[t].page = "open" /\ ~tab[t].authenticated
  /\ request[t]["login"].step = "idle" /\ MayCall
  /\ request' = [request EXCEPT ![t]["login"] =
                   [NoRequest EXCEPT !.step = "sent", !.who = u]]
  /\ disturbed' = (disturbed \/ ~Alone(t) \/ Busy(t)
                   \/ \E o \in Tabs \ {t} : tab[o].authenticated)
  /\ UNCHANGED <<storage, tab, exchange, leaving, server>>

Answer(t, k) ==
  LET r == request[t][k] IN
  /\ k # "login" /\ r.step = "sent"
  /\ request' = [request EXCEPT ![t][k] =
       IF ~r.access.valid THEN [@ EXCEPT !.step = "denied"]
       ELSE IF k = "me" THEN [@ EXCEPT !.step = "ok", !.who = r.access.of]
       ELSE NoRequest]
  /\ UNCHANGED <<storage, tab, exchange, leaving, server, disturbed>>

AnswerLogin(t) ==
  /\ request[t]["login"].step = "sent"
  /\ Unissued # {}
  /\ owner' = [owner EXCEPT ![Fresh] = request[t]["login"].who]
  /\ request' = [request EXCEPT ![t]["login"].step = "ok", ![t]["login"].got = Fresh]
  /\ UNCHANGED <<storage, tab, exchange, leaving, dead, parent, disturbed>>

\* A wrong password is a 401 as well.
DenyLogin(t) ==
  /\ request[t]["login"].step = "sent"
  /\ request' = [request EXCEPT ![t]["login"].step = "denied"]
  /\ UNCHANGED <<storage, tab, exchange, leaving, server, disturbed>>

LoseRequest(t, k) ==
  /\ request[t][k].step = "sent"
  /\ request' = [request EXCEPT ![t][k] = NoRequest]
  /\ UNCHANGED <<storage, tab, exchange, leaving, server, disturbed>>

Arrive(t, k) ==
  LET r == request[t][k] IN
  /\ r.step = "ok"
  /\ request' = [request EXCEPT ![t][k] = NoRequest]
  /\ CASE k = "login" ->
            /\ stored' = r.got /\ cached' = r.who
            /\ tab' = [tab EXCEPT ![t] = SignedIn(r.who, AccessOf(r.who))]
       [] k = "me" ->
            /\ cached' = r.who /\ tab' = [tab EXCEPT ![t].user = r.who]
            /\ UNCHANGED stored
       [] OTHER -> UNCHANGED <<storage, tab>>
  /\ UNCHANGED <<exchange, leaving, server, disturbed>>

\* 401: refresh and try once more, unless that was the second time or there is
\* no refresh token.
Denied(t, k) ==
  /\ request[t][k].step = "denied"
  /\ IF request[t][k].again \/ stored = None
       THEN /\ request' = [request EXCEPT ![t][k] = NoRequest]
            /\ UNCHANGED <<exchange, disturbed>>
       ELSE /\ request' = [request EXCEPT ![t][k].step = "waiting",
                                          ![t][k].again = TRUE]
            /\ exchange' = [exchange EXCEPT ![t]["interceptor"] = Refreshing(t)]
            /\ disturbed' = (disturbed \/ ~Alone(t)
                             \/ request[t]["login"].step # "idle")
  /\ UNCHANGED <<storage, tab, leaving, server>>

\* Everybody who awaits the promise gets the new token.
RefreshArrives(t) ==
  LET x == exchange[t]["interceptor"] IN
  LET access == AccessOf(owner[x.got]) IN
  /\ x.step = "granted"
  /\ stored' = x.got /\ UNCHANGED cached
  /\ tab' = [tab EXCEPT ![t].access = access]
  /\ request' = [request EXCEPT ![t] = [k \in Calls |->
                   IF @[k].step = "waiting"
                     THEN [@[k] EXCEPT !.step = "sent", !.access = access]
                     ELSE @[k]]]
  /\ exchange' = [exchange EXCEPT
       ![t]["interceptor"] = NoExchange,
       ![t]["boot"] = IF @.step = "waiting" THEN Present(@.token, @.who, TRUE) ELSE @]
  /\ UNCHANGED <<leaving, server, disturbed>>

\* Mutant: a refresh that fails leaves those who await it waiting.
RefreshFailsMutant(t) ==
  /\ exchange[t]["interceptor"].step \in {"denied", "failed"}
  /\ LET booting == exchange[t]["boot"].step = "waiting" IN
     /\ tab' = [tab EXCEPT ![t] = SignedOut("open")]
     /\ cached' = IF booting THEN None ELSE cached
  /\ stored' = None
  /\ exchange' = [exchange EXCEPT ![t]["interceptor"] = NoExchange,
                    ![t]["boot"] = IF @.step = "waiting" THEN NoExchange ELSE @]
  /\ UNCHANGED <<request, leaving, server, disturbed>>

\* The session is over in this tab; the cached user stays.
RefreshFails(t) ==
  /\ exchange[t]["interceptor"].step \in {"denied", "failed"}
  /\ LET booting == exchange[t]["boot"].step = "waiting" IN
     /\ tab' = [tab EXCEPT ![t] = SignedOut("open")]
     /\ cached' = IF booting THEN None ELSE cached
  /\ stored' = None
  /\ request' = [request EXCEPT ![t] = [k \in Calls |->
                   IF @[k].step = "waiting" THEN NoRequest ELSE @[k]]]
  /\ exchange' = [exchange EXCEPT ![t]["interceptor"] = NoExchange,
                    ![t]["boot"] = IF @.step = "waiting" THEN NoExchange ELSE @]
  /\ UNCHANGED <<leaving, server, disturbed>>

\* The lifetime of the access token ends, for the calls that carry it too.
Expire(t) ==
  /\ tab[t].access.valid
  /\ tab' = [tab EXCEPT ![t].access.valid = FALSE]
  /\ request' = [request EXCEPT ![t] = [k \in Calls |->
                   [@[k] EXCEPT !.access.valid = FALSE]]]
  /\ UNCHANGED <<storage, exchange, leaving, server, disturbed>>

\* A refresh token outlives its time (REFRESH_TOKEN_TTL_DAYS) without having
\* been rotated: while it is stored or on its way to a tab, or while a call
\* presents it that the server has not read.  A call that was read in time goes
\* on as if the time were not over, since Revoke does not look at it again.
Carried(k) ==
  \/ stored = k
  \/ \E t \in Tabs, c \in Callers :
       exchange[t][c].step = "granted" /\ exchange[t][c].got = k
  \/ \E t \in Tabs : request[t]["login"].step = "ok" /\ request[t]["login"].got = k
Presenting(step, k) ==
  \E t \in Tabs, c \in Callers :
    exchange[t][c].step = step /\ exchange[t][c].token = k
Lapse(k) ==
  /\ owner[k] # None /\ k \notin dead
  /\ Carried(k) \/ Presenting("sent", k)
  /\ ~Presenting("checked", k)
  /\ dead' = dead \cup {k}
  /\ disturbed' = (disturbed \/ Carried(k))
  /\ UNCHANGED <<storage, tab, exchange, request, leaving, owner, parent>>

------------------------------------------------------------------------------
\* The refresh token is read first; the push subscription is taken down before
\* it is sent.
Logout(t) ==
  /\ tab[t].authenticated /\ leaving[t].step = "idle" /\ MayCall
  /\ leaving' = [leaving EXCEPT ![t] =
       [step |-> IF stored = None THEN "done" ELSE "sent", token |-> stored]]
  /\ disturbed' = (disturbed \/ ~Alone(t)
                   \/ \E o \in Tabs \ {t} : tab[o].authenticated)
  /\ UNCHANGED <<storage, tab, exchange, request, server>>

RevokeOnLogout(t) ==
  /\ leaving[t].step = "sent"
  /\ dead' = dead \cup {leaving[t].token}
  /\ leaving' = [leaving EXCEPT ![t].step = "done"]
  /\ UNCHANGED <<storage, tab, exchange, request, owner, parent, disturbed>>

LoseLogout(t) ==
  /\ leaving[t].step = "sent"
  /\ leaving' = [leaving EXCEPT ![t].step = "done"]
  /\ UNCHANGED <<storage, tab, exchange, request, server, disturbed>>

LogoutEnds(t) ==
  /\ leaving[t].step = "done"
  /\ leaving' = [leaving EXCEPT ![t] = NoLeaving]
  /\ stored' = None /\ cached' = None
  /\ tab' = [tab EXCEPT ![t] = SignedOut("open")]
  /\ UNCHANGED <<exchange, request, server, disturbed>>

------------------------------------------------------------------------------
Next ==
  \/ \E k \in Tokens : Lapse(k)
  \/ \E t \in Tabs :
      \/ Open(t) \/ Close(t) \/ Expire(t)
      \/ \E c \in Callers :
           ReadToken(t, c) \/ Rotate(t, c) \/ RotateRefused(t, c) \/ LoseExchange(t, c)
      \/ BootGranted(t) \/ BootDenied(t) \/ BootGivesUp(t)
      \/ RefreshArrives(t) \/ RefreshFails(t)
      \/ \E u \in Users : Login(t, u)
      \/ AnswerLogin(t) \/ DenyLogin(t)
      \/ \E k \in Calls : \/ Send(t, k) \/ Answer(t, k) \/ LoseRequest(t, k)
                          \/ Arrive(t, k) \/ Denied(t, k)
      \/ Logout(t) \/ RevokeOnLogout(t) \/ LoseLogout(t) \/ LogoutEnds(t)

\* Every call is answered or lost, and every reply is handled.
Replies(t) ==
  /\ \A c \in Callers :
       WF_vars(ReadToken(t, c) \/ Rotate(t, c) \/ RotateRefused(t, c)
               \/ LoseExchange(t, c))
  /\ WF_vars(BootGranted(t) \/ BootDenied(t) \/ BootGivesUp(t))
  /\ WF_vars(RefreshArrives(t) \/ RefreshFails(t))
  /\ \A k \in Calls : WF_vars(Answer(t, k) \/ LoseRequest(t, k)
                              \/ Arrive(t, k) \/ Denied(t, k))

Spec == Init /\ [][Next]_vars /\ \A t \in Tabs : Replies(t)

------------------------------------------------------------------------------
\* A refresh token is rotated once, also when two tabs present it at the same
\* time and both find it in force: no session forks (Revoke, Refresh).
RotatedOnce ==
  \A a, b \in Tokens : parent[a] # None /\ parent[a] = parent[b] => a = b

\* What may cost somebody the session is a lost call, a tab closed in the middle
\* of one, two tabs that change it at the same time, or a refresh token that
\* outlives its time while it is stored or on its way (Refresh refuses it).
\* Otherwise a tab that is signed in can always get its next access token, and
\* it is that of the user it shows, however many of its calls were refused at
\* once.
SessionKept ==
  (~disturbed /\ \A t \in Tabs : ~Busy(t)) =>
    \A t \in Tabs : tab[t].authenticated =>
      /\ stored # None /\ stored \notin dead
      /\ owner[stored] = tab[t].user /\ tab[t].access.of = tab[t].user

\* A call that was refused is not refused for ever: it is tried once more at the
\* most, then its caller has an answer (the response interceptor).
CallsSettle ==
  \A t \in Tabs, k \in Requests : request[t][k].step # "idle" ~> request[t][k].step = "idle"

\* The page does not stay at "loading": bootstrap ends, with a session or
\* without one, also when its own refresh is intercepted (useAuthBootstrap).
BootstrapEnds ==
  \A t \in Tabs : tab[t].page = "boot" ~> tab[t].page # "boot"
=============================================================================
