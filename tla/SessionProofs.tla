--------------------------- MODULE SessionProofs ---------------------------
(***************************************************************************)
(* What holds of signing in for any number of tabs, users and tokens: the  *)
(* types, that a refresh token is rotated once, and who stays signed in.   *)
(***************************************************************************)
EXTENDS Session, TLAPS

Accesses == [of : Users \cup {None}, valid : BOOLEAN]
TabStates == [page : {"closed", "boot", "open"}, user : Users \cup {None},
              access : Accesses, authenticated : BOOLEAN]
Exchanges ==
  [step : {"idle", "sent", "checked", "granted", "denied", "failed", "waiting"},
   token : Tokens \cup {None}, got : Tokens \cup {None},
   who : Users \cup {None}, again : BOOLEAN]
RequestStates ==
  [step : {"idle", "sent", "ok", "denied", "waiting"}, access : Accesses,
   again : BOOLEAN, who : Users \cup {None}, got : Tokens \cup {None}]
Leavings ==
  {l \in [step : {"idle", "sent", "done"}, token : Tokens \cup {None}] :
     l.step = "sent" => l.token \in Tokens}

\* TypeOK, but for what relates a tab's user to its being authenticated.
Types ==
  /\ stored \in Tokens \cup {None} /\ cached \in Users \cup {None}
  /\ tab \in [Tabs -> TabStates]
  /\ exchange \in [Tabs -> [Callers -> Exchanges]]
  /\ request \in [Tabs -> [Calls -> RequestStates]]
  /\ leaving \in [Tabs -> Leavings]
  /\ owner \in [Tokens -> Users \cup {None}] /\ dead \subseteq Tokens
  /\ parent \in [Tokens -> Tokens \cup {None}] /\ disturbed \in BOOLEAN

\* A token that anybody holds or presents was issued to somebody.
Issued(k) == k \in Tokens /\ owner[k] # None
Presented(x) == x.step # "idle" => Issued(x.token)
Granted(x) == x.step = "granted" => Issued(x.got)
TokensIssued ==
  /\ stored # None => Issued(stored)
  /\ \A t \in Tabs, c \in Callers : Presented(exchange[t][c]) /\ Granted(exchange[t][c])
  /\ \A t \in Tabs : request[t]["login"].step = "ok" => Issued(request[t]["login"].got)

\* An access token in force, a bootstrap, a login and an answer of /auth/me are
\* somebody's, and so is a tab that shows it is signed in.
Named(access) == access.valid => access.of # None
UsersKnown ==
  /\ \A t \in Tabs : /\ tab[t].authenticated => tab[t].user # None
                     /\ Named(tab[t].access)
                     /\ exchange[t]["boot"].step # "idle" => exchange[t]["boot"].who # None
                     /\ request[t]["login"].step # "idle" => request[t]["login"].who # None
                     /\ request[t]["me"].step = "ok" => request[t]["me"].who # None
  /\ \A t \in Tabs, k \in Calls : Named(request[t][k].access)

\* A token that another one was rotated from is revoked.
ParentsDead == \A a \in Tokens : parent[a] # None => parent[a] \in dead /\ owner[a] # None

IInv == Types /\ TokensIssued /\ UsersKnown /\ ParentsDead /\ RotatedOnce

LEMMA NoneApart == None \notin Tokens /\ None \notin Users
  BY SessionAssumption DEF SessionAssumption

LEMMA FreshUnissued == Unissued # {} => Fresh \in Tokens /\ owner[Fresh] = None
  BY DEF Fresh, Unissued

LEMMA CallKinds ==
  /\ "boot" \in Callers /\ "interceptor" \in Callers
  /\ "me" \in Calls /\ "login" \in Calls
  BY DEF Callers, Calls

\* The states a call starts from, and those of a tab without a session.
LEMMA Idle ==
  /\ NoExchange \in Exchanges /\ NoExchange.step = "idle"
  /\ NoRequest \in RequestStates /\ NoRequest.step = "idle" /\ ~NoRequest.access.valid
  /\ NoLeaving \in Leavings
  BY DEF NoExchange, Exchanges, NoRequest, NoAccess, RequestStates, Accesses,
         NoLeaving, Leavings

LEMMA SignedOutKnown ==
  ASSUME NEW p \in {"closed", "boot", "open"}
  PROVE  /\ SignedOut(p) \in TabStates
         /\ ~SignedOut(p).authenticated /\ ~SignedOut(p).access.valid
  BY DEF SignedOut, NoAccess, TabStates, Accesses

LEMMA InitTypes == Init => IInv
  <1> SUFFICES ASSUME Init PROVE IInv
    OBVIOUS
  <1>1. Types
    <2>1. tab \in [Tabs -> TabStates]
      BY SignedOutKnown DEF Init
    <2>2. exchange \in [Tabs -> [Callers -> Exchanges]]
      BY Idle DEF Init
    <2>3. request \in [Tabs -> [Calls -> RequestStates]]
      BY Idle DEF Init
    <2>4. leaving \in [Tabs -> Leavings]
      BY Idle DEF Init
    <2> QED BY <2>1, <2>2, <2>3, <2>4 DEF Init, Types
  <1>2. TokensIssued
    BY DEF Init, TokensIssued, Presented, Granted, NoExchange, NoRequest, Calls
  <1>3. UsersKnown
    BY CallKinds, Idle, SignedOutKnown DEF Init, UsersKnown, Named
  <1>4. ParentsDead /\ RotatedOnce
    BY DEF Init, ParentsDead, RotatedOnce
  <1> QED BY <1>1, <1>2, <1>3, <1>4 DEF IInv

LEMMA SignedInKnown ==
  ASSUME NEW u \in Users, NEW access \in Accesses
  PROVE  /\ SignedIn(u, access) \in TabStates
         /\ SignedIn(u, access).user = u /\ SignedIn(u, access).access = access
  BY DEF SignedIn, TabStates

LEMMA PresentKnown ==
  ASSUME NEW k \in Tokens, NEW w \in Users \cup {None}, NEW b \in BOOLEAN
  PROVE  /\ Present(k, w, b) \in Exchanges
         /\ Present(k, w, b).step = "sent" /\ Present(k, w, b).token = k
         /\ Present(k, w, b).who = w
  BY DEF Present, NoExchange, Exchanges

LEMMA OpenKeeps ==
  ASSUME IInv, NEW t \in Tabs, Open(t)
  PROVE  Types' /\ TokensIssued' /\ UsersKnown'
  <1> USE CallKinds
  <1>1. CASE stored = None \/ cached = None
    <2>1. /\ tab' = [tab EXCEPT ![t] = SignedOut("open")]
          /\ UNCHANGED <<storage, exchange, request, leaving, server, disturbed>>
      BY <1>1 DEF Open
    <2>2. Types'
      BY <2>1, SignedOutKnown DEF IInv, Types, storage, server
    <2>3. TokensIssued' /\ UsersKnown'
      BY <2>1, SignedOutKnown DEF IInv, Types, TokensIssued, Issued, Presented, Granted,
                                  UsersKnown, Named, storage, server
    <2> QED BY <2>2, <2>3
  <1>2. CASE ~(stored = None \/ cached = None)
    <2> DEFINE x == Present(stored, cached, FALSE)
    <2>0. stored \in Tokens /\ cached \in Users
      BY <1>2 DEF IInv, Types
    <2>1. /\ x \in Exchanges /\ x.step = "sent" /\ x.token = stored /\ x.who = cached
      BY <2>0, PresentKnown
    <2>2. /\ tab' = [tab EXCEPT ![t] = SignedOut("boot")]
          /\ exchange' = [exchange EXCEPT ![t]["boot"] = x]
          /\ disturbed' \in BOOLEAN
          /\ UNCHANGED <<storage, request, leaving, server>>
      BY <1>2, Zenon DEF Open
    <2> HIDE DEF x
    <2>3. Types'
      BY <2>1, <2>2, SignedOutKnown DEF IInv, Types, storage, server
    <2>4. TokensIssued'
      BY <2>1, <2>2, <1>2 DEF IInv, Types, TokensIssued, Issued, Presented, Granted,
                              storage, server
    <2>5. UsersKnown'
      BY <2>1, <2>2, <1>2, SignedOutKnown DEF IInv, Types, UsersKnown, Named, storage,
                                              server
    <2> QED BY <2>3, <2>4, <2>5
  <1> QED BY <1>1, <1>2

LEMMA CloseKeeps ==
  ASSUME IInv, NEW t \in Tabs, Close(t)
  PROVE  Types' /\ TokensIssued' /\ UsersKnown'
  <1> USE CallKinds, Idle, SignedOutKnown
  <1>1. Types'
    BY Zenon, SMT DEF IInv, Types, Close, storage, server
  <1>2. TokensIssued'
    BY DEF IInv, Types, TokensIssued, Issued, Presented, Granted, Close, storage, server
  <1>3. UsersKnown'
    BY DEF IInv, Types, UsersKnown, Named, Close, storage, server
  <1> QED BY <1>1, <1>2, <1>3

\* An exchange goes on, or comes to nothing.
LEMMA StepChanges ==
  ASSUME IInv, NEW t \in Tabs, NEW c \in Callers, NEW s \in {"checked", "denied", "failed"},
         exchange[t][c].step # "idle",
         exchange' = [exchange EXCEPT ![t][c].step = s],
         UNCHANGED <<storage, tab, request, owner>>
  PROVE  /\ exchange' \in [Tabs -> [Callers -> Exchanges]]
         /\ TokensIssued' /\ UsersKnown'
  <1> USE CallKinds
  <1>1. exchange' \in [Tabs -> [Callers -> Exchanges]]
    <2>1. /\ exchange \in [Tabs -> [Callers -> Exchanges]]
          /\ exchange[t][c] \in Exchanges
      BY DEF IInv, Types
    <2>2. [exchange[t][c] EXCEPT !.step = s] \in Exchanges
      BY <2>1 DEF Exchanges
    <2> QED BY <2>1, <2>2
  <1>2. TokensIssued'
    BY DEF IInv, Types, Exchanges, TokensIssued, Issued, Presented, Granted, storage
  <1>3. UsersKnown'
    BY DEF IInv, Types, Exchanges, UsersKnown, Named
  <1> QED BY <1>1, <1>2, <1>3

LEMMA ReadTokenKeeps ==
  ASSUME IInv, NEW t \in Tabs, NEW c \in Callers, ReadToken(t, c)
  PROVE  Types' /\ TokensIssued' /\ UsersKnown'
  <1>1. PICK s \in {"checked", "denied"} : exchange' = [exchange EXCEPT ![t][c].step = s]
    BY DEF ReadToken
  <1>2. /\ exchange' \in [Tabs -> [Callers -> Exchanges]]
        /\ TokensIssued' /\ UsersKnown'
    BY <1>1, StepChanges DEF ReadToken, server
  <1> QED BY <1>2 DEF IInv, Types, ReadToken, storage, server

LEMMA RotateRefusedKeeps ==
  ASSUME IInv, NEW t \in Tabs, NEW c \in Callers, RotateRefused(t, c)
  PROVE  Types' /\ TokensIssued' /\ UsersKnown'
  <1>1. /\ exchange' \in [Tabs -> [Callers -> Exchanges]]
        /\ TokensIssued' /\ UsersKnown'
    BY StepChanges DEF RotateRefused, server
  <1> QED BY <1>1 DEF IInv, Types, RotateRefused, storage, server

LEMMA LoseExchangeKeeps ==
  ASSUME IInv, NEW t \in Tabs, NEW c \in Callers, LoseExchange(t, c)
  PROVE  Types' /\ TokensIssued' /\ UsersKnown'
  <1>1. /\ exchange' \in [Tabs -> [Callers -> Exchanges]]
        /\ TokensIssued' /\ UsersKnown'
    BY StepChanges DEF LoseExchange
  <1>2. exchange[t][c].token \in Tokens
    BY DEF IInv, TokensIssued, Presented, Issued, LoseExchange
  <1>3. dead' \subseteq Tokens
    BY <1>2 DEF IInv, Types, LoseExchange
  <1> QED BY <1>1, <1>3 DEF IInv, Types, LoseExchange, storage

LEMMA RotateKeeps ==
  ASSUME IInv, NEW t \in Tabs, NEW c \in Callers, Rotate(t, c)
  PROVE  Types' /\ TokensIssued' /\ UsersKnown'
  <1> USE CallKinds
  <1>0. Fresh \in Tokens /\ Issued(exchange[t][c].token) /\ owner[Fresh] = None
    BY FreshUnissued DEF IInv, TokensIssued, Presented, Rotate
  <1>1. exchange' \in [Tabs -> [Callers -> Exchanges]]
    <2>1. /\ exchange \in [Tabs -> [Callers -> Exchanges]]
          /\ exchange[t][c] \in Exchanges
      BY DEF IInv, Types
    <2>2. [exchange[t][c] EXCEPT !.step = "granted", !.got = Fresh] \in Exchanges
      BY <1>0, <2>1 DEF Exchanges
    <2> QED BY <2>1, <2>2 DEF Rotate
  <1>4. Types'
    BY <1>0, <1>1 DEF IInv, Types, Issued, Rotate, storage, server
  <1>2. TokensIssued'
    BY <1>0 DEF IInv, Types, Exchanges, TokensIssued, Issued, Presented, Granted, Rotate,
                storage, server
  <1>3. UsersKnown'
    BY DEF IInv, Types, Exchanges, UsersKnown, Named, Rotate, storage, server
  <1> QED BY <1>4, <1>2, <1>3

\* A call of a tab is sent, answered or dropped; a token may be issued with it.
LEMMA RequestChanges ==
  ASSUME IInv, NEW t \in Tabs, NEW k \in Calls, NEW r \in RequestStates,
         request' = [request EXCEPT ![t][k] = r],
         UNCHANGED <<storage, tab, exchange>>,
         \A a \in Tokens : owner[a] # None => owner'[a] # None,
         Named(r.access),
         k = "login" /\ r.step # "idle" => r.who # None,
         k = "login" /\ r.step = "ok" => r.got \in Tokens /\ owner'[r.got] # None,
         k = "me" /\ r.step = "ok" => r.who # None
  PROVE  /\ request' \in [Tabs -> [Calls -> RequestStates]]
         /\ TokensIssued' /\ UsersKnown'
  <1> USE CallKinds
  <1>1. request' \in [Tabs -> [Calls -> RequestStates]]
    BY DEF IInv, Types
  <1>2. TokensIssued'
    BY DEF IInv, Types, TokensIssued, Issued, Presented, Granted, storage
  <1>3. UsersKnown'
    BY DEF IInv, Types, UsersKnown, Named
  <1> QED BY <1>1, <1>2, <1>3

LEMMA SendKeeps ==
  ASSUME IInv, NEW t \in Tabs, NEW k \in Calls, Send(t, k)
  PROVE  Types' /\ TokensIssued' /\ UsersKnown'
  <1> DEFINE r == [NoRequest EXCEPT !.step = "sent", !.access = tab[t].access]
  <1>1. tab[t].access \in Accesses /\ Named(tab[t].access)
    BY DEF IInv, Types, TabStates, UsersKnown
  <1>2. r \in RequestStates /\ r.step = "sent" /\ r.access = tab[t].access
    BY <1>1 DEF NoRequest, NoAccess, RequestStates
  <1>3. k # "login" /\ k # "me"
    BY SessionAssumption DEF SessionAssumption, Send
  <1>4. /\ request' \in [Tabs -> [Calls -> RequestStates]]
        /\ TokensIssued' /\ UsersKnown'
    BY <1>1, <1>2, <1>3, RequestChanges DEF Send, server
  <1> QED BY <1>4 DEF IInv, Types, Send, storage, server

LEMMA LoginKeeps ==
  ASSUME IInv, NEW t \in Tabs, NEW u \in Users, Login(t, u)
  PROVE  Types' /\ TokensIssued' /\ UsersKnown'
  <1> DEFINE r == [NoRequest EXCEPT !.step = "sent", !.who = u]
  <1>1. /\ r \in RequestStates /\ r.step = "sent" /\ r.who = u /\ Named(r.access)
    BY DEF NoRequest, NoAccess, RequestStates, Accesses, Named
  <1>2. /\ request' \in [Tabs -> [Calls -> RequestStates]]
        /\ TokensIssued' /\ UsersKnown'
    BY <1>1, CallKinds, NoneApart, RequestChanges DEF Login, server
  <1>3. disturbed' \in BOOLEAN
    BY Zenon DEF Login
  <1> QED BY <1>2, <1>3 DEF IInv, Types, Login, storage, server

LEMMA AnswerKeeps ==
  ASSUME IInv, NEW t \in Tabs, NEW k \in Calls, Answer(t, k)
  PROVE  Types' /\ TokensIssued' /\ UsersKnown'
  <1> DEFINE q == request[t][k]
             r == IF ~q.access.valid THEN [q EXCEPT !.step = "denied"]
                  ELSE IF k = "me" THEN [q EXCEPT !.step = "ok", !.who = q.access.of]
                  ELSE NoRequest
  <1>1. q \in RequestStates /\ Named(q.access)
    BY DEF IInv, Types, UsersKnown
  <1>2. r \in RequestStates /\ Named(r.access) /\ (k = "me" /\ r.step = "ok" => r.who # None)
    BY <1>1 DEF NoRequest, NoAccess, RequestStates, Accesses, Named
  <1>3. request' = [request EXCEPT ![t][k] = r]
    BY DEF Answer
  <1>4. k # "login"
    BY DEF Answer
  <1> HIDE DEF r
  <1>5. /\ request' \in [Tabs -> [Calls -> RequestStates]]
        /\ TokensIssued' /\ UsersKnown'
    BY <1>2, <1>3, <1>4, RequestChanges DEF Answer, server
  <1> QED BY <1>5 DEF IInv, Types, Answer, storage, server

LEMMA AnswerLoginKeeps ==
  ASSUME IInv, NEW t \in Tabs, AnswerLogin(t)
  PROVE  Types' /\ TokensIssued' /\ UsersKnown'
  <1> DEFINE q == request[t]["login"]
             r == [q EXCEPT !.step = "ok", !.got = Fresh]
  <1>1. /\ q \in RequestStates /\ Named(q.access) /\ q.who # None
        /\ Fresh \in Tokens
    BY CallKinds, FreshUnissued DEF IInv, Types, UsersKnown, AnswerLogin
  <1>2. /\ r \in RequestStates /\ r.who = q.who /\ r.access = q.access /\ r.got = Fresh
    BY <1>1 DEF RequestStates
  <1>3. request' = [request EXCEPT ![t]["login"] = r]
    BY DEF AnswerLogin
  <1>4. /\ owner' = [owner EXCEPT ![Fresh] = q.who] /\ q.who \in Users \cup {None}
    BY <1>1 DEF AnswerLogin, RequestStates
  <1>5. /\ owner' \in [Tokens -> Users \cup {None}] /\ owner'[Fresh] # None
        /\ \A a \in Tokens : owner[a] # None => owner'[a] # None
    BY <1>1, <1>4 DEF IInv, Types
  <1>7. UNCHANGED <<storage, tab, exchange>>
    BY DEF AnswerLogin
  <1>8. r.got \in Tokens /\ owner'[r.got] # None /\ r.who # None /\ Named(r.access)
    BY <1>1, <1>2, <1>5
  <1> HIDE DEF r, q
  <1>6. /\ request' \in [Tabs -> [Calls -> RequestStates]]
        /\ TokensIssued' /\ UsersKnown'
    BY <1>2, <1>3, <1>5, <1>7, <1>8, CallKinds, RequestChanges
  <1> QED BY <1>5, <1>6 DEF IInv, Types, AnswerLogin, storage

LEMMA DenyLoginKeeps ==
  ASSUME IInv, NEW t \in Tabs, DenyLogin(t)
  PROVE  Types' /\ TokensIssued' /\ UsersKnown'
  <1> DEFINE q == request[t]["login"]
             r == [q EXCEPT !.step = "denied"]
  <1>1. q \in RequestStates /\ Named(q.access) /\ q.who # None
    BY CallKinds DEF IInv, Types, UsersKnown, DenyLogin
  <1>2. r \in RequestStates /\ r.step = "denied" /\ r.who = q.who /\ r.access = q.access
    BY <1>1 DEF RequestStates
  <1>3. request' = [request EXCEPT ![t]["login"] = r]
    BY DEF DenyLogin
  <1> HIDE DEF r, q
  <1>4. /\ request' \in [Tabs -> [Calls -> RequestStates]]
        /\ TokensIssued' /\ UsersKnown'
    BY <1>1, <1>2, <1>3, CallKinds, RequestChanges DEF DenyLogin, server
  <1> QED BY <1>4 DEF IInv, Types, DenyLogin, storage, server

LEMMA LoseRequestKeeps ==
  ASSUME IInv, NEW t \in Tabs, NEW k \in Calls, LoseRequest(t, k)
  PROVE  Types' /\ TokensIssued' /\ UsersKnown'
  <1>1. /\ request' \in [Tabs -> [Calls -> RequestStates]]
        /\ TokensIssued' /\ UsersKnown'
    BY Idle, RequestChanges DEF LoseRequest, Named, server
  <1> QED BY <1>1 DEF IInv, Types, LoseRequest, storage, server

LEMMA ArriveKeeps ==
  ASSUME IInv, NEW t \in Tabs, NEW k \in Calls, Arrive(t, k)
  PROVE  Types' /\ TokensIssued' /\ UsersKnown'
  <1> USE CallKinds, Idle
  <1> DEFINE q == request[t][k]
  <1>1. q \in RequestStates /\ q.step = "ok"
    BY DEF IInv, Types, Arrive
  <1>2. /\ request' = [request EXCEPT ![t][k] = NoRequest]
        /\ UNCHANGED <<exchange, leaving, owner, dead, parent, disturbed>>
    BY DEF Arrive, server
  <1>3. CASE k = "login"
    <2> DEFINE s == SignedIn(q.who, AccessOf(q.who))
    <2>1. /\ q.who \in Users /\ Issued(q.got)
      BY <1>1, <1>3 DEF IInv, UsersKnown, TokensIssued, RequestStates
    <2>2. AccessOf(q.who) \in Accesses /\ Named(AccessOf(q.who))
      BY <2>1, NoneApart DEF AccessOf, Accesses, Named
    <2>3. s \in TabStates /\ s.user = q.who /\ s.access = AccessOf(q.who)
      BY <2>1, <2>2, SignedInKnown
    <2>4. stored' = q.got /\ cached' = q.who /\ tab' = [tab EXCEPT ![t] = s]
      BY <1>3 DEF Arrive
    <2> HIDE DEF s, q
    <2>5. Types'
      BY <1>2, <2>1, <2>3, <2>4 DEF IInv, Types, Issued
    <2>6. TokensIssued'
      BY <1>2, <2>1, <2>4 DEF IInv, Types, TokensIssued, Issued, Presented, Granted
    <2>7. UsersKnown'
      BY <1>2, <2>1, <2>2, <2>3, <2>4, NoneApart DEF IInv, Types, UsersKnown, Named
    <2> QED BY <2>5, <2>6, <2>7
  <1>4. CASE k = "me"
    <2>1. q.who \in Users
      BY <1>1, <1>4 DEF IInv, UsersKnown, RequestStates
    <2>2. UNCHANGED stored /\ cached' = q.who /\ tab' = [tab EXCEPT ![t].user = q.who]
      BY <1>4 DEF Arrive
    <2>3. [tab[t] EXCEPT !.user = q.who] \in TabStates
      BY <2>1 DEF IInv, Types, TabStates
    <2> HIDE DEF q
    <2>4. Types'
      BY <1>2, <2>1, <2>2, <2>3 DEF IInv, Types
    <2>5. TokensIssued'
      BY <1>2, <2>2 DEF IInv, Types, TokensIssued, Issued, Presented, Granted
    <2>6. UsersKnown'
      BY <1>2, <2>1, <2>2, NoneApart DEF IInv, Types, TabStates, UsersKnown, Named
    <2> QED BY <2>4, <2>5, <2>6
  <1>5. CASE k # "login" /\ k # "me"
    <2>1. /\ request' \in [Tabs -> [Calls -> RequestStates]]
          /\ TokensIssued' /\ UsersKnown'
      BY <1>2, <1>5, RequestChanges DEF Arrive, Named
    <2>2. UNCHANGED <<storage, tab>>
      BY <1>5 DEF Arrive
    <2> QED BY <1>2, <2>1, <2>2 DEF IInv, Types, storage
  <1> QED BY <1>3, <1>4, <1>5

\* The refresh that a refused call awaits: under way, or sent with what is stored.
LEMMA RefreshingKnown ==
  ASSUME IInv, NEW t \in Tabs, stored # None
  PROVE  /\ Refreshing(t) \in Exchanges
         /\ Presented(Refreshing(t)) /\ Granted(Refreshing(t))
  <1>1. /\ stored \in Tokens /\ Issued(stored)
        /\ exchange[t]["interceptor"] \in Exchanges
        /\ Presented(exchange[t]["interceptor"]) /\ Granted(exchange[t]["interceptor"])
    BY CallKinds DEF IInv, Types, TokensIssued
  <1>2. /\ Present(stored, None, FALSE) \in Exchanges
        /\ Present(stored, None, FALSE).step = "sent"
        /\ Present(stored, None, FALSE).token = stored
    BY <1>1, PresentKnown
  <1> QED BY <1>1, <1>2 DEF Refreshing, Presented, Granted

LEMMA DeniedKeeps ==
  ASSUME IInv, NEW t \in Tabs, NEW k \in Calls, Denied(t, k)
  PROVE  Types' /\ TokensIssued' /\ UsersKnown'
  <1> USE CallKinds, Idle
  <1>1. CASE request[t][k].again \/ stored = None
    <2>1. /\ request' \in [Tabs -> [Calls -> RequestStates]]
          /\ TokensIssued' /\ UsersKnown'
      BY <1>1, RequestChanges DEF Denied, Named, server
    <2> QED BY <1>1, <2>1 DEF IInv, Types, Denied, storage, server
  <1>2. CASE ~(request[t][k].again \/ stored = None)
    <2> DEFINE q == request[t][k]
               r == [q EXCEPT !.step = "waiting", !.again = TRUE]
               x == Refreshing(t)
    <2>1. /\ q \in RequestStates /\ Named(q.access) /\ q.step = "denied"
          /\ k = "login" => q.who # None
      BY DEF IInv, Types, UsersKnown, Denied
    <2>2. /\ r \in RequestStates /\ r.step = "waiting" /\ r.who = q.who
          /\ r.access = q.access
      BY <2>1 DEF RequestStates
    <2>3. x \in Exchanges /\ Presented(x) /\ Granted(x)
      BY <1>2, RefreshingKnown
    <2>4. /\ request' = [request EXCEPT ![t][k] = r]
          /\ exchange' = [exchange EXCEPT ![t]["interceptor"] = x]
      BY <1>2 DEF Denied
    <2>5. disturbed' \in BOOLEAN
      BY <1>2, Zenon DEF Denied
    <2>6. UNCHANGED <<stored, cached, tab, leaving, owner, dead, parent>>
      BY DEF Denied, storage, server
    <2> HIDE DEF q, r, x
    <2>7. Types'
      BY <2>2, <2>3, <2>4, <2>5, <2>6 DEF IInv, Types
    <2>8. TokensIssued'
      BY <2>2, <2>3, <2>4, <2>6 DEF IInv, Types, TokensIssued, Issued, Presented, Granted
    <2>9. UsersKnown'
      <3>1. \A o \in Tabs : exchange'[o]["boot"] = exchange[o]["boot"]
        BY <2>4 DEF IInv, Types
      <3>2. \A o \in Tabs, j \in Calls :
              request'[o][j] = IF o = t /\ j = k THEN r ELSE request[o][j]
        BY <2>4 DEF IInv, Types
      <3> QED BY <2>1, <2>2, <2>6, <3>1, <3>2 DEF IInv, UsersKnown, Named
    <2> QED BY <2>7, <2>8, <2>9
  <1> QED BY <1>1, <1>2

LEMMA BootGrantedKeeps ==
  ASSUME IInv, NEW t \in Tabs, BootGranted(t)
  PROVE  Types' /\ TokensIssued' /\ UsersKnown'
  <1> USE CallKinds, Idle
  <1> DEFINE x == exchange[t]["boot"]
             access == AccessOf(owner[x.got])
             s == SignedIn(x.who, access)
             r == [NoRequest EXCEPT !.step = "sent", !.access = access]
  <1>1. x \in Exchanges /\ x.step = "granted" /\ x.who # None /\ Issued(x.got)
    BY DEF IInv, Types, UsersKnown, TokensIssued, Granted, BootGranted
  <1>2. x.who \in Users /\ x.got \in Tokens /\ owner[x.got] \in Users
    BY <1>1 DEF IInv, Types, Exchanges, Issued
  <1>3. access \in Accesses /\ Named(access)
    BY <1>2, NoneApart DEF AccessOf, Accesses, Named
  <1>4. s \in TabStates /\ s.user = x.who /\ s.access = access
    BY <1>2, <1>3, SignedInKnown
  <1>5. r \in RequestStates /\ r.step = "sent" /\ r.access = access
    BY <1>3 DEF NoRequest, RequestStates, NoAccess
  <1>6. /\ stored' = x.got /\ cached' = x.who
        /\ tab' = [tab EXCEPT ![t] = s]
        /\ request' = [request EXCEPT ![t]["me"] = r]
        /\ exchange' = [exchange EXCEPT ![t]["boot"] = NoExchange]
        /\ UNCHANGED <<leaving, owner, dead, parent, disturbed>>
    BY DEF BootGranted, server
  <1> HIDE DEF x, access, s, r
  <1>7. Types'
    BY <1>2, <1>4, <1>5, <1>6 DEF IInv, Types
  <1>8. TokensIssued'
    BY <1>1, <1>6 DEF IInv, Types, TokensIssued, Issued, Presented, Granted
  <1>9. UsersKnown'
    BY <1>1, <1>3, <1>4, <1>5, <1>6 DEF IInv, Types, UsersKnown, Named
  <1> QED BY <1>7, <1>8, <1>9

LEMMA BootDeniedKeeps ==
  ASSUME IInv, NEW t \in Tabs, BootDenied(t)
  PROVE  Types' /\ TokensIssued' /\ UsersKnown'
  <1> USE CallKinds
  <1> DEFINE b == exchange[t]["boot"]
             w == [b EXCEPT !.step = "waiting"]
             x == Refreshing(t)
  <1>1. b \in Exchanges /\ Presented(b) /\ b.step = "denied" /\ b.who # None
    BY DEF IInv, Types, TokensIssued, UsersKnown, BootDenied
  <1>2. w \in Exchanges /\ w.step = "waiting" /\ w.who = b.who /\ w.token = b.token
    BY <1>1 DEF Exchanges
  <1>3. x \in Exchanges /\ Presented(x) /\ Granted(x)
    BY RefreshingKnown DEF BootDenied
  <1>4. exchange' = [exchange EXCEPT ![t]["boot"] = w, ![t]["interceptor"] = x]
    BY DEF BootDenied
  <1>5. disturbed' \in BOOLEAN
    BY Zenon DEF BootDenied
  <1>6. UNCHANGED <<stored, cached, tab, request, leaving, owner, dead, parent>>
    BY DEF BootDenied, storage, server
  <1> HIDE DEF b, w, x
  <1>7. Types'
    BY <1>2, <1>3, <1>4, <1>5, <1>6 DEF IInv, Types
  <1>8. TokensIssued'
    BY <1>1, <1>2, <1>3, <1>4, <1>6 DEF IInv, Types, TokensIssued, Issued, Presented,
                                        Granted
  <1>9. UsersKnown'
    BY <1>1, <1>2, <1>3, <1>4, <1>6 DEF IInv, Types, UsersKnown, Named
  <1> QED BY <1>7, <1>8, <1>9

LEMMA BootGivesUpKeeps ==
  ASSUME IInv, NEW t \in Tabs, BootGivesUp(t)
  PROVE  Types' /\ TokensIssued' /\ UsersKnown'
  <1> USE CallKinds, Idle
  <1>1. [tab[t] EXCEPT !.page = "open"] \in TabStates
    BY DEF IInv, Types, TabStates
  <1>2. /\ stored' = None /\ cached' = None
        /\ tab' = [tab EXCEPT ![t].page = "open"]
        /\ exchange' = [exchange EXCEPT ![t]["boot"] = NoExchange]
        /\ UNCHANGED <<request, leaving, owner, dead, parent, disturbed>>
    BY DEF BootGivesUp, server
  <1>3. Types'
    BY <1>1, <1>2 DEF IInv, Types
  <1>4. TokensIssued'
    BY <1>2 DEF IInv, Types, TokensIssued, Issued, Presented, Granted
  <1>5. UsersKnown'
    BY <1>2 DEF IInv, Types, TabStates, UsersKnown, Named
  <1> QED BY <1>3, <1>4, <1>5

LEMMA RefreshArrivesKeeps ==
  ASSUME IInv, NEW t \in Tabs, RefreshArrives(t)
  PROVE  Types' /\ TokensIssued' /\ UsersKnown'
  <1> USE CallKinds, Idle
  <1> DEFINE x == exchange[t]["interceptor"]
             b == exchange[t]["boot"]
             access == AccessOf(owner[x.got])
             w == IF b.step = "waiting" THEN Present(b.token, b.who, TRUE) ELSE b
             r == [k \in Calls |->
                    IF request[t][k].step = "waiting"
                      THEN [request[t][k] EXCEPT !.step = "sent", !.access = access]
                      ELSE request[t][k]]
  <1>1. Issued(x.got) /\ x.step = "granted"
    BY DEF IInv, TokensIssued, Granted, RefreshArrives
  <1>2. access \in Accesses /\ Named(access)
    BY <1>1, NoneApart DEF IInv, Types, Issued, AccessOf, Accesses, Named
  <1>3. b \in Exchanges /\ Presented(b) /\ Granted(b) /\ (b.step # "idle" => b.who # None)
    BY DEF IInv, Types, TokensIssued, UsersKnown
  <1>4. w \in Exchanges /\ Presented(w) /\ Granted(w) /\ (w.step # "idle" => w.who # None)
    <2>1. CASE b.step = "waiting"
      <3>1. Issued(b.token) /\ b.who \in Users \cup {None}
        BY <1>3, <2>1 DEF Presented, Exchanges
      <3> QED BY <1>3, <2>1, <3>1, PresentKnown DEF Presented, Granted, Issued
    <2>2. CASE b.step # "waiting"
      BY <1>3, <2>2
    <2> QED BY <2>1, <2>2
  <1>5. r \in [Calls -> RequestStates]
    <2>1. ASSUME NEW k \in Calls PROVE r[k] \in RequestStates
      <3>1. request[t][k] \in RequestStates
        BY DEF IInv, Types
      <3>2. [request[t][k] EXCEPT !.step = "sent", !.access = access] \in RequestStates
        BY <1>2, <3>1 DEF RequestStates
      <3> QED BY <3>1, <3>2
    <2> QED BY <2>1
  <1>6. \A k \in Calls : /\ Named(r[k].access)
                         /\ r[k].who = request[t][k].who /\ r[k].got = request[t][k].got
                         /\ r[k].step = "ok" => request[t][k].step = "ok"
                         /\ r[k].step # "idle" => request[t][k].step # "idle"
    BY <1>2 DEF IInv, Types, UsersKnown, RequestStates
  <1>7. [tab[t] EXCEPT !.access = access] \in TabStates
    BY <1>2 DEF IInv, Types, TabStates
  <1>8. /\ stored' = x.got /\ UNCHANGED cached
        /\ tab' = [tab EXCEPT ![t].access = access]
        /\ request' = [request EXCEPT ![t] = r]
        /\ UNCHANGED <<leaving, owner, dead, parent, disturbed>>
    BY DEF RefreshArrives, server
  <1>9. exchange' = [exchange EXCEPT ![t]["interceptor"] = NoExchange, ![t]["boot"] = w]
    BY DEF RefreshArrives, IInv, Types
  <1> HIDE DEF x, b, access, w, r
  <1>10. Types'
    BY <1>1, <1>4, <1>5, <1>7, <1>8, <1>9 DEF IInv, Types, Issued
  <1>11. TokensIssued'
    BY <1>1, <1>4, <1>6, <1>8, <1>9 DEF IInv, Types, TokensIssued, Issued, Presented,
                                        Granted
  <1>12. UsersKnown'
    BY <1>2, <1>4, <1>6, <1>8, <1>9 DEF IInv, Types, TabStates, UsersKnown, Named
  <1> QED BY <1>10, <1>11, <1>12

LEMMA RefreshFailsKeeps ==
  ASSUME IInv, NEW t \in Tabs, RefreshFails(t)
  PROVE  Types' /\ TokensIssued' /\ UsersKnown'
  <1> USE CallKinds, Idle, SignedOutKnown
  <1> DEFINE b == exchange[t]["boot"]
             w == IF b.step = "waiting" THEN NoExchange ELSE b
             r == [k \in Calls |->
                    IF request[t][k].step = "waiting" THEN NoRequest ELSE request[t][k]]
  <1>1. /\ b \in Exchanges /\ Presented(b) /\ Granted(b)
        /\ b.step # "idle" => b.who # None
    BY DEF IInv, Types, TokensIssued, UsersKnown
  <1>2. /\ w \in Exchanges /\ Presented(w) /\ Granted(w)
        /\ w.step # "idle" => w.who # None
    BY <1>1 DEF Presented, Granted
  <1>3. r \in [Calls -> RequestStates]
    BY DEF IInv, Types
  <1>4. \A k \in Calls : /\ Named(r[k].access)
                         /\ r[k].step # "idle" => r[k] = request[t][k]
    BY DEF IInv, UsersKnown, Named
  <1>5. /\ stored' = None /\ cached' \in {None, cached}
        /\ tab' = [tab EXCEPT ![t] = SignedOut("open")]
        /\ request' = [request EXCEPT ![t] = r]
        /\ UNCHANGED <<leaving, owner, dead, parent, disturbed>>
    BY DEF RefreshFails, server
  <1>6. exchange' = [exchange EXCEPT ![t]["interceptor"] = NoExchange, ![t]["boot"] = w]
    BY DEF RefreshFails, IInv, Types
  <1> HIDE DEF b, w, r
  <1>7. Types'
    BY <1>2, <1>3, <1>5, <1>6 DEF IInv, Types
  <1>8. TokensIssued'
    BY <1>2, <1>4, <1>5, <1>6 DEF IInv, Types, TokensIssued, Issued, Presented, Granted
  <1>9. UsersKnown'
    BY <1>2, <1>4, <1>5, <1>6 DEF IInv, Types, UsersKnown, Named
  <1> QED BY <1>7, <1>8, <1>9

LEMMA ExpireKeeps ==
  ASSUME IInv, NEW t \in Tabs, Expire(t)
  PROVE  Types' /\ TokensIssued' /\ UsersKnown'
  <1> USE CallKinds
  <1> DEFINE s == [tab[t] EXCEPT !.access.valid = FALSE]
             r == [k \in Calls |-> [request[t][k] EXCEPT !.access.valid = FALSE]]
  <1>1. /\ s \in TabStates /\ ~s.access.valid
        /\ s.authenticated = tab[t].authenticated /\ s.user = tab[t].user
    BY DEF IInv, Types, TabStates, Accesses
  <1>2. r \in [Calls -> RequestStates]
    <2>1. ASSUME NEW k \in Calls PROVE r[k] \in RequestStates
      <3>1. request[t][k] \in RequestStates
        BY DEF IInv, Types
      <3>2. [request[t][k] EXCEPT !.access.valid = FALSE] \in RequestStates
        BY <3>1 DEF RequestStates, Accesses
      <3> QED BY <3>2
    <2> QED BY <2>1
  <1>3. \A k \in Calls : /\ ~r[k].access.valid
                         /\ r[k].step = request[t][k].step
                         /\ r[k].who = request[t][k].who /\ r[k].got = request[t][k].got
    BY DEF IInv, Types, RequestStates, Accesses
  <1>4. /\ tab' = [tab EXCEPT ![t] = s] /\ request' = [request EXCEPT ![t] = r]
        /\ UNCHANGED <<stored, cached, exchange, leaving, owner, dead, parent, disturbed>>
    BY DEF Expire, IInv, Types, storage, server
  <1> HIDE DEF s, r
  <1>5. Types'
    BY <1>1, <1>2, <1>4 DEF IInv, Types
  <1>6. TokensIssued'
    BY <1>3, <1>4 DEF IInv, Types, TokensIssued, Issued, Presented, Granted
  <1>7. UsersKnown'
    BY <1>1, <1>3, <1>4 DEF IInv, Types, UsersKnown, Named
  <1> QED BY <1>5, <1>6, <1>7

\* Logout and what follows it, but for its end, change the calls of no one.
LEMMA LeavingKeeps ==
  ASSUME IInv, NEW t \in Tabs, Logout(t) \/ RevokeOnLogout(t) \/ LoseLogout(t)
  PROVE  Types' /\ TokensIssued' /\ UsersKnown'
  <1>1. UNCHANGED <<stored, cached, tab, exchange, request, owner, parent>>
    BY DEF Logout, RevokeOnLogout, LoseLogout, storage, server
  <1>2. leaving' \in [Tabs -> Leavings] /\ dead' \subseteq Tokens
    <2>1. leaving \in [Tabs -> Leavings] /\ leaving[t] \in Leavings
          /\ stored \in Tokens \cup {None} /\ dead \subseteq Tokens
      BY DEF IInv, Types
    <2>2. CASE Logout(t)
      <3> DEFINE l == [step |-> IF stored = None THEN "done" ELSE "sent", token |-> stored]
      <3>1. l \in Leavings
        BY <2>1 DEF Leavings
      <3>2. leaving' = [leaving EXCEPT ![t] = l] /\ UNCHANGED dead
        BY <2>2 DEF Logout, server
      <3> QED BY <2>1, <3>1, <3>2
    <2>3. CASE RevokeOnLogout(t) \/ LoseLogout(t)
      <3>1. [leaving[t] EXCEPT !.step = "done"] \in Leavings
        BY <2>1 DEF Leavings
      <3>2. leaving' = [leaving EXCEPT ![t].step = "done"]
        BY <2>3 DEF RevokeOnLogout, LoseLogout
      <3>3. leaving[t].step = "sent" /\ leaving[t].token \in Tokens
        BY <2>1, <2>3 DEF Leavings, RevokeOnLogout, LoseLogout
      <3>4. dead' \subseteq Tokens
        BY <2>1, <2>3, <3>3 DEF RevokeOnLogout, LoseLogout, server
      <3> QED BY <2>1, <3>1, <3>2, <3>4
    <2> QED BY <2>2, <2>3
  <1>3. disturbed' \in BOOLEAN
    BY Zenon DEF IInv, Types, Logout, RevokeOnLogout, LoseLogout
  <1> QED BY <1>1, <1>2, <1>3 DEF IInv, Types, TokensIssued, Issued, Presented, Granted,
                                  UsersKnown, Named

LEMMA LogoutEndsKeeps ==
  ASSUME IInv, NEW t \in Tabs, LogoutEnds(t)
  PROVE  Types' /\ TokensIssued' /\ UsersKnown'
  <1> USE CallKinds, Idle, SignedOutKnown
  <1>1. Types'
    BY DEF IInv, Types, LogoutEnds, server
  <1>2. TokensIssued'
    BY DEF IInv, Types, TokensIssued, Issued, Presented, Granted, LogoutEnds, server
  <1>3. UsersKnown'
    BY DEF IInv, Types, UsersKnown, Named, LogoutEnds, server
  <1> QED BY <1>1, <1>2, <1>3

\* Time takes a token out of force and nothing else.
LEMMA LapseKeeps ==
  ASSUME IInv, NEW k \in Tokens, Lapse(k)
  PROVE  /\ Types' /\ TokensIssued' /\ UsersKnown'
         /\ UNCHANGED <<owner, parent>> /\ dead \subseteq dead'
  <1>1. /\ UNCHANGED <<stored, cached, tab, exchange, request, leaving, owner, parent>>
        /\ dead' = dead \cup {k}
    BY DEF Lapse, storage
  <1>2. disturbed' \in BOOLEAN
    BY Zenon DEF IInv, Types, Lapse
  <1> QED BY <1>1, <1>2 DEF IInv, Types, TokensIssued, Issued, Presented, Granted,
                            UsersKnown, Named

------------------------------------------------------------------------------
\* No action but a login and a rotation issues a token, and none revives one.
LEMMA LedgerKept ==
  ASSUME IInv, [Next]_vars,
         ~\E t \in Tabs : AnswerLogin(t) \/ \E c \in Callers : Rotate(t, c)
  PROVE  UNCHANGED <<owner, parent>> /\ dead \subseteq dead'
  <1>1. CASE UNCHANGED vars
    BY <1>1 DEF vars
  <1>3. CASE \E k \in Tokens : Lapse(k)
    BY <1>3, LapseKeeps
  <1>2. CASE Next /\ ~\E k \in Tokens : Lapse(k)
    <2> PICK t \in Tabs :
          \/ Open(t) \/ Close(t) \/ Expire(t)
          \/ \E c \in Callers : ReadToken(t, c) \/ RotateRefused(t, c) \/ LoseExchange(t, c)
          \/ BootGranted(t) \/ BootDenied(t) \/ BootGivesUp(t)
          \/ RefreshArrives(t) \/ RefreshFails(t)
          \/ \E u \in Users : Login(t, u)
          \/ DenyLogin(t)
          \/ \E k \in Calls : \/ Send(t, k) \/ Answer(t, k) \/ LoseRequest(t, k)
                              \/ Arrive(t, k) \/ Denied(t, k)
          \/ Logout(t) \/ RevokeOnLogout(t) \/ LoseLogout(t) \/ LogoutEnds(t)
      BY <1>2, Zenon DEF Next
    <2>1. CASE \/ Open(t) \/ Close(t) \/ Expire(t) \/ LogoutEnds(t)
               \/ BootGranted(t) \/ BootDenied(t) \/ BootGivesUp(t)
               \/ RefreshArrives(t) \/ RefreshFails(t)
      BY <2>1 DEF Open, Close, Expire, LogoutEnds, BootGranted, BootDenied, BootGivesUp,
                  RefreshArrives, RefreshFails, server
    <2>2. CASE \E c \in Callers : ReadToken(t, c) \/ RotateRefused(t, c) \/ LoseExchange(t, c)
      BY <2>2 DEF ReadToken, RotateRefused, LoseExchange, server
    <2>3. CASE \/ DenyLogin(t) \/ \E u \in Users : Login(t, u)
               \/ \E k \in Calls : \/ Send(t, k) \/ Answer(t, k) \/ LoseRequest(t, k)
                                   \/ Arrive(t, k) \/ Denied(t, k)
      BY <2>3 DEF DenyLogin, Login, Send, Answer, LoseRequest, Arrive, Denied, server
    <2>4. CASE Logout(t) \/ RevokeOnLogout(t) \/ LoseLogout(t)
      BY <2>4 DEF Logout, RevokeOnLogout, LoseLogout, server
    <2> QED BY <2>1, <2>2, <2>3, <2>4
  <1> QED BY <1>1, <1>2, <1>3

\* Only a token in force is rotated, so the new one is the only one it was
\* rotated into.
LEMMA LedgerInvariant ==
  ASSUME IInv, [Next]_vars
  PROVE  ParentsDead' /\ RotatedOnce'
  <1>0. /\ owner \in [Tokens -> Users \cup {None}]
        /\ parent \in [Tokens -> Tokens \cup {None}]
        /\ ParentsDead /\ RotatedOnce
    BY DEF IInv, Types
  <1>1. CASE \E t \in Tabs : AnswerLogin(t)
    <2> PICK t \in Tabs : AnswerLogin(t)
      BY <1>1
    <2>1. /\ Fresh \in Tokens /\ request[t]["login"].who # None
          /\ owner' = [owner EXCEPT ![Fresh] = request[t]["login"].who]
          /\ UNCHANGED <<dead, parent>>
      BY FreshUnissued, CallKinds DEF AnswerLogin, IInv, UsersKnown
    <2> QED BY <1>0, <2>1 DEF ParentsDead, RotatedOnce
  <1>2. CASE \E t \in Tabs, c \in Callers : Rotate(t, c)
    <2> PICK t \in Tabs, c \in Callers : Rotate(t, c)
      BY <1>2
    <2> DEFINE k == exchange[t][c].token
    <2>1. Issued(k)
      BY DEF IInv, TokensIssued, Presented, Rotate
    <2>2. /\ Fresh \in Tokens /\ owner[Fresh] = None
          /\ k \notin dead /\ dead' = dead \cup {k}
          /\ owner' = [owner EXCEPT ![Fresh] = owner[k]]
          /\ parent' = [parent EXCEPT ![Fresh] = k]
      BY FreshUnissued DEF Rotate
    <2> HIDE DEF k
    <2>3. ParentsDead'
      BY <1>0, <2>1, <2>2 DEF ParentsDead, Issued
    <2>4. \A a \in Tokens : parent[a] # k
      BY <1>0, <2>1, <2>2, NoneApart DEF ParentsDead, Issued
    <2>5. RotatedOnce'
      BY <1>0, <2>2, <2>4 DEF RotatedOnce
    <2> QED BY <2>3, <2>5
  <1>3. CASE ~\E t \in Tabs : AnswerLogin(t) \/ \E c \in Callers : Rotate(t, c)
    BY <1>0, <1>3, LedgerKept DEF ParentsDead, RotatedOnce
  <1> QED BY <1>1, <1>2, <1>3

LEMMA StepKeeps ==
  ASSUME IInv, [Next]_vars
  PROVE  IInv'
  <1>1. ParentsDead' /\ RotatedOnce'
    BY LedgerInvariant
  <1>2. Types' /\ TokensIssued' /\ UsersKnown'
    <2>3. CASE \E k \in Tokens : Lapse(k)
      BY <2>3, LapseKeeps
    <2>1. CASE Next /\ ~\E k \in Tokens : Lapse(k)
      <3> PICK t \in Tabs :
            \/ Open(t) \/ Close(t) \/ Expire(t)
            \/ \E c \in Callers :
                 ReadToken(t, c) \/ Rotate(t, c) \/ RotateRefused(t, c) \/ LoseExchange(t, c)
            \/ BootGranted(t) \/ BootDenied(t) \/ BootGivesUp(t)
            \/ RefreshArrives(t) \/ RefreshFails(t)
            \/ \E u \in Users : Login(t, u)
            \/ AnswerLogin(t) \/ DenyLogin(t)
            \/ \E k \in Calls : \/ Send(t, k) \/ Answer(t, k) \/ LoseRequest(t, k)
                                \/ Arrive(t, k) \/ Denied(t, k)
            \/ Logout(t) \/ RevokeOnLogout(t) \/ LoseLogout(t) \/ LogoutEnds(t)
        BY <2>1 DEF Next
      <3> QED
        BY OpenKeeps, CloseKeeps, ExpireKeeps, ReadTokenKeeps, RotateKeeps,
           RotateRefusedKeeps, LoseExchangeKeeps, BootGrantedKeeps, BootDeniedKeeps,
           BootGivesUpKeeps, RefreshArrivesKeeps, RefreshFailsKeeps, LoginKeeps,
           AnswerLoginKeeps, DenyLoginKeeps, SendKeeps, AnswerKeeps, LoseRequestKeeps,
           ArriveKeeps, DeniedKeeps, LeavingKeeps, LogoutEndsKeeps
    <2>2. CASE UNCHANGED vars
      BY <2>2 DEF IInv, Types, TokensIssued, Issued, Presented, Granted, UsersKnown, Named,
                  vars, storage, server
    <2> QED BY <2>1, <2>2, <2>3
  <1> QED BY <1>1, <1>2 DEF IInv

\* Tokens are known to be somebody's before they are handed out, and the two
\* tables of the server agree on which were rotated.
THEOREM SessionInvariant == Spec => []IInv
  <1>1. Init => IInv
    BY InitTypes
  <1>2. IInv /\ [Next]_vars => IInv'
    BY StepKeeps
  <1> QED BY <1>1, <1>2, PTL DEF Spec

\* What the tabs hold, what is in flight and what is stored have their types
\* (authStore, tokenStorage, refresh_tokens), and a tab that is signed in shows
\* somebody.
THEOREM SessionTypes == Spec => []TypeOK
  <1>1. IInv => TypeOK
    BY DEF IInv, Types, UsersKnown, TypeOK, TabStates, Accesses, Exchanges, RequestStates,
           Leavings
  <1> QED BY <1>1, SessionInvariant, PTL

\* However many tabs refresh at once, a refresh token is rotated into one other
\* token at the most (AuthService.Refresh, RefreshTokenRepo.Revoke).
THEOREM SessionsNeverFork == Spec => []RotatedOnce
  <1>1. IInv => RotatedOnce
    BY DEF IInv
  <1> QED BY <1>1, SessionInvariant, PTL

------------------------------------------------------------------------------
(***************************************************************************)
(* SessionKept.  While nothing was disturbed, one tab at a time changes    *)
(* the session, for one user, and what it holds is in force: the calls     *)
(* that may be in flight together are few, and the last of them leaves     *)
(* the stored token in force.                                              *)
(***************************************************************************)
Active(t, c) == exchange[t][c].step # "idle"
Asking(t, k) == request[t][k].step # "idle"
Leaving(t) == leaving[t].step # "idle"

\* What a tab may have in flight, whatever was disturbed.
PageSteps ==
  \A t \in Tabs :
    /\ tab[t].page = "closed" => ~Busy(t)
    /\ tab[t].page # "open" =>
         ~tab[t].authenticated /\ ~Leaving(t) /\ \A k \in Calls : ~Asking(t, k)
    /\ tab[t].page # "boot" => ~Active(t, "boot")
    /\ Active(t, "boot") /\ Active(t, "interceptor") =>
         exchange[t]["boot"].step = "waiting"

SpentIssued ==
  /\ \A k \in dead : owner[k] # None
  /\ \A t \in Tabs : leaving[t].step = "sent" => Issued(leaving[t].token)

\* One tab changes the session, with one refresh.
OneBusy ==
  \A t, o \in Tabs :
    /\ Busy(t) /\ Busy(o) => t = o
    /\ \A c, d \in Callers : Active(t, c) /\ Active(o, d) => t = o /\ c = d

\* Everything that is stored, shown or in flight is the same user's.
Belongs(u) ==
  /\ stored # None => owner[stored] = u
  /\ cached # None => cached = u
  /\ \A t \in Tabs :
       /\ tab[t].authenticated => tab[t].user = u /\ tab[t].access.of = u
       /\ Asking(t, "me") => request[t]["me"].access.of = u
       /\ request[t]["me"].step = "ok" => request[t]["me"].who = u
       /\ Active(t, "boot") => exchange[t]["boot"].who = u
       /\ \A c \in Callers :
            /\ Active(t, c) => owner[exchange[t][c].token] = u
            /\ exchange[t][c].step = "granted" => owner[exchange[t][c].got] = u
OneUser == \E u \in Users \cup {None} : Belongs(u)

\* Only a login changes the user, and then nothing of another's is left.
LoginFirst ==
  \A t \in Tabs : Asking(t, "login") =>
    /\ \A o \in Tabs : /\ ~tab[o].authenticated /\ ~Leaving(o) /\ ~Asking(o, "me")
                       /\ \A c \in Callers : ~Active(o, c)
    /\ LET r == request[t]["login"]
       IN r.step = "ok" => r.got \notin dead /\ owner[r.got] = r.who

LeavingLast ==
  \A t \in Tabs : Leaving(t) =>
    \A o \in Tabs : ~Active(o, "boot") /\ (o # t => ~tab[o].authenticated)

\* The token that a refresh brings is not the one a logout revokes.
GrantedNew ==
  \A t \in Tabs, c \in Callers :
    LET x == exchange[t][c] IN
    x.step = "granted" =>
      /\ x.got \notin dead /\ x.got # stored
      /\ \A o \in Tabs : leaving[o].step = "sent" => x.got # leaving[o].token

\* Short of a logout, a refresh presents what is stored, and is not refused.
InForce ==
  (\A t \in Tabs : ~Leaving(t)) /\ (\E t \in Tabs : tab[t].authenticated \/ Active(t, "boot")) =>
    /\ stored # None
    /\ \A t \in Tabs, c \in Callers :
         LET x == exchange[t][c] IN
         Active(t, c) => /\ x.step \in {"sent", "checked", "granted"} /\ x.token = stored
                         /\ x.step # "granted" => stored \notin dead

StoredInForce ==
  stored # None => \/ stored \notin dead
                   \/ \E t \in Tabs : Leaving(t) \/ \E c \in Callers : Active(t, c)

Calm ==
  /\ OneBusy /\ OneUser /\ LoginFirst /\ LeavingLast
  /\ GrantedNew /\ InForce /\ StoredInForce
CalmInv == PageSteps /\ SpentIssued /\ (~disturbed => Calm)

\* A call of a tab moves on, other than by a login's success.
LEMMA RequestCalm ==
  ASSUME IInv, CalmInv, NEW t \in Tabs, NEW k \in Calls, NEW r \in RequestStates,
         request' = [request EXCEPT ![t][k] = r],
         UNCHANGED <<stored, cached, tab, exchange, leaving, owner, dead, parent, disturbed>>,
         r.step # "idle" => tab[t].page = "open",
         k \in {"me", "login"} /\ r.step # "idle" => Asking(t, k),
         k = "me" /\ r.step # "idle" => r.access.of = request[t][k].access.of,
         k = "me" /\ r.step = "ok" => r.who = r.access.of,
         k = "login" => r.step # "ok"
  PROVE  CalmInv'
  <1> USE CallKinds
  <1>0. \A o \in Tabs, j \in Calls :
          request'[o][j] = IF o = t /\ j = k THEN r ELSE request[o][j]
    BY DEF IInv, Types
  <1>1. PageSteps' /\ SpentIssued'
    BY <1>0 DEF CalmInv, PageSteps, SpentIssued, Busy, Leaving, Asking, Active, Issued
  <1>2. ASSUME ~disturbed' PROVE Calm'
    <2>1. OneBusy'
      BY <1>0, <1>2 DEF CalmInv, Calm, OneBusy, Busy, Asking, Active
    <2>2. OneUser'
      BY <1>0, <1>2 DEF CalmInv, Calm, OneUser, Belongs, Asking, Active
    <2>3. LoginFirst'
      BY <1>0, <1>2 DEF CalmInv, Calm, LoginFirst, Leaving, Asking, Active
    <2> QED BY <2>1, <2>2, <2>3, <1>2 DEF CalmInv, Calm, LeavingLast, GrantedNew, InForce,
                                          StoredInForce, Leaving, Active
  <1> QED BY <1>1, <1>2 DEF CalmInv

LEMMA OpenCalm ==
  ASSUME IInv, CalmInv, NEW t \in Tabs, Open(t)
  PROVE  CalmInv'
  <1> USE CallKinds
  <1>1. CASE stored = None \/ cached = None
    <2>1. /\ \A o \in Tabs : tab'[o] = IF o = t THEN SignedOut("open") ELSE tab[o]
          /\ UNCHANGED <<stored, cached, exchange, request, leaving, owner, dead, parent, disturbed>>
      BY <1>1 DEF Open, IInv, Types, storage, server
    <2>2. SignedOut("open").page = "open" /\ ~SignedOut("open").authenticated
      BY DEF SignedOut
    <2>3. tab[t].page = "closed"
      BY DEF Open
    <2>4. PageSteps' /\ SpentIssued'
      BY <2>1, <2>2, <2>3 DEF CalmInv, PageSteps, SpentIssued, Busy, Leaving, Asking,
                              Active, Issued
    <2>5. ASSUME ~disturbed' PROVE Calm'
      BY <2>1, <2>2, <2>5 DEF CalmInv, Calm, OneBusy, Busy, OneUser, Belongs, LoginFirst,
                              LeavingLast, GrantedNew, InForce, StoredInForce, Leaving,
                              Active, Asking
    <2> QED BY <2>4, <2>5 DEF CalmInv
  <1>2. CASE ~(stored = None \/ cached = None)
    <2> DEFINE x == Present(stored, cached, FALSE)
    <2>0. stored \in Tokens /\ cached \in Users /\ Issued(stored) /\ stored # None /\ cached # None
      BY <1>2 DEF IInv, Types, TokensIssued
    <2>1. /\ x.step = "sent" /\ x.token = stored /\ x.who = cached
      BY <2>0, PresentKnown
    <2>2. /\ tab' = [tab EXCEPT ![t] = SignedOut("boot")]
          /\ exchange' = [exchange EXCEPT ![t]["boot"] = x]
          /\ ~disturbed' => ~disturbed /\ Alone(t)
          /\ UNCHANGED <<stored, cached, request, leaving, owner, dead, parent>>
      BY <1>2, Zenon DEF Open, storage, server
    <2>9. /\ \A o \in Tabs : tab'[o] = IF o = t THEN SignedOut("boot") ELSE tab[o]
          /\ \A o \in Tabs, c \in Callers :
               exchange'[o][c] = IF o = t /\ c = "boot" THEN x ELSE exchange[o][c]
      BY <2>2 DEF IInv, Types
    <2>3. SignedOut("boot").page = "boot" /\ ~SignedOut("boot").authenticated
      BY DEF SignedOut
    <2>4. tab[t].page = "closed"
      BY DEF Open
    <2> HIDE DEF x
    <2>5. PageSteps' /\ SpentIssued'
      BY <2>1, <2>2, <2>9, <2>3, <2>4 DEF CalmInv, PageSteps, SpentIssued, Busy, Leaving,
                                          Asking, Active, Issued
    <2>6. ASSUME ~disturbed' PROVE Calm'
      <3>0. Calm
        BY <2>2, <2>6 DEF CalmInv
      <3>1. \A o \in Tabs : ~Busy(o)
        BY <2>2, <2>4, <2>6 DEF Alone, CalmInv, PageSteps
      <3>2. OneBusy'
        BY <2>1, <2>2, <2>9, <3>1 DEF OneBusy, Busy, Asking, Active
      <3>3. OneUser'
        BY <2>0, <2>1, <2>2, <2>9, <2>3, <3>0, <3>1 DEF Calm, OneUser, Belongs, Asking,
                                                        Active, Busy
      <3>4. LoginFirst' /\ LeavingLast'
        BY <2>2, <2>9, <3>1 DEF LoginFirst, LeavingLast, Leaving, Asking, Active, Busy
      <3>5. stored \notin dead
        BY <2>0, <3>0, <3>1 DEF Calm, StoredInForce, Leaving, Active, Busy
      <3>6. GrantedNew' /\ InForce' /\ StoredInForce'
        BY <2>0, <2>1, <2>2, <2>9, <3>1, <3>5 DEF GrantedNew, InForce, StoredInForce,
                                                  Leaving, Active, Busy
      <3> QED BY <3>2, <3>3, <3>4, <3>6 DEF Calm
    <2> QED BY <2>5, <2>6 DEF CalmInv
  <1> QED BY <1>1, <1>2

LEMMA CloseCalm ==
  ASSUME IInv, CalmInv, NEW t \in Tabs, Close(t)
  PROVE  CalmInv'
  <1> USE CallKinds, Idle, SignedOutKnown
  <1>1. /\ tab' = [tab EXCEPT ![t] = SignedOut("closed")]
        /\ exchange' = [exchange EXCEPT ![t] = [c \in Callers |-> NoExchange]]
        /\ request' = [request EXCEPT ![t] = [k \in Calls |-> NoRequest]]
        /\ leaving' = [leaving EXCEPT ![t] = NoLeaving]
        /\ ~disturbed' => ~disturbed /\ ~Busy(t)
        /\ UNCHANGED <<stored, cached, owner, dead, parent>>
    BY Zenon DEF Close, storage, server
  <1>2. SignedOut("closed").page = "closed" /\ NoLeaving.step = "idle"
    BY DEF SignedOut, NoLeaving
  <1>3. \A o \in Tabs :
          /\ tab'[o] = IF o = t THEN SignedOut("closed") ELSE tab[o]
          /\ leaving'[o] = IF o = t THEN NoLeaving ELSE leaving[o]
          /\ \A c \in Callers : exchange'[o][c] = IF o = t THEN NoExchange ELSE exchange[o][c]
          /\ \A k \in Calls : request'[o][k] = IF o = t THEN NoRequest ELSE request[o][k]
    BY <1>1 DEF IInv, Types
  <1>4. PageSteps' /\ SpentIssued'
    BY <1>1, <1>2, <1>3 DEF CalmInv, PageSteps, SpentIssued, Busy, Leaving, Asking, Active,
                            Issued
  <1>5. ASSUME ~disturbed' PROVE Calm'
    <2>0. Calm /\ ~Busy(t)
      BY <1>1, <1>5 DEF CalmInv
    <2>1. OneBusy' /\ LoginFirst' /\ LeavingLast'
      BY <1>1, <1>2, <1>3, <2>0 DEF Calm, OneBusy, LoginFirst, LeavingLast, Busy, Leaving,
                                    Asking, Active
    <2>2. OneUser'
      BY <1>1, <1>2, <1>3, <2>0 DEF Calm, OneUser, Belongs, Asking, Active
    <2>3. GrantedNew' /\ InForce' /\ StoredInForce'
      BY <1>1, <1>2, <1>3, <2>0 DEF Calm, GrantedNew, InForce, StoredInForce, Busy, Leaving,
                                    Active
    <2> QED BY <2>1, <2>2, <2>3 DEF Calm
  <1> QED BY <1>4, <1>5 DEF CalmInv

LEMMA ExpireCalm ==
  ASSUME IInv, CalmInv, NEW t \in Tabs, Expire(t)
  PROVE  CalmInv'
  <1> USE CallKinds
  <1>1. /\ tab' = [tab EXCEPT ![t].access.valid = FALSE]
        /\ request' = [request EXCEPT ![t] = [k \in Calls |-> [@[k] EXCEPT !.access.valid = FALSE]]]
        /\ UNCHANGED <<stored, cached, exchange, leaving, owner, dead, parent, disturbed>>
    BY DEF Expire, storage, server
  <1>2. \A o \in Tabs :
          /\ tab'[o].page = tab[o].page /\ tab'[o].user = tab[o].user
          /\ tab'[o].authenticated = tab[o].authenticated
          /\ tab'[o].access.of = tab[o].access.of
    BY <1>1 DEF IInv, Types, TabStates, Accesses
  <1>3. \A o \in Tabs, k \in Calls :
          /\ request'[o][k].step = request[o][k].step
          /\ request'[o][k].who = request[o][k].who /\ request'[o][k].got = request[o][k].got
          /\ request'[o][k].access.of = request[o][k].access.of
    BY <1>1 DEF IInv, Types, RequestStates, Accesses
  <1>4. PageSteps' /\ SpentIssued'
    BY <1>1, <1>2, <1>3 DEF CalmInv, PageSteps, SpentIssued, Busy, Leaving, Asking, Active,
                            Issued
  <1>5. ASSUME ~disturbed' PROVE Calm'
    <2>0. Calm
      BY <1>1, <1>5 DEF CalmInv
    <2>1. OneBusy' /\ LoginFirst' /\ LeavingLast'
      BY <1>1, <1>2, <1>3, <2>0 DEF Calm, OneBusy, LoginFirst, LeavingLast, Busy, Leaving,
                                    Asking, Active
    <2>2. OneUser'
      BY <1>1, <1>2, <1>3, <2>0 DEF Calm, OneUser, Belongs, Asking, Active
    <2>3. GrantedNew' /\ InForce' /\ StoredInForce'
      BY <1>1, <1>2, <2>0 DEF Calm, GrantedNew, InForce, StoredInForce, Leaving, Active
    <2> QED BY <2>1, <2>2, <2>3 DEF Calm
  <1> QED BY <1>4, <1>5 DEF CalmInv

LEMMA StepCalm ==
  ASSUME IInv, CalmInv, NEW t \in Tabs, NEW c \in Callers,
         ReadToken(t, c) \/ RotateRefused(t, c) \/ LoseExchange(t, c)
  PROVE  CalmInv'
  <1> USE CallKinds
  <1>0. Active(t, c) /\ Issued(exchange[t][c].token)
    BY DEF IInv, TokensIssued, Presented, Active, ReadToken, RotateRefused, LoseExchange
  <1>1. PICK s \in {"checked", "denied", "failed"} :
          /\ exchange' = [exchange EXCEPT ![t][c].step = s]
          /\ s = "checked" \/ exchange[t][c].token \in dead \/ disturbed'
          /\ UNCHANGED <<stored, cached, tab, request, leaving, owner, parent>>
    BY DEF ReadToken, RotateRefused, LoseExchange, storage, server
  <1>2. \A o \in Tabs, d \in Callers :
          /\ exchange'[o][d].step = IF o = t /\ d = c THEN s ELSE exchange[o][d].step
          /\ exchange'[o][d].token = exchange[o][d].token
          /\ exchange'[o][d].got = exchange[o][d].got
          /\ exchange'[o][d].who = exchange[o][d].who
    BY <1>1 DEF IInv, Types, Exchanges
  <1>3. dead' = dead \/ dead' = dead \cup {exchange[t][c].token}
    BY DEF ReadToken, RotateRefused, LoseExchange, server
  <1>6. exchange[t][c].step # "waiting"
    BY DEF ReadToken, RotateRefused, LoseExchange
  <1>4. PageSteps' /\ SpentIssued'
    BY <1>0, <1>6, <1>1, <1>2, <1>3 DEF CalmInv, PageSteps, SpentIssued, Busy, Leaving,
                                        Asking, Active, Issued
  <1>5. ASSUME ~disturbed' PROVE Calm'
    <2>0. Calm /\ UNCHANGED dead
      BY <1>5 DEF CalmInv, ReadToken, RotateRefused, LoseExchange, server
    <2>1. OneBusy' /\ LoginFirst' /\ LeavingLast'
      BY <1>0, <1>1, <1>2, <2>0 DEF Calm, OneBusy, LoginFirst, LeavingLast, Busy, Leaving,
                                    Asking, Active
    <2>2. OneUser'
      BY <1>0, <1>1, <1>2, <2>0 DEF Calm, OneUser, Belongs, Asking, Active
    <2>3. GrantedNew' /\ StoredInForce'
      BY <1>0, <1>1, <1>2, <2>0 DEF Calm, GrantedNew, StoredInForce, Leaving, Active
    <2>4. s = "checked" \/ exchange[t][c].token \in dead
      BY <1>5, <1>1
    <2>5. exchange[t][c].step \in {"sent", "checked"}
      BY <1>5 DEF ReadToken, RotateRefused, LoseExchange
    <2>6. InForce'
      BY <1>0, <1>1, <1>2, <2>0, <2>4, <2>5 DEF Calm, InForce, Leaving, Active
    <2> QED BY <2>1, <2>2, <2>3, <2>6 DEF Calm
  <1> QED BY <1>4, <1>5 DEF CalmInv

LEMMA RotateCalm ==
  ASSUME IInv, CalmInv, NEW t \in Tabs, NEW c \in Callers, Rotate(t, c)
  PROVE  CalmInv'
  <1> USE CallKinds
  <1> DEFINE k == exchange[t][c].token
             f == Fresh
  <1>0. /\ Active(t, c) /\ exchange[t][c].step = "checked" /\ Issued(k)
        /\ f \in Tokens /\ owner[f] = None
        /\ k = exchange[t][c].token
    BY FreshUnissued DEF IInv, TokensIssued, Presented, Active, Rotate
  <1>1. /\ exchange' = [exchange EXCEPT ![t][c].step = "granted", ![t][c].got = f]
        /\ owner' = [owner EXCEPT ![f] = owner[k]]
    BY DEF Rotate, storage
  <1>6. /\ dead' = dead \cup {k}
        /\ UNCHANGED <<stored, cached, tab, request, leaving, disturbed>>
    BY DEF Rotate, storage
  <1> HIDE DEF k, f
  <1>2. \A o \in Tabs, d \in Callers :
          /\ exchange'[o][d].token = exchange[o][d].token
          /\ exchange'[o][d].who = exchange[o][d].who
          /\ Active(o, d)' <=> Active(o, d)
          /\ ~(o = t /\ d = c) => exchange'[o][d] = exchange[o][d]
    BY <1>0, <1>1 DEF IInv, Types, Exchanges, Active
  <1>7. exchange'[t][c].step = "granted" /\ exchange'[t][c].got = f
    BY <1>1 DEF IInv, Types, Exchanges
  <1>3. \A a \in Tokens : owner'[a] = IF a = f THEN owner[k] ELSE owner[a]
    BY <1>1 DEF IInv, Types
  <1>8. /\ f \notin dead /\ f # k /\ stored # f
        /\ \A o \in Tabs : leaving[o].step = "sent" => leaving[o].token # f
    BY <1>0, NoneApart DEF CalmInv, SpentIssued, Issued, IInv, TokensIssued
  <1>4. PageSteps' /\ SpentIssued'
    BY <1>0, <1>6, <1>2, <1>3, <1>8 DEF CalmInv, PageSteps, SpentIssued, Busy, Leaving,
                                        Asking, Active, Issued, IInv, Types
  <1>5. ASSUME ~disturbed' PROVE Calm'
    <2>0. Calm
      BY <1>6, <1>5 DEF CalmInv
    <2>1. \A o \in Tabs, d \in Callers : Active(o, d) => o = t /\ d = c
      BY <1>0, <2>0 DEF Calm, OneBusy
    <2>7. /\ \A o \in Tabs, d \in Callers :
               Active(o, d)' => /\ o = t /\ d = c /\ Active(o, d)
                                /\ exchange'[o][d].token = k /\ exchange'[o][d].got = f
                                /\ exchange'[o][d].who = exchange[o][d].who
                                /\ exchange'[o][d].step = "granted"
          /\ \A o \in Tabs, d \in Callers : ~Active(o, d)' => exchange'[o][d].step = "idle"
          /\ Active(t, c)'
      BY <1>0, <1>2, <1>7, <2>1 DEF Active
    <2>2. OneBusy'
      <3>1. \A o \in Tabs : Busy(o)' <=> Busy(o)
        BY <1>6, <1>2 DEF Busy, Active
      <3>2. \A o \in Tabs, d \in Callers : Active(o, d)' <=> Active(o, d)
        BY <1>2
      <3> QED BY <3>1, <3>2, <2>0 DEF Calm, OneBusy
    <2>3. LoginFirst' /\ LeavingLast'
      BY <1>0, <1>6, <1>2, <2>0 DEF Calm, LoginFirst, LeavingLast, Leaving, Asking
    <2>4. OneUser'
      <3>1. PICK u \in Users \cup {None} : Belongs(u)
        BY <2>0 DEF Calm, OneUser
      <3>2. owner'[f] = u /\ owner'[k] = u
        BY <1>0, <1>3, <1>8, <3>1 DEF Belongs, Issued
      <3>3. stored # None => owner'[stored] = u
        BY <1>3, <1>8, <3>1 DEF Belongs, IInv, Types
      <3>4. Belongs(u)'
        BY <1>6, <2>7, <3>1, <3>2, <3>3 DEF Belongs, Asking
      <3> QED BY <3>4 DEF OneUser
    <2>5. GrantedNew' /\ StoredInForce'
      BY <1>6, <1>8, <2>7 DEF GrantedNew, StoredInForce, Leaving
    <2>6. InForce'
      BY <1>0, <1>6, <2>7, <2>0 DEF Calm, InForce, Leaving
    <2> QED BY <2>2, <2>3, <2>4, <2>5, <2>6 DEF Calm
  <1> QED BY <1>4, <1>5 DEF CalmInv

LEMMA BootGrantedCalm ==
  ASSUME IInv, CalmInv, NEW t \in Tabs, BootGranted(t)
  PROVE  CalmInv'
  <1> USE CallKinds, Idle
  <1> DEFINE x == exchange[t]["boot"]
             s == SignedIn(x.who, AccessOf(owner[x.got]))
             r == [NoRequest EXCEPT !.step = "sent", !.access = AccessOf(owner[x.got])]
  <1>0. /\ x.step = "granted" /\ Issued(x.got) /\ Active(t, "boot")
        /\ x = exchange[t]["boot"]
    BY DEF IInv, TokensIssued, Granted, Active, BootGranted
  <1>1. /\ s.page = "open" /\ s.authenticated /\ s.user = x.who
        /\ s.access.of = owner[x.got] /\ r.access.of = owner[x.got] /\ r.step = "sent"
    BY DEF SignedIn, AccessOf, NoRequest
  <1>2. /\ tab' = [tab EXCEPT ![t] = s]
        /\ request' = [request EXCEPT ![t]["me"] = r]
        /\ exchange' = [exchange EXCEPT ![t]["boot"] = NoExchange]
    BY DEF BootGranted
  <1>3. /\ stored' = x.got /\ cached' = x.who
        /\ UNCHANGED <<leaving, owner, dead, disturbed>>
    BY DEF BootGranted, server
  <1> HIDE DEF x, s, r
  <1>4. /\ \A o \in Tabs : tab'[o] = IF o = t THEN s ELSE tab[o]
        /\ \A o \in Tabs, k \in Calls :
             request'[o][k] = IF o = t /\ k = "me" THEN r ELSE request[o][k]
        /\ \A o \in Tabs, c \in Callers :
             exchange'[o][c] = IF o = t /\ c = "boot" THEN NoExchange ELSE exchange[o][c]
    BY <1>2 DEF IInv, Types
  <1>5. PageSteps' /\ SpentIssued'
    BY <1>0, <1>1, <1>3, <1>4 DEF CalmInv, PageSteps, SpentIssued, Busy, Leaving, Asking,
                                  Active, Issued
  <1>6. ASSUME ~disturbed' PROVE Calm'
    <2>0. Calm
      BY <1>3, <1>6 DEF CalmInv
    <2>1. \A o \in Tabs : (o # t => ~Busy(o)) /\ ~Leaving(o) /\ ~Asking(o, "login")
      BY <1>0, <2>0 DEF Calm, OneBusy, LeavingLast, LoginFirst, Busy, Active
    <2>2. \A o \in Tabs, c \in Callers : exchange'[o][c].step = "idle"
      BY <1>0, <1>4, <2>0 DEF Calm, OneBusy, Active
    <2>3. OneBusy'
      BY <1>3, <1>4, <2>1, <2>2 DEF OneBusy, Busy, Active, Leaving, Asking
    <2>4. OneUser'
      <3>1. PICK u \in Users \cup {None} : Belongs(u)
        BY <2>0 DEF Calm, OneUser
      <3>2. x.who = u /\ owner[x.got] = u
        BY <1>0, <3>1 DEF Belongs
      <3>3. Belongs(u)'
        BY <1>1, <1>3, <1>4, <2>2, <3>1, <3>2 DEF Belongs, Active, Asking
      <3> QED BY <3>3 DEF OneUser
    <2>5. LoginFirst' /\ LeavingLast' /\ GrantedNew'
      BY <1>3, <1>4, <2>1, <2>2 DEF LoginFirst, LeavingLast, GrantedNew, Asking, Leaving
    <2>6. x.got # None /\ x.got \notin dead
      BY <1>0, <2>0, NoneApart DEF Calm, GrantedNew, Issued
    <2>7. InForce' /\ StoredInForce'
      BY <1>3, <2>2, <2>6 DEF InForce, StoredInForce, Active
    <2> QED BY <2>3, <2>4, <2>5, <2>7 DEF Calm
  <1> QED BY <1>5, <1>6 DEF CalmInv

\* As long as nothing was disturbed, bootstrap is neither refused nor lost.
LEMMA BootFailsCalm ==
  ASSUME IInv, CalmInv, NEW t \in Tabs, BootDenied(t) \/ BootGivesUp(t)
  PROVE  CalmInv'
  <1> USE CallKinds, Idle
  <1>0. Active(t, "boot") /\ exchange[t]["boot"].step \in {"denied", "failed"}
    BY DEF Active, BootDenied, BootGivesUp
  <1>1. disturbed
    <2>1. SUFFICES ASSUME Calm PROVE FALSE
      BY DEF CalmInv
    <2>2. \A o \in Tabs : ~Leaving(o)
      BY <1>0, <2>1 DEF Calm, LeavingLast
    <2> QED BY <1>0, <2>1, <2>2 DEF Calm, InForce
  <1>2. disturbed' /\ UNCHANGED <<request, leaving, owner, dead>>
    BY <1>1 DEF BootDenied, BootGivesUp, server
  <1>3. tab[t].page = "boot"
    BY <1>0 DEF CalmInv, PageSteps
  <1>4. PageSteps'
    <2>1. CASE BootDenied(t)
      <3>1. exchange' = [exchange EXCEPT ![t]["boot"].step = "waiting",
                                         ![t]["interceptor"] = Refreshing(t)]
        BY <2>1 DEF BootDenied
      <3>2. \A o \in Tabs : /\ o # t => exchange'[o] = exchange[o]
                            /\ o = t => exchange'[o]["boot"].step = "waiting"
        BY <3>1 DEF IInv, Types, Exchanges
      <3>3. UNCHANGED tab
        BY <2>1 DEF BootDenied
      <3> QED BY <1>2, <1>3, <3>2, <3>3 DEF CalmInv, PageSteps, Busy, Leaving, Asking,
                                            Active
    <2>2. CASE BootGivesUp(t)
      <3>1. /\ tab' = [tab EXCEPT ![t].page = "open"]
            /\ exchange' = [exchange EXCEPT ![t]["boot"] = NoExchange]
        BY <2>2 DEF BootGivesUp
      <3>2. \A o \in Tabs :
              /\ tab'[o].page = IF o = t THEN "open" ELSE tab[o].page
              /\ tab'[o].authenticated = tab[o].authenticated
              /\ exchange'[o]["boot"] = IF o = t THEN NoExchange ELSE exchange[o]["boot"]
              /\ o # t => exchange'[o] = exchange[o]
        BY <3>1 DEF IInv, Types, TabStates
      <3> QED BY <1>2, <3>2 DEF CalmInv, PageSteps, Busy, Leaving, Asking, Active
    <2> QED BY <2>1, <2>2
  <1>5. SpentIssued'
    BY <1>2 DEF CalmInv, SpentIssued, Issued
  <1> QED BY <1>2, <1>4, <1>5 DEF CalmInv

LEMMA LoginCalm ==
  ASSUME IInv, CalmInv, NEW t \in Tabs, NEW v \in Users, Login(t, v)
  PROVE  CalmInv'
  <1> USE CallKinds
  <1> DEFINE r == [NoRequest EXCEPT !.step = "sent", !.who = v]
  <1>0. r.step = "sent"
    BY DEF NoRequest
  <1>1. request' = [request EXCEPT ![t]["login"] = r]
    BY DEF Login
  <1>2. /\ UNCHANGED <<stored, cached, tab, exchange, leaving, owner, dead>>
        /\ tab[t].page = "open" /\ ~tab[t].authenticated
    BY DEF Login, storage, server
  <1>3. ~disturbed' => /\ ~disturbed /\ Alone(t) /\ ~Busy(t)
                       /\ \A o \in Tabs \ {t} : ~tab[o].authenticated
    BY Zenon DEF Login
  <1> HIDE DEF r
  <1>4. \A o \in Tabs, k \in Calls :
          request'[o][k] = IF o = t /\ k = "login" THEN r ELSE request[o][k]
    BY <1>1 DEF IInv, Types
  <1>5. PageSteps' /\ SpentIssued'
    BY <1>0, <1>2, <1>4 DEF CalmInv, PageSteps, SpentIssued, Busy, Leaving, Asking, Active,
                            Issued
  <1>6. ASSUME ~disturbed' PROVE Calm'
    <2>0. Calm /\ \A o \in Tabs : ~Busy(o) /\ ~tab[o].authenticated
      BY <1>2, <1>3, <1>6 DEF CalmInv, Alone
    <2>1. OneBusy' /\ LoginFirst' /\ LeavingLast'
      BY <1>0, <1>2, <1>4, <2>0 DEF OneBusy, LoginFirst, LeavingLast, Busy, Leaving, Asking,
                                    Active
    <2>2. OneUser'
      BY <1>2, <1>4, <2>0 DEF Calm, OneUser, Belongs, Asking, Active
    <2>3. GrantedNew' /\ InForce' /\ StoredInForce'
      BY <1>2, <2>0 DEF Calm, GrantedNew, InForce, StoredInForce, Leaving, Active
    <2> QED BY <2>1, <2>2, <2>3 DEF Calm
  <1> QED BY <1>5, <1>6 DEF CalmInv

LEMMA AnswerLoginCalm ==
  ASSUME IInv, CalmInv, NEW t \in Tabs, AnswerLogin(t)
  PROVE  CalmInv'
  <1> USE CallKinds
  <1> DEFINE w == request[t]["login"].who
             f == Fresh
  <1>0. f \in Tokens /\ owner[f] = None /\ Asking(t, "login")
    BY FreshUnissued DEF AnswerLogin, Asking
  <1>1. /\ owner' = [owner EXCEPT ![f] = w]
        /\ request' = [request EXCEPT ![t]["login"].step = "ok", ![t]["login"].got = f]
    BY DEF AnswerLogin
  <1>2. UNCHANGED <<stored, cached, tab, exchange, leaving, dead, disturbed>>
    BY DEF AnswerLogin, storage
  <1>3. /\ \A o \in Tabs, k \in Calls :
             /\ ~(o = t /\ k = "login") => request'[o][k] = request[o][k]
             /\ request'[o][k].step # "idle" <=> request[o][k].step # "idle"
        /\ request'[t]["login"].step = "ok" /\ request'[t]["login"].got = f
        /\ request'[t]["login"].who = w
    BY <1>0, <1>1 DEF IInv, Types, RequestStates, Asking
  <1>4. \A a \in Tokens : owner'[a] = IF a = f THEN w ELSE owner[a]
    BY <1>1 DEF IInv, Types
  <1> HIDE DEF w, f
  <1>5. /\ stored # f /\ f \notin dead
        /\ \A o \in Tabs : leaving[o].step = "sent" => leaving[o].token # f
    BY <1>0, NoneApart DEF CalmInv, SpentIssued, Issued, IInv, TokensIssued
  <1>6. PageSteps' /\ SpentIssued'
    BY <1>0, <1>2, <1>3, <1>4, <1>5 DEF CalmInv, PageSteps, SpentIssued, Busy, Leaving,
                                        Asking, Active, Issued, IInv, Types
  <1>7. ASSUME ~disturbed' PROVE Calm'
    <2>0. Calm
      BY <1>2, <1>7 DEF CalmInv
    <2>1. \A o \in Tabs : /\ ~tab[o].authenticated /\ ~Leaving(o) /\ ~Asking(o, "me")
                          /\ \A c \in Callers : ~Active(o, c)
                          /\ o # t => ~Asking(o, "login")
      BY <1>0, <2>0 DEF Calm, LoginFirst, OneBusy, Busy, Asking
    <2>2. OneBusy' /\ LoginFirst' /\ LeavingLast'
      BY <1>2, <1>3, <1>4, <1>5, <1>0, <2>1 DEF OneBusy, LoginFirst, LeavingLast, Busy,
                                                Leaving, Asking, Active
    <2>3. OneUser'
      <3>1. PICK u \in Users \cup {None} : Belongs(u)
        BY <2>0 DEF Calm, OneUser
      <3>2. stored # None => owner'[stored] = u
        BY <1>4, <1>5, <3>1 DEF Belongs, IInv, Types
      <3>3. Belongs(u)'
        BY <1>2, <1>3, <2>1, <3>1, <3>2 DEF Belongs, Asking, Active
      <3> QED BY <3>3 DEF OneUser
    <2>4. GrantedNew' /\ InForce' /\ StoredInForce'
      BY <1>2, <2>0, <2>1 DEF Calm, GrantedNew, InForce, StoredInForce, Leaving, Active
    <2> QED BY <2>2, <2>3, <2>4 DEF Calm
  <1> QED BY <1>6, <1>7 DEF CalmInv

LEMMA ArriveCalm ==
  ASSUME IInv, CalmInv, NEW t \in Tabs, NEW k \in Calls, Arrive(t, k)
  PROVE  CalmInv'
  <1> USE CallKinds, Idle
  <1> DEFINE q == request[t][k]
  <1>0. Asking(t, k) /\ q.step = "ok" /\ q = request[t][k] /\ tab[t].page = "open"
    BY DEF Arrive, Asking, CalmInv, PageSteps, IInv, Types, TabStates
  <1>1. request' = [request EXCEPT ![t][k] = NoRequest]
    BY DEF Arrive
  <1>2. UNCHANGED <<exchange, leaving, owner, dead, disturbed>>
    BY DEF Arrive, server
  <1> HIDE DEF q
  <1>3. \A o \in Tabs, j \in Calls :
          request'[o][j] = IF o = t /\ j = k THEN NoRequest ELSE request[o][j]
    BY <1>1 DEF IInv, Types
  <1>4. SpentIssued'
    BY <1>2 DEF CalmInv, SpentIssued, Issued
  <1>5. CASE k = "login"
    <2> DEFINE s == SignedIn(q.who, AccessOf(q.who))
    <2>1. s.page = "open" /\ s.authenticated /\ s.user = q.who /\ s.access.of = q.who
      BY DEF SignedIn, AccessOf
    <2>2. tab' = [tab EXCEPT ![t] = s]
      BY <1>5 DEF Arrive, q
    <2>3. stored' = q.got /\ cached' = q.who
      BY <1>5 DEF Arrive, q
    <2> HIDE DEF s
    <2>4. \A o \in Tabs : tab'[o] = IF o = t THEN s ELSE tab[o]
      BY <2>2 DEF IInv, Types
    <2>5. PageSteps'
      BY <1>0, <1>2, <1>3, <2>1, <2>4 DEF CalmInv, PageSteps, Busy, Leaving, Asking, Active
    <2>6. ASSUME ~disturbed' PROVE Calm'
      <3>0. Calm
        BY <1>2, <2>6 DEF CalmInv
      <3>1. /\ \A o \in Tabs : /\ ~tab[o].authenticated /\ ~Leaving(o) /\ ~Asking(o, "me")
                               /\ \A c \in Callers : ~Active(o, c)
                               /\ o # t => ~Asking(o, "login")
            /\ q.got \notin dead /\ owner[q.got] = q.who
        BY <1>0, <1>5, <3>0 DEF Calm, LoginFirst, OneBusy, Busy, Asking
      <3>2. q.got # None /\ q.who \in Users \cup {None}
        BY <1>0, <1>5, NoneApart DEF IInv, TokensIssued, Issued, Types, RequestStates
      <3>3. OneBusy' /\ LoginFirst' /\ LeavingLast'
        BY <1>2, <1>3, <1>5, <3>1 DEF OneBusy, LoginFirst, LeavingLast, Busy, Leaving,
                                      Asking, Active
      <3> PICK w \in Users \cup {None} : w = q.who
        BY <3>2
      <3>4. Belongs(w)'
        BY <1>2, <1>3, <2>1, <2>3, <2>4, <3>1 DEF Belongs, Asking, Active
      <3>5. OneUser'
        BY <3>2, <3>4 DEF OneUser
      <3>6. GrantedNew' /\ InForce' /\ StoredInForce'
        BY <1>2, <2>3, <3>1, <3>2 DEF GrantedNew, InForce, StoredInForce, Active
      <3> QED BY <3>3, <3>5, <3>6 DEF Calm
    <2> QED BY <1>4, <2>5, <2>6 DEF CalmInv
  <1>6. CASE k = "me"
    <2>1. tab' = [tab EXCEPT ![t].user = q.who]
      BY <1>6 DEF Arrive, q
    <2>2. UNCHANGED stored /\ cached' = q.who
      BY <1>6 DEF Arrive, q
    <2>3. \A o \in Tabs : /\ tab'[o].page = tab[o].page
                          /\ tab'[o].authenticated = tab[o].authenticated
                          /\ tab'[o].access = tab[o].access
                          /\ tab'[o].user = IF o = t THEN q.who ELSE tab[o].user
      BY <2>1 DEF IInv, Types, TabStates
    <2>4. PageSteps'
      BY <1>2, <1>3, <2>3 DEF CalmInv, PageSteps, Busy, Leaving, Asking, Active
    <2>5. ASSUME ~disturbed' PROVE Calm'
      <3>0. Calm
        BY <1>2, <2>5 DEF CalmInv
      <3>1. OneBusy'
        BY <1>2, <1>3, <3>0 DEF Calm, OneBusy, Busy, Asking, Active
      <3>2. LoginFirst' /\ LeavingLast'
        BY <1>2, <1>3, <1>6, <2>3, <3>0 DEF Calm, LoginFirst, LeavingLast, Leaving, Asking,
                                            Active
      <3>3. OneUser'
        <4>1. PICK u \in Users \cup {None} : Belongs(u)
          BY <3>0 DEF Calm, OneUser
        <4>2. q.who = u
          BY <1>0, <1>6, <4>1 DEF Belongs
        <4>3. Belongs(u)'
          BY <1>2, <1>3, <2>2, <2>3, <4>1, <4>2 DEF Belongs, Asking, Active
        <4> QED BY <4>3 DEF OneUser
      <3>4. GrantedNew' /\ InForce' /\ StoredInForce'
        BY <1>2, <2>2, <2>3, <3>0 DEF Calm, GrantedNew, InForce, StoredInForce, Leaving,
                                      Active
      <3> QED BY <3>1, <3>2, <3>3, <3>4 DEF Calm
    <2> QED BY <1>4, <2>4, <2>5 DEF CalmInv
  <1>7. CASE k # "login" /\ k # "me"
    <2>1. UNCHANGED <<stored, cached, tab>> /\ UNCHANGED parent
      BY <1>7 DEF Arrive, storage, server
    <2> QED BY <1>1, <1>2, <1>7, <2>1, RequestCalm
  <1> QED BY <1>5, <1>6, <1>7

\* The calls that only their own caller waits for.
LEMMA SmallCallsCalm ==
  ASSUME IInv, CalmInv, NEW t \in Tabs, NEW k \in Calls,
         Send(t, k) \/ Answer(t, k) \/ LoseRequest(t, k) \/ DenyLogin(t)
  PROVE  CalmInv'
  <1> USE CallKinds, Idle
  <1>0. UNCHANGED <<stored, cached, tab, exchange, leaving, owner, dead, parent, disturbed>>
    BY DEF Send, Answer, LoseRequest, DenyLogin, storage, server
  <1>1. CASE Send(t, k)
    <2> DEFINE r == [NoRequest EXCEPT !.step = "sent", !.access = tab[t].access]
    <2>1. r \in RequestStates /\ k # "login" /\ k # "me"
      BY <1>1, SessionAssumption
         DEF SessionAssumption, Send, NoRequest, NoAccess, RequestStates, IInv, Types, TabStates
    <2>2. tab[t].page = "open" /\ request' = [request EXCEPT ![t][k] = r]
      BY <1>1 DEF Send, CalmInv, PageSteps
    <2> HIDE DEF r
    <2> QED BY <1>0, <2>1, <2>2, RequestCalm
  <1>2. CASE Answer(t, k)
    <2> DEFINE q == request[t][k]
               r == IF ~q.access.valid THEN [q EXCEPT !.step = "denied"]
                    ELSE IF k = "me" THEN [q EXCEPT !.step = "ok", !.who = q.access.of]
                    ELSE NoRequest
    <2>1. q \in RequestStates /\ Asking(t, k) /\ tab[t].page = "open" /\ k # "login"
      BY <1>2 DEF Answer, IInv, Types, Asking, CalmInv, PageSteps, TabStates
    <2>2. /\ r \in RequestStates /\ (k = "me" => r.access.of = q.access.of)
          /\ r.step = "ok" => k = "me" /\ r.who = r.access.of
      BY <2>1 DEF NoRequest, RequestStates, NoAccess, Accesses
    <2>3. request' = [request EXCEPT ![t][k] = r]
      BY <1>2 DEF Answer
    <2>4. q = request[t][k]
      OBVIOUS
    <2> HIDE DEF r, q
    <2> QED BY <1>0, <2>1, <2>2, <2>3, <2>4, RequestCalm
  <1>3. CASE LoseRequest(t, k)
    <2>1. request' = [request EXCEPT ![t][k] = NoRequest]
      BY <1>3 DEF LoseRequest
    <2> QED BY <1>0, <2>1, RequestCalm
  <1>4. CASE DenyLogin(t)
    <2> DEFINE q == request[t]["login"]
               r == [q EXCEPT !.step = "denied"]
    <2>1. q \in RequestStates /\ Asking(t, "login") /\ tab[t].page = "open"
      BY <1>4 DEF DenyLogin, IInv, Types, Asking, CalmInv, PageSteps, TabStates
    <2>2. r \in RequestStates /\ r.step = "denied"
      BY <2>1 DEF RequestStates
    <2>3. request' = [request EXCEPT ![t]["login"] = r]
      BY <1>4 DEF DenyLogin
    <2> HIDE DEF r, q
    <2> QED BY <1>0, <2>1, <2>2, <2>3, RequestCalm
  <1> QED BY <1>1, <1>2, <1>3, <1>4

LEMMA DeniedCalm ==
  ASSUME IInv, CalmInv, NEW t \in Tabs, NEW k \in Calls, Denied(t, k)
  PROVE  CalmInv'
  <1> USE CallKinds, Idle
  <1>0. UNCHANGED <<stored, cached, tab, leaving, owner, dead>>
    BY DEF Denied, storage, server
  <1>1. CASE request[t][k].again \/ stored = None
    <2>1. /\ request' = [request EXCEPT ![t][k] = NoRequest]
          /\ UNCHANGED <<exchange, parent, disturbed>>
      BY <1>1 DEF Denied, server
    <2> QED BY <1>0, <2>1, RequestCalm
  <1>2. CASE ~(request[t][k].again \/ stored = None)
    <2> DEFINE r == [request[t][k] EXCEPT !.step = "waiting", !.again = TRUE]
               x == Refreshing(t)
    <2>0. /\ r.step = "waiting" /\ r.access.of = request[t][k].access.of
          /\ Asking(t, k) /\ tab[t].page = "open"
      BY DEF IInv, Types, RequestStates, TabStates, Asking, Denied, CalmInv, PageSteps
    <2>1. /\ request' = [request EXCEPT ![t][k] = r]
          /\ exchange' = [exchange EXCEPT ![t]["interceptor"] = x]
      BY <1>2 DEF Denied
    <2>2. ~disturbed' => ~disturbed /\ Alone(t) /\ request[t]["login"].step = "idle"
      BY <1>2, Zenon DEF Denied
    <2>3. stored # None /\ stored \in Tokens
      BY <1>2 DEF IInv, Types
    <2>4. /\ Active(t, "interceptor") => x = exchange[t]["interceptor"]
          /\ ~Active(t, "interceptor") => x.step = "sent" /\ x.token = stored
      <3>1. /\ Present(stored, None, FALSE).step = "sent"
            /\ Present(stored, None, FALSE).token = stored
        BY DEF Present, NoExchange
      <3> QED BY <3>1 DEF Active, Refreshing
    <2> HIDE DEF r, x
    <2>5. /\ \A o \in Tabs, j \in Calls :
               request'[o][j] = IF o = t /\ j = k THEN r ELSE request[o][j]
          /\ \A o \in Tabs, c \in Callers :
               exchange'[o][c] = IF o = t /\ c = "interceptor" THEN x ELSE exchange[o][c]
      BY <2>1 DEF IInv, Types
    <2>6. PageSteps' /\ SpentIssued'
      <3>1. ~Active(t, "boot")
        BY <2>0 DEF CalmInv, PageSteps
      <3>2. PageSteps'
        BY <1>0, <2>0, <2>5, <3>1 DEF CalmInv, PageSteps, Busy, Leaving, Asking, Active
      <3>3. SpentIssued'
        BY <1>0 DEF CalmInv, SpentIssued, Issued
      <3> QED BY <3>2, <3>3
    <2>7. ASSUME ~disturbed' PROVE Calm'
      <3>0. Calm /\ ~Active(t, "boot")
        BY <2>0, <2>2, <2>7 DEF CalmInv, PageSteps
      <3>1. /\ \A o \in Tabs : (o # t => ~Busy(o)) /\ ~Asking(o, "login")
            /\ k # "login"
        BY <2>0, <2>2, <2>7 DEF Alone, Busy, Asking
      <3>2. \A o \in Tabs, c \in Callers : ~(o = t /\ c = "interceptor") => ~Active(o, c)
        BY <3>0, <3>1 DEF Busy, Active, Callers
      <3>3. OneBusy'
        BY <1>0, <2>5, <3>1, <3>2 DEF OneBusy, Busy, Active, Asking, Leaving
      <3>4. LoginFirst' /\ LeavingLast'
        BY <1>0, <2>5, <3>0, <3>1 DEF Calm, LoginFirst, LeavingLast, Leaving, Asking, Active
      <3>5. OneUser'
        <4>1. PICK u \in Users \cup {None} : Belongs(u)
          BY <3>0 DEF Calm, OneUser
        <4>2. /\ x.step # "idle" => owner[x.token] = u
              /\ x.step = "granted" => owner[x.got] = u
          BY <2>3, <2>4, <4>1 DEF Belongs, Active
        <4>3. Belongs(u)'
          BY <1>0, <2>0, <2>5, <4>1, <4>2 DEF Belongs, Active, Asking
        <4> QED BY <4>3 DEF OneUser
      <3>6. GrantedNew'
        BY <1>0, <2>4, <2>5, <3>0 DEF Calm, GrantedNew, Active
      <3>7. ~Active(t, "interceptor") => stored \notin dead \/ \E o \in Tabs : Leaving(o)
        BY <2>3, <3>0, <3>2 DEF Calm, StoredInForce
      <3>8. InForce' /\ StoredInForce'
        BY <1>0, <2>3, <2>4, <2>5, <3>0, <3>2, <3>7 DEF Calm, InForce, StoredInForce,
                                                        Leaving, Active
      <3> QED BY <3>3, <3>4, <3>5, <3>6, <3>8 DEF Calm
    <2> QED BY <2>6, <2>7 DEF CalmInv
  <1> QED BY <1>1, <1>2

LEMMA RefreshArrivesCalm ==
  ASSUME IInv, CalmInv, NEW t \in Tabs, RefreshArrives(t)
  PROVE  CalmInv'
  <1> USE CallKinds, Idle
  <1> DEFINE x == exchange[t]["interceptor"]
             b == exchange[t]["boot"]
             w == owner[x.got]
  <1>0. /\ Active(t, "interceptor") /\ x.step = "granted" /\ Issued(x.got)
        /\ x = exchange[t]["interceptor"]
    BY DEF IInv, TokensIssued, Granted, Active, RefreshArrives
  <1>1. /\ stored' = x.got
        /\ UNCHANGED <<cached, leaving, owner, dead, disturbed>>
    BY DEF RefreshArrives, server
  <1>2. \A o \in Tabs : /\ tab'[o].page = tab[o].page /\ tab'[o].user = tab[o].user
                        /\ tab'[o].authenticated = tab[o].authenticated
                        /\ tab'[o].access.of = IF o = t THEN w ELSE tab[o].access.of
    BY DEF RefreshArrives, AccessOf, IInv, Types, TabStates
  <1>3. \A o \in Tabs, k \in Calls :
          /\ request'[o][k].step # "idle" <=> request[o][k].step # "idle"
          /\ request'[o][k].step = "ok" <=> request[o][k].step = "ok"
          /\ request'[o][k].who = request[o][k].who
          /\ request'[o][k].got = request[o][k].got
          /\ request'[o][k].access.of \in {request[o][k].access.of, w}
    <2> DEFINE r == [k \in Calls |->
                      IF request[t][k].step = "waiting"
                        THEN [request[t][k] EXCEPT !.step = "sent", !.access = AccessOf(w)]
                        ELSE request[t][k]]
    <2>1. request' = [request EXCEPT ![t] = r]
      BY DEF RefreshArrives
    <2>2. AccessOf(w).of = w
      BY DEF AccessOf
    <2> HIDE DEF w
    <2>3. \A k \in Calls :
            /\ r[k].step # "idle" <=> request[t][k].step # "idle"
            /\ r[k].step = "ok" <=> request[t][k].step = "ok"
            /\ r[k].who = request[t][k].who /\ r[k].got = request[t][k].got
            /\ r[k].access.of \in {request[t][k].access.of, w}
      BY <2>2 DEF IInv, Types, RequestStates
    <2> HIDE DEF r
    <2>4. \A o \in Tabs : request'[o] = IF o = t THEN r ELSE request[o]
      BY <2>1 DEF IInv, Types
    <2> QED BY <2>3, <2>4
  <1>4. /\ \A o \in Tabs, c \in Callers : o # t => exchange'[o][c] = exchange[o][c]
        /\ exchange'[t]["interceptor"].step = "idle"
        /\ exchange'[t]["boot"].step # "idle" => b.step # "idle"
    <2>1. exchange' = [exchange EXCEPT ![t]["interceptor"] = NoExchange,
                         ![t]["boot"] = IF b.step = "waiting"
                                          THEN Present(b.token, b.who, TRUE) ELSE b]
      BY DEF RefreshArrives, IInv, Types
    <2> HIDE DEF b
    <2>2. exchange'[t]["boot"] = IF b.step = "waiting" THEN Present(b.token, b.who, TRUE) ELSE b
      BY <2>1 DEF IInv, Types
    <2> QED BY <2>1, <2>2 DEF IInv, Types
  <1> HIDE DEF x, w
  <1>5. PageSteps' /\ SpentIssued'
    BY <1>0, <1>1, <1>2, <1>3, <1>4 DEF CalmInv, PageSteps, SpentIssued, Busy, Leaving,
                                        Asking, Active, Issued, Callers
  <1>6. ASSUME ~disturbed' PROVE Calm'
    <2>0. Calm
      BY <1>1, <1>6 DEF CalmInv
    <2>1. \A o \in Tabs : (o # t => ~Busy(o)) /\ ~Active(o, "boot") /\ ~Asking(o, "login")
      BY <1>0, <2>0 DEF Calm, OneBusy, LoginFirst, Busy, Active
    <2>2. \A o \in Tabs, c \in Callers : exchange'[o][c].step = "idle"
      BY <1>4, <2>1 DEF Busy, Active, Callers
    <2>3. OneBusy'
      BY <1>1, <1>3, <2>1, <2>2 DEF OneBusy, Busy, Active, Leaving, Asking
    <2>4. LoginFirst' /\ LeavingLast' /\ GrantedNew'
      BY <1>1, <1>2, <1>3, <2>0, <2>1, <2>2 DEF Calm, LoginFirst, LeavingLast, GrantedNew,
                                                Asking, Leaving, Active
    <2>5. OneUser'
      <3>1. PICK u \in Users \cup {None} : Belongs(u)
        BY <2>0 DEF Calm, OneUser
      <3>2. w = u /\ owner'[stored'] = u
        BY <1>0, <1>1, <3>1 DEF Belongs, w
      <3>3. Belongs(u)'
        BY <1>1, <1>2, <1>3, <2>2, <3>1, <3>2 DEF Belongs, Active, Asking
      <3> QED BY <3>3 DEF OneUser
    <2>6. x.got # None /\ x.got \notin dead
      BY <1>0, <2>0, NoneApart DEF Calm, GrantedNew, Issued
    <2>7. InForce' /\ StoredInForce'
      BY <1>1, <2>2, <2>6 DEF InForce, StoredInForce, Active
    <2> QED BY <2>3, <2>4, <2>5, <2>7 DEF Calm
  <1> QED BY <1>5, <1>6 DEF CalmInv

LEMMA RefreshFailsCalm ==
  ASSUME IInv, CalmInv, NEW t \in Tabs, RefreshFails(t)
  PROVE  CalmInv'
  <1> USE CallKinds, Idle, SignedOutKnown
  <1> DEFINE b == exchange[t]["boot"]
             r == [k \in Calls |->
                    IF request[t][k].step = "waiting" THEN NoRequest ELSE request[t][k]]
  <1>0. /\ Active(t, "interceptor")
        /\ exchange[t]["interceptor"].step \in {"denied", "failed"}
    BY DEF Active, RefreshFails
  <1>1. /\ stored' = None /\ cached' \in {None, cached}
        /\ UNCHANGED <<leaving, owner, dead, disturbed>>
    BY DEF RefreshFails, server
  <1>2. /\ tab' = [tab EXCEPT ![t] = SignedOut("open")]
        /\ request' = [request EXCEPT ![t] = r]
    BY DEF RefreshFails
  <1>3. exchange' = [exchange EXCEPT ![t]["interceptor"] = NoExchange,
                       ![t]["boot"] = IF b.step = "waiting" THEN NoExchange ELSE b]
    BY DEF RefreshFails, IInv, Types
  <1>4. \A k \in Calls : r[k].step # "idle" => r[k] = request[t][k]
    OBVIOUS
  <1>5. b = exchange[t]["boot"] /\ SignedOut("open").page = "open"
    BY DEF SignedOut
  <1> HIDE DEF r, b
  <1>6. /\ \A o \in Tabs : tab'[o] = IF o = t THEN SignedOut("open") ELSE tab[o]
        /\ \A o \in Tabs : request'[o] = IF o = t THEN r ELSE request[o]
    BY <1>2 DEF IInv, Types
  <1>7. /\ \A o \in Tabs, c \in Callers : o # t => exchange'[o][c] = exchange[o][c]
        /\ exchange'[t]["interceptor"].step = "idle"
        /\ exchange'[t]["boot"] = IF b.step = "waiting" THEN NoExchange ELSE b
    BY <1>3 DEF IInv, Types
  <1>8. exchange'[t]["boot"].step = "idle"
    BY <1>0, <1>5, <1>7 DEF CalmInv, PageSteps, Active
  <1>9. PageSteps' /\ SpentIssued'
    <2>1. \A o \in Tabs : o # t => (Busy(o)' <=> Busy(o))
      BY <1>1, <1>6, <1>7 DEF Busy
    <2>2. PageSteps'
      BY <1>1, <1>5, <1>6, <1>7, <1>8, <2>1 DEF CalmInv, PageSteps, Leaving, Asking, Active
    <2>3. SpentIssued'
      BY <1>1 DEF CalmInv, SpentIssued, Issued
    <2> QED BY <2>2, <2>3
  <1>10. ASSUME ~disturbed' PROVE Calm'
    <2>0. Calm
      BY <1>1, <1>10 DEF CalmInv
    <2>1. \A o \in Tabs : (o # t => ~Busy(o)) /\ ~Asking(o, "login")
      BY <1>0, <2>0 DEF Calm, OneBusy, LoginFirst, Busy, Active
    <2>2. \A o \in Tabs, c \in Callers : exchange'[o][c].step = "idle"
      BY <1>7, <1>8, <2>1 DEF Busy, Active, Callers
    <2>3. \A o \in Tabs : Busy(o)' => o = t
      BY <1>1, <1>6, <2>1, <2>2 DEF Busy
    <2>4. OneBusy'
      BY <2>2, <2>3 DEF OneBusy, Active
    <2>5. \A o \in Tabs, k \in Calls : request'[o][k].step # "idle" => request'[o][k] = request[o][k]
      BY <1>4, <1>6
    <2>6. LoginFirst' /\ LeavingLast' /\ GrantedNew'
      BY <1>1, <1>6, <2>0, <2>1, <2>2, <2>5 DEF Calm, LoginFirst, LeavingLast, GrantedNew,
                                                Asking, Leaving, Active
    <2>7. OneUser'
      <3>1. PICK u \in Users \cup {None} : Belongs(u)
        BY <2>0 DEF Calm, OneUser
      <3>2. \A o \in Tabs : tab'[o].authenticated => tab'[o] = tab[o]
        BY <1>6
      <3>3. Belongs(u)'
        BY <1>1, <2>2, <2>5, <3>1, <3>2 DEF Belongs, Active, Asking
      <3> QED BY <3>3 DEF OneUser
    <2>8. (\A o \in Tabs : ~Leaving(o)) => \A o \in Tabs : ~tab[o].authenticated
      BY <1>0, <2>0 DEF Calm, InForce
    <2>9. InForce' /\ StoredInForce'
      BY <1>1, <1>6, <2>2, <2>8 DEF InForce, StoredInForce, Active, Leaving
    <2> QED BY <2>4, <2>6, <2>7, <2>9 DEF Calm
  <1> QED BY <1>9, <1>10 DEF CalmInv

LEMMA LogoutCalm ==
  ASSUME IInv, CalmInv, NEW t \in Tabs, Logout(t)
  PROVE  CalmInv'
  <1> USE CallKinds
  <1>0. /\ tab[t].authenticated /\ tab[t].page = "open" /\ ~Active(t, "boot")
    BY DEF Logout, CalmInv, PageSteps, IInv, Types, TabStates
  <1> DEFINE l == [step |-> IF stored = None THEN "done" ELSE "sent", token |-> stored]
  <1>1. leaving' = [leaving EXCEPT ![t] = l]
    BY DEF Logout
  <1>2. UNCHANGED <<stored, cached, tab, exchange, request, owner, dead>>
    BY DEF Logout, storage, server
  <1>3. ~disturbed' => ~disturbed /\ Alone(t) /\ \A o \in Tabs \ {t} : ~tab[o].authenticated
    BY Zenon DEF Logout
  <1>4. /\ l.step = "sent" => l.token = stored /\ Issued(stored)
        /\ l.step # "idle"
    BY DEF IInv, TokensIssued
  <1> HIDE DEF l
  <1>5. \A o \in Tabs : leaving'[o] = IF o = t THEN l ELSE leaving[o]
    BY <1>1 DEF IInv, Types
  <1>6. PageSteps' /\ SpentIssued'
    BY <1>0, <1>2, <1>4, <1>5 DEF CalmInv, PageSteps, SpentIssued, Busy, Leaving, Asking,
                                  Active, Issued
  <1>7. ASSUME ~disturbed' PROVE Calm'
    <2>0. Calm /\ \A o \in Tabs : o # t => ~Busy(o) /\ ~tab[o].authenticated
      BY <1>3, <1>7 DEF CalmInv, Alone
    <2>1. \A o \in Tabs : ~Active(o, "boot") /\ ~Asking(o, "login")
      BY <1>0, <2>0 DEF Busy, Active, Calm, LoginFirst
    <2>2. \A o \in Tabs : Busy(o)' => o = t
      BY <1>2, <1>5, <2>0 DEF Busy
    <2>3. OneBusy'
      BY <1>2, <2>0, <2>2 DEF Calm, OneBusy, Active
    <2>4. LoginFirst' /\ LeavingLast'
      BY <1>2, <1>5, <2>0, <2>1 DEF LoginFirst, LeavingLast, Leaving, Asking, Active, Busy
    <2>5. OneUser'
      BY <1>2, <2>0 DEF Calm, OneUser, Belongs, Asking, Active
    <2>6. GrantedNew'
      BY <1>2, <1>4, <1>5, <2>0 DEF Calm, GrantedNew
    <2>7. InForce' /\ StoredInForce'
      BY <1>2, <1>4, <1>5 DEF InForce, StoredInForce, Leaving, Active
    <2> QED BY <2>3, <2>4, <2>5, <2>6, <2>7 DEF Calm
  <1> QED BY <1>6, <1>7 DEF CalmInv

LEMMA RevokeCalm ==
  ASSUME IInv, CalmInv, NEW t \in Tabs, RevokeOnLogout(t) \/ LoseLogout(t)
  PROVE  CalmInv'
  <1> USE CallKinds
  <1> DEFINE k == leaving[t].token
  <1>0. Leaving(t) /\ leaving[t].step = "sent" /\ Issued(k) /\ k = leaving[t].token
    BY DEF RevokeOnLogout, LoseLogout, Leaving, CalmInv, SpentIssued
  <1>1. leaving' = [leaving EXCEPT ![t].step = "done"]
    BY DEF RevokeOnLogout, LoseLogout
  <1>2. /\ UNCHANGED <<stored, cached, tab, exchange, request, owner, disturbed>>
        /\ dead' = dead \/ dead' = dead \cup {k}
    BY DEF RevokeOnLogout, LoseLogout, storage, server
  <1> HIDE DEF k
  <1>3. \A o \in Tabs : /\ leaving'[o].token = leaving[o].token
                        /\ leaving'[o].step = IF o = t THEN "done" ELSE leaving[o].step
    BY <1>1 DEF IInv, Types, Leavings
  <1>4. PageSteps' /\ SpentIssued'
    BY <1>0, <1>2, <1>3 DEF CalmInv, PageSteps, SpentIssued, Busy, Leaving, Asking, Active,
                            Issued
  <1>5. ASSUME ~disturbed' PROVE Calm'
    <2>0. Calm
      BY <1>2, <1>5 DEF CalmInv
    <2>1. \A o \in Tabs : ~Asking(o, "login")
      BY <1>0, <2>0 DEF Calm, LoginFirst
    <2>2. OneBusy' /\ LoginFirst' /\ LeavingLast'
      BY <1>0, <1>2, <1>3, <2>0, <2>1 DEF Calm, OneBusy, LoginFirst, LeavingLast, Busy,
                                          Leaving, Asking, Active
    <2>3. OneUser'
      BY <1>2, <2>0 DEF Calm, OneUser, Belongs, Asking, Active
    <2>4. GrantedNew'
      BY <1>0, <1>2, <1>3, <2>0 DEF Calm, GrantedNew
    <2>5. Leaving(t)'
      BY <1>3 DEF Leaving
    <2>6. InForce' /\ StoredInForce'
      BY <2>5 DEF InForce, StoredInForce
    <2> QED BY <2>2, <2>3, <2>4, <2>6 DEF Calm
  <1> QED BY <1>4, <1>5 DEF CalmInv

LEMMA LogoutEndsCalm ==
  ASSUME IInv, CalmInv, NEW t \in Tabs, LogoutEnds(t)
  PROVE  CalmInv'
  <1> USE CallKinds, SignedOutKnown
  <1>0. Leaving(t) /\ tab[t].page = "open"
    BY DEF LogoutEnds, Leaving, CalmInv, PageSteps, IInv, Types, TabStates
  <1>1. /\ leaving' = [leaving EXCEPT ![t] = NoLeaving]
        /\ tab' = [tab EXCEPT ![t] = SignedOut("open")]
    BY DEF LogoutEnds
  <1>2. /\ stored' = None /\ cached' = None
        /\ UNCHANGED <<exchange, request, owner, dead, disturbed>>
    BY DEF LogoutEnds, server
  <1>3. SignedOut("open").page = "open" /\ NoLeaving.step = "idle"
    BY DEF SignedOut, NoLeaving
  <1>4. \A o \in Tabs : /\ leaving'[o] = IF o = t THEN NoLeaving ELSE leaving[o]
                        /\ tab'[o] = IF o = t THEN SignedOut("open") ELSE tab[o]
    BY <1>1 DEF IInv, Types
  <1>5. PageSteps' /\ SpentIssued'
    BY <1>0, <1>2, <1>3, <1>4 DEF CalmInv, PageSteps, SpentIssued, Busy, Leaving, Asking,
                                  Active, Issued
  <1>6. ASSUME ~disturbed' PROVE Calm'
    <2>0. Calm
      BY <1>2, <1>6 DEF CalmInv
    <2>1. \A o \in Tabs : /\ o # t => ~Busy(o) /\ ~tab[o].authenticated
                          /\ ~Asking(o, "login") /\ ~Active(o, "boot")
      BY <1>0, <2>0 DEF Calm, OneBusy, LoginFirst, LeavingLast, Busy, Leaving
    <2>2. \A o \in Tabs : ~Leaving(o)' /\ ~tab'[o].authenticated
      BY <1>3, <1>4, <2>1 DEF Leaving, Busy
    <2>3. OneBusy'
      BY <1>0, <1>2, <1>4, <2>0, <2>1, <2>2 DEF Calm, OneBusy, Busy, Leaving, Active
    <2>4. LoginFirst' /\ LeavingLast' /\ InForce' /\ StoredInForce'
      BY <1>2, <2>1, <2>2 DEF LoginFirst, LeavingLast, InForce, StoredInForce, Active,
                              Asking
    <2>5. OneUser'
      BY <1>2, <2>0, <2>2 DEF Calm, OneUser, Belongs, Asking, Active
    <2>6. GrantedNew'
      <3>1. \A o \in Tabs, c \in Callers : exchange[o][c].step = "granted" => exchange[o][c].got # None
        BY NoneApart DEF IInv, TokensIssued, Granted, Issued
      <3>2. \A o \in Tabs : leaving'[o].step # "sent"
        BY <2>2 DEF Leaving
      <3> QED BY <1>2, <2>0, <3>1, <3>2 DEF Calm, GrantedNew
    <2> QED BY <2>3, <2>4, <2>5, <2>6 DEF Calm
  <1> QED BY <1>5, <1>6 DEF CalmInv

\* A token that lapses while nobody carries it is the one a logout has left to
\* a call that is under way.
LEMMA LapseCalm ==
  ASSUME IInv, CalmInv, NEW k \in Tokens, Lapse(k)
  PROVE  CalmInv'
  <1> USE CallKinds
  <1>1. /\ UNCHANGED <<stored, cached, tab, exchange, request, leaving, owner>>
        /\ dead' = dead \cup {k} /\ owner[k] # None
    BY DEF Lapse, storage
  <1>2. PageSteps' /\ SpentIssued'
    BY <1>1 DEF CalmInv, PageSteps, SpentIssued, Busy, Leaving, Asking, Active, Issued
  <1>3. ASSUME ~disturbed' PROVE Calm'
    <2>0. Calm /\ ~Carried(k)
      BY <1>3, Zenon DEF Lapse, CalmInv
    <2>1. /\ stored # k
          /\ \A t \in Tabs, c \in Callers :
               exchange[t][c].step = "granted" => exchange[t][c].got # k
          /\ \A t \in Tabs :
               request[t]["login"].step = "ok" => request[t]["login"].got # k
      BY <2>0 DEF Carried
    <2>2. OneBusy' /\ LeavingLast'
      BY <1>1, <2>0 DEF Calm, OneBusy, LeavingLast, Busy, Leaving, Asking, Active
    <2>3. LoginFirst'
      BY <1>1, <2>0, <2>1 DEF Calm, LoginFirst, Leaving, Asking, Active
    <2>4. OneUser'
      BY <1>1, <2>0 DEF Calm, OneUser, Belongs, Asking, Active
    <2>5. GrantedNew' /\ InForce' /\ StoredInForce'
      BY <1>1, <2>0, <2>1 DEF Calm, GrantedNew, InForce, StoredInForce, Leaving, Active
    <2> QED BY <2>2, <2>3, <2>4, <2>5 DEF Calm
  <1> QED BY <1>2, <1>3 DEF CalmInv

LEMMA InitCalm == Init => CalmInv
  <1> SUFFICES ASSUME Init PROVE CalmInv
    OBVIOUS
  <1> USE CallKinds, Idle, SignedOutKnown
  <1>1. \A t \in Tabs :
          /\ tab[t].page = "closed" /\ ~tab[t].authenticated
          /\ leaving[t].step = "idle"
          /\ \A c \in Callers : exchange[t][c].step = "idle"
          /\ \A k \in Calls : request[t][k].step = "idle"
    BY DEF Init, SignedOut, NoLeaving
  <1>2. stored = None /\ cached = None /\ dead = {}
    BY DEF Init
  <1>3. PageSteps /\ SpentIssued
    BY <1>1, <1>2 DEF PageSteps, SpentIssued, Busy, Leaving, Asking, Active
  <1>4. OneBusy /\ LoginFirst /\ LeavingLast
    BY <1>1 DEF OneBusy, LoginFirst, LeavingLast, Busy, Leaving, Asking, Active
  <1>5. Belongs(None)
    BY <1>1, <1>2 DEF Belongs, Asking, Active
  <1>6. GrantedNew /\ InForce /\ StoredInForce
    BY <1>1, <1>2 DEF GrantedNew, InForce, StoredInForce, Active
  <1> QED BY <1>3, <1>4, <1>5, <1>6 DEF CalmInv, Calm, OneUser

LEMMA CalmKept == IInv /\ CalmInv /\ [Next]_vars => CalmInv'
  <1> SUFFICES ASSUME IInv, CalmInv, [Next]_vars PROVE CalmInv'
    OBVIOUS
  <1>3. CASE \E k \in Tokens : Lapse(k)
    BY <1>3, LapseCalm
  <1>1. CASE Next /\ ~\E k \in Tokens : Lapse(k)
    <2> PICK t \in Tabs :
          \/ Open(t) \/ Close(t) \/ Expire(t)
          \/ \E c \in Callers :
               ReadToken(t, c) \/ Rotate(t, c) \/ RotateRefused(t, c) \/ LoseExchange(t, c)
          \/ BootGranted(t) \/ BootDenied(t) \/ BootGivesUp(t)
          \/ RefreshArrives(t) \/ RefreshFails(t)
          \/ \E u \in Users : Login(t, u)
          \/ AnswerLogin(t) \/ DenyLogin(t)
          \/ \E k \in Calls : \/ Send(t, k) \/ Answer(t, k) \/ LoseRequest(t, k)
                              \/ Arrive(t, k) \/ Denied(t, k)
          \/ Logout(t) \/ RevokeOnLogout(t) \/ LoseLogout(t) \/ LogoutEnds(t)
      BY <1>1 DEF Next
    <2> QED
      BY CallKinds, OpenCalm, CloseCalm, ExpireCalm, StepCalm, RotateCalm,
         BootGrantedCalm, BootFailsCalm, RefreshArrivesCalm, RefreshFailsCalm,
         LoginCalm, AnswerLoginCalm, SmallCallsCalm, ArriveCalm, DeniedCalm,
         LogoutCalm, RevokeCalm, LogoutEndsCalm
  <1>2. CASE UNCHANGED vars
    <2>1. UNCHANGED <<stored, cached, tab, exchange, request, leaving, owner, dead, disturbed>>
      BY <1>2 DEF vars
    <2>2. PageSteps' /\ SpentIssued'
      BY <2>1 DEF CalmInv, PageSteps, SpentIssued, Busy, Leaving, Asking, Active, Issued
    <2>3. ASSUME ~disturbed' PROVE Calm'
      <3>0. Calm
        BY <2>1, <2>3 DEF CalmInv
      <3>1. OneBusy' /\ LoginFirst' /\ LeavingLast'
        BY <2>1, <3>0 DEF Calm, OneBusy, LoginFirst, LeavingLast, Busy, Leaving, Asking,
                          Active
      <3>2. OneUser'
        BY <2>1, <3>0 DEF Calm, OneUser, Belongs, Asking, Active
      <3>3. GrantedNew' /\ InForce' /\ StoredInForce'
        BY <2>1, <3>0 DEF Calm, GrantedNew, InForce, StoredInForce, Leaving, Active
      <3> QED BY <3>1, <3>2, <3>3 DEF Calm
    <2> QED BY <2>2, <2>3 DEF CalmInv
  <1> QED BY <1>1, <1>2, <1>3

LEMMA CalmKeepsSession == CalmInv => SessionKept
  <1> SUFFICES ASSUME CalmInv, ~disturbed, \A t \in Tabs : ~Busy(t),
                      NEW t \in Tabs, tab[t].authenticated
               PROVE  /\ stored # None /\ stored \notin dead
                      /\ owner[stored] = tab[t].user /\ tab[t].access.of = tab[t].user
    BY DEF SessionKept
  <1>1. Calm /\ \A o \in Tabs : ~Leaving(o) /\ \A c \in Callers : ~Active(o, c)
    BY DEF CalmInv, Busy, Leaving, Active
  <1>2. stored # None
    BY <1>1 DEF Calm, InForce
  <1>3. stored \notin dead
    BY <1>1, <1>2 DEF Calm, StoredInForce
  <1>4. owner[stored] = tab[t].user /\ tab[t].access.of = tab[t].user
    BY <1>1, <1>2 DEF Calm, OneUser, Belongs
  <1> QED BY <1>2, <1>3, <1>4

\* As long as no call was lost, no tab closed in the middle of one, no two tabs
\* changed the session at the same time and no refresh token that was stored or on
\* its way outlived its time, whoever is signed in keeps a refresh token in force, and an access token of the user the tab shows (useAuthBootstrap, the
\* response interceptor, authStore, tokenStorage).
THEOREM SessionsAreKept == Spec => []SessionKept
  <1>1. Init => IInv /\ CalmInv
    BY InitTypes, InitCalm
  <1>2. IInv /\ CalmInv /\ [Next]_vars => IInv' /\ CalmInv'
    BY StepKeeps, CalmKept
  <1>3. CalmInv => SessionKept
    BY CalmKeepsSession
  <1> QED BY <1>1, <1>2, <1>3, PTL DEF Spec
=============================================================================
