-------------------------------- MODULE Push --------------------------------
(***************************************************************************)
(* Web Push on one device (pwa.ts, usePush): the switch of the profile     *)
(* page, the subscription renewed after signing in, and the one taken down *)
(* when somebody signs out of a shared phone.                              *)
(***************************************************************************)
EXTENDS Screen

CONSTANTS Owners, Endpoints

ASSUME PushAssumption == None \notin Owners \cup Endpoints

Device == page.device
NoSub == [end |-> None, key |-> None]

\* page.doubt: at the sign-in something of an earlier session was still under
\* way, or the renewal after it has failed.
\* server.rows: whose subscription an endpoint is (push_subscriptions); the key
\* of the server is "new", a subscription of earlier days has another.
PushInit ==
  /\ \E perm \in {"default", "granted", "denied"}, out \in BOOLEAN,
        old \in Endpoints \cup {None} :
       /\ old # None => perm = "granted" /\ ~out
       /\ page = [at |-> "push", hook |-> "loading", busy |-> FALSE,
                  failed |-> FALSE, user |-> None, excused |-> FALSE, doubt |-> FALSE,
                  device |-> [perm |-> perm, optedOut |-> out,
                     sub |-> IF old = None THEN NoSub ELSE [end |-> old, key |-> "old"]]]
       /\ server = [rows |-> [e \in Endpoints |-> None],
                    spent |-> {old} \ {None}, enabled |-> TRUE]
  /\ tasks = {} /\ stale = FALSE

\* Notices for u reach this device.
Delivers(u) ==
  Device.sub.end # None /\ Device.sub.key = "new" /\ server.rows[Device.sub.end] = u

Renewing == {"resume", "resumeSave", "prompt", "save"}
Ending == {"turnOff", "logout", "drop"}
\* The component that started the function is still the one on the screen.
Mounted(t) == t.arg = page.user
Overlap(fns) == page.excused \/ \E t \in tasks : t.fn \in fns

\* Mutant: the person's own choice is not looked at.
SignInMutant(u) ==
  /\ page.user = None /\ MayTap
  /\ page' = [page EXCEPT !.user = u, !.hook = "loading", !.failed = FALSE,
                          !.busy = FALSE, !.excused = Overlap(Ending),
                          !.doubt = tasks # {}]
  /\ tasks' = tasks \cup {New("config", u)} \cup
       IF Device.perm = "granted" THEN {New("resume", u)} ELSE {}
  /\ UNCHANGED <<server, stale>>
\* Signing in mounts the page and resumes the subscription (login, resumePush).
SignIn(u) ==
  /\ page.user = None /\ MayTap
  /\ page' = [page EXCEPT !.user = u, !.hook = "loading", !.failed = FALSE,
                          !.busy = FALSE, !.excused = Overlap(Ending),
                          !.doubt = tasks # {}]
  /\ tasks' = tasks \cup {New("config", u)} \cup
       IF Device.perm = "granted" /\ ~Device.optedOut THEN {New("resume", u)} ELSE {}
  /\ UNCHANGED <<server, stale>>

TurnOn ==
  /\ page.user # None /\ page.hook = "off" /\ ~page.busy /\ MayTap
  /\ page' = [page EXCEPT !.failed = FALSE, !.busy = TRUE, !.excused = Overlap(Ending)]
  /\ Start(New("prompt", page.user))
  /\ UNCHANGED <<server, stale>>

\* enablePush: the person answers, or has answered before.
AnswerPrompt(t, perm) ==
  /\ Awaiting(t, {"prompt"}) /\ perm \in {"default", "granted", "denied"}
  /\ Device.perm # "default" => perm = Device.perm
  /\ page' = [page EXCEPT !.device.perm = perm]
  /\ Answered(t, "ok", perm)
  /\ UNCHANGED <<server, stale>>

\* subscribe: a subscription under other keys is given up for a fresh one.
FreshEndpoints == Endpoints \ server.spent
\* Mutant: any subscription of the device will do.
UsableMutant == Device.sub.end # None
Usable == Device.sub.end # None /\ Device.sub.key = "new"
Subscribe(t, save) ==
  /\ ~Usable => FreshEndpoints # {}
  /\ LET sub == IF Usable THEN Device.sub
                ELSE [end |-> CHOOSE e \in FreshEndpoints : TRUE, key |-> "new"]
     IN /\ page' = [page EXCEPT !.device.sub = sub]
        /\ server' = [server EXCEPT !.spent = @ \cup {sub.end}]
        /\ GoOn(t, [New(save, page.user) EXCEPT !.reply = sub.end])
  /\ UNCHANGED stale

\* Giving the old one up or subscribing may fail: enablePush throws, resumePush
\* fails where nobody sees it.
SubscribeFails(t) ==
  /\ ~Usable /\ End(t)
  /\ \E sub \in {Device.sub, NoSub} :
       page' = IF t.fn = "prompt"
         THEN [page EXCEPT !.device.sub = sub, !.failed = @ \/ Mounted(t),
                           !.busy = @ /\ ~Mounted(t)]
         ELSE [page EXCEPT !.device.sub = sub, !.doubt = TRUE]
  /\ UNCHANGED <<server, stale>>

PromptReturns(t) ==
  /\ Returned(t, "prompt")
  /\ \/ t.reply = "granted" /\ (Subscribe(t, "save") \/ SubscribeFails(t))
     \/ /\ t.reply # "granted" /\ End(t)
        /\ page' = IF ~Mounted(t) THEN page ELSE [page EXCEPT !.busy = FALSE,
                      !.hook = IF t.reply = "denied" THEN "blocked" ELSE "off"]
        /\ UNCHANGED <<server, stale>>

\* resumePush, when the configuration has come.
ResumeReturns(t) ==
  \/ /\ Returned(t, "resume") /\ server.enabled
     /\ Subscribe(t, "resumeSave") \/ SubscribeFails(t)
  \/ /\ Threw(t, "resume") /\ End(t)
     /\ page' = [page EXCEPT !.doubt = TRUE]
     /\ UNCHANGED <<server, stale>>

\* savePushSubscription: the row of the endpoint goes to the caller.
ServePush(t) ==
  /\ Awaiting(t, {"config", "resume", "save", "resumeSave"})
  /\ IF t.fn \in {"save", "resumeSave"}
       THEN Serve(t, t.arg # None, [server EXCEPT !.rows[t.reply] = t.arg], t.reply)
       ELSE Serve(t, TRUE, server, None)

\* setOptedOut(false) only after the server has it.
SaveReturns(t) ==
  /\ t.fn \in {"save", "resumeSave"} /\ t.wire # "sent" /\ End(t)
  /\ page' = CASE t.fn = "resumeSave" ->
                    [page EXCEPT !.doubt = @ \/ t.wire = "failed"]
               [] t.fn = "save" /\ t.wire = "ok" ->
                    [page EXCEPT !.hook = IF Mounted(t) THEN "on" ELSE @,
                       !.busy = @ /\ ~Mounted(t), !.device.optedOut = FALSE]
               [] OTHER ->
                    [page EXCEPT !.failed = @ \/ Mounted(t),
                       !.busy = @ /\ ~Mounted(t), !.excused = TRUE]
  /\ UNCHANGED <<server, stale>>

\* usePush: hidden without keys, blocked, or what the device says.
ConfigReturns(t) ==
  /\ t.fn = "config" /\ t.wire # "sent" /\ End(t)
  /\ page' = IF ~Mounted(t) THEN page ELSE [page EXCEPT !.hook =
       CASE t.wire = "failed" -> "hidden"
         [] t.wire = "ok" /\ Device.perm = "denied" -> "blocked"
         [] OTHER -> IF Device.perm = "granted" /\ Device.sub.end # None
                       THEN "on" ELSE "off"]
  /\ UNCHANGED <<server, stale>>

TurnOff ==
  /\ page.user # None /\ page.hook = "on" /\ ~page.busy /\ MayTap
  /\ page' = [page EXCEPT !.failed = FALSE, !.device.optedOut = TRUE,
                !.busy = Device.sub.end # None, !.excused = Overlap(Renewing),
                !.hook = IF Device.sub.end = None THEN "off" ELSE @]
  /\ IF Device.sub.end = None THEN UNCHANGED tasks
     ELSE Start([New("turnOff", page.user) EXCEPT !.reply = Device.sub.end])
  /\ UNCHANGED <<server, stale>>

\* logout: the device is unsubscribed, without being remembered as opted out.
SignOut ==
  /\ page.user # None /\ MayTap /\ \A t \in tasks : t.fn # "logout"
  /\ page' = [page EXCEPT !.excused = Overlap(Renewing \cup Ending)]
  /\ Start([New("logout", page.user) EXCEPT !.reply = Device.sub.end])
  /\ UNCHANGED <<server, stale>>

\* deletePushSubscription, for the row that is the caller's.
ServeDrop(t) ==
  /\ Awaiting(t, Ending) /\ t.reply # None
  /\ \/ /\ server' = [server EXCEPT !.rows[t.reply] = IF @ = t.arg THEN None ELSE @]
        /\ tasks' = (tasks \ {t}) \cup {[t EXCEPT !.wire = "ok"]}
     \/ /\ tasks' = (tasks \ {t}) \cup {[t EXCEPT !.wire = "failed"]}
        /\ UNCHANGED server
  /\ UNCHANGED <<page, stale>>

\* Mutant: a device whose row could not be deleted stays subscribed.
UnsubscribeMutant(t, ok) ==
  /\ t.fn \in Ending /\ t.wire # "sent" /\ t.reply # None /\ End(t)
  /\ page' = [page EXCEPT
       !.device.sub = IF ok /\ t.wire = "ok" /\ @.end = t.reply THEN NoSub ELSE @,
       !.excused = @ \/ (~ok /\ t.wire = "failed"),
       !.user = IF t.fn = "logout" THEN None ELSE @,
       !.busy = @ /\ ~(t.fn = "turnOff" /\ Mounted(t)),
       !.hook = IF t.fn = "turnOff" /\ Mounted(t) THEN "off" ELSE @]
  /\ UNCHANGED <<server, stale>>
\* disablePush, its last step: unsubscribed whether or not the row could be
\* deleted; that may fail as well, and neither failure is shown.
Unsubscribe(t, ok) ==
  /\ t.fn \in Ending /\ t.wire # "sent" /\ t.reply # None /\ End(t)
  /\ page' = [page EXCEPT
       !.device.sub = IF ok /\ @.end = t.reply THEN NoSub ELSE @,
       !.excused = @ \/ (~ok /\ t.wire = "failed"),
       !.user = IF t.fn = "logout" THEN None ELSE @,
       !.busy = @ /\ ~(t.fn = "turnOff" /\ Mounted(t)),
       !.hook = IF t.fn = "turnOff" /\ Mounted(t) THEN "off" ELSE @]
  /\ UNCHANGED <<server, stale>>

\* Nothing to take down; or three seconds have passed, and logging out goes on.
LogoutGoesOn(t) ==
  /\ Awaiting(t, {"logout"}) /\ page.user # None
  /\ page' = [page EXCEPT !.user = None, !.hook = "loading", !.busy = FALSE]
  /\ IF t.reply = None THEN End(t) ELSE GoOn(t, [t EXCEPT !.fn = "drop"])
  /\ UNCHANGED <<server, stale>>

PushNext ==
  \/ \E u \in Owners : SignIn(u)
  \/ TurnOn \/ TurnOff \/ SignOut
  \/ \E t \in tasks :
       \/ \E perm \in {"default", "granted", "denied"} : AnswerPrompt(t, perm)
       \/ PromptReturns(t) \/ ResumeReturns(t) \/ ServePush(t) \/ SaveReturns(t)
       \/ ConfigReturns(t) \/ ServeDrop(t)
       \/ \E ok \in BOOLEAN : Unsubscribe(t, ok)
       \/ LogoutGoesOn(t)

\* A shared phone: once somebody has signed out, it gets nobody's notices, also
\* when the row could not be deleted or logging out did not wait for it
\* (disablePush in logout).  Excused: the deletion and the unsubscription both
\* failed, turning push on failed, or a subscription was being renewed at that
\* moment.
NoNoticesAfterLogout ==
  page.at = "push" /\ tasks = {} /\ page.user = None /\ ~page.excused =>
    \A u \in Owners : ~Delivers(u)

\* Who turned push off on this device stays without it through later logins
\* (the flag that resumePush reads), with the same excuses.
OptOutKept ==
  page.at = "push" /\ tasks = {} /\ Device.optedOut /\ ~page.excused =>
    \A u \in Owners : ~Delivers(u)

\* The switch that says on is telling the truth: notices of the person who is
\* signed in reach the device, whoever used it before and however often push
\* was turned off and on (subscribe, the one flag isBusy).  Excused: the renewal
\* after signing in has failed, which the switch does not show, as it asks the
\* browser alone (isPushOn); or something of an earlier session was still under
\* way when this one began.
SwitchHonest ==
  page.at = "push" /\ tasks = {} /\ page.user # None /\ page.hook = "on"
    /\ ~Device.optedOut /\ ~page.doubt => Delivers(page.user)
=============================================================================
