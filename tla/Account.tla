------------------------------ MODULE Account ------------------------------
(***************************************************************************)
(* RegisterPage, with the warning about an address that looks unreachable, *)
(* and EditProfilePage, four forms on one page that all change the account *)
(* shown everywhere else (useAuth.updateUser).                             *)
(***************************************************************************)
EXTENDS Screen

\* The values of a field: none, the one stored before, and those typed now.
Typed == {"typed1", "typed2"}
ASSUME AccountAssumption == None \notin Typed

------------------------------------------------------------------------------
\* RegisterPage

RegisterInit ==
  /\ page = [at |-> "register", step |-> "form", pending |-> None, error |-> FALSE,
             submitting |-> FALSE, continuing |-> FALSE, warned |-> {}]
  /\ \E bogus \in SUBSET Typed : server = [account |-> None, bogus |-> bogus]
  /\ tasks = {} /\ stale = FALSE

\* onSubmit; the fields hold the address v.
Register(v) ==
  /\ page.step = "form" /\ page.pending = None /\ ~page.submitting
  /\ page' = [page EXCEPT !.error = FALSE, !.submitting = TRUE]
  /\ Start(New("register", v))
  /\ UNCHANGED <<server, stale>>

HandleContinueAnyway ==
  /\ page.pending # None /\ ~page.continuing
  /\ page' = [page EXCEPT !.continuing = TRUE]
  /\ Start(New("registerAnyway", page.pending))
  /\ UNCHANGED <<server, stale>>

ChangeAddress ==
  /\ page.pending # None /\ ~page.continuing
  /\ page' = [page EXCEPT !.pending = None]
  /\ UNCHANGED <<tasks, server, stale>>

\* An address in use is refused; one that looks unreachable is, unless skipped.
ServeRegister(t) ==
  /\ Awaiting(t, {"register", "registerAnyway"})
  /\ \/ Serve(t, server.account = None
                 /\ (t.fn = "registerAnyway" \/ t.arg \notin server.bogus),
              [server EXCEPT !.account = t.arg], None)
     \/ /\ t.fn = "register" /\ t.arg \in server.bogus
        /\ Answered(t, "unverifiable", None)
        /\ UNCHANGED <<page, server, stale>>

RegisterReturns(t) ==
  /\ t.fn = "register" /\ t.wire # "sent" /\ End(t)
  /\ page' = [page EXCEPT !.submitting = FALSE,
       !.step = IF t.wire = "ok" THEN "done" ELSE @,
       !.pending = IF t.wire = "unverifiable" THEN t.arg ELSE @,
       !.warned = IF t.wire = "unverifiable" THEN @ \cup {t.arg} ELSE @,
       !.error = t.wire = "failed"]
  /\ UNCHANGED <<server, stale>>

RegisterAnywayReturns(t) ==
  /\ t.fn = "registerAnyway" /\ t.wire # "sent" /\ End(t)
  /\ page' = [page EXCEPT !.continuing = FALSE, !.pending = None,
       !.step = IF t.wire = "ok" THEN "done" ELSE @, !.error = t.wire = "failed"]
  /\ UNCHANGED <<server, stale>>

RegisterNext ==
  \/ \E v \in Typed : Register(v)
  \/ HandleContinueAnyway \/ ChangeAddress
  \/ \E t \in tasks : ServeRegister(t) \/ RegisterReturns(t) \/ RegisterAnywayReturns(t)

RegisterBusy == page.submitting \/ page.continuing
\* The account is there, and nobody who was not warned registered past the check.
RegisterDone ==
  /\ page.step = "done" => server.account # None
  /\ server.account \in server.bogus => server.account \in page.warned

------------------------------------------------------------------------------
\* EditProfilePage

Forms == {"details", "avatar", "email", "password"}

EditInit ==
  /\ page = [at |-> "edit", text |-> "blank", busy |-> {}, done |-> {},
             sent |-> [f \in Forms |-> "stored"], touched |-> FALSE]
  /\ server = [f \in Forms |-> "stored"]
  /\ tasks = {Task("load", 1, None)} /\ stale = FALSE

\* A failure to load is not shown: the fields stay blank.
EditLoadReturns(t) ==
  /\ t.fn = "load" /\ t.wire # "sent" /\ End(t)
  /\ page' = IF t.wire = "ok" THEN [page EXCEPT !.text = t.reply,
                        !.touched = @ \/ "details" \in page.busy \cup page.done]
             ELSE page
  /\ UNCHANGED <<server, stale>>

\* The fields stay open while a save is under way.
SetDetail(v) ==
  /\ page.text # v
  /\ page' = [page EXCEPT !.text = v, !.done = @ \ {"details"},
                          !.touched = "details" \in page.busy]
  /\ UNCHANGED <<tasks, server, stale>>

Submit(f, v) ==
  /\ MayTap /\ f \notin page.busy
  /\ f = "details" => v = page.text
  /\ page' = [page EXCEPT !.busy = @ \cup {f}, !.done = @ \ {f},
                !.sent[f] = v, !.touched = @ /\ f # "details"]
  /\ Start(New(IF f = "avatar" THEN "upload" ELSE f, v))
  /\ UNCHANGED <<server, stale>>

\* A new password that is too short, or typed differently twice, is not sent.
RefusePassword ==
  /\ "password" \notin page.busy /\ "password" \in page.done
  /\ page' = [page EXCEPT !.done = @ \ {"password"}]
  /\ UNCHANGED <<tasks, server, stale>>

ServeEdit(t) ==
  \/ Awaiting(t, {"load", "upload"}) /\ Serve(t, TRUE, server, server["details"])
  \/ Awaiting(t, Forms) /\ Serve(t, TRUE, [server EXCEPT ![t.fn] = t.arg], None)

\* handleAvatarChange: the file first, then the account that refers to it.
UploadReturns(t) ==
  /\ t.fn = "upload" /\ t.wire # "sent"
  /\ \/ t.wire = "ok" /\ GoOn(t, New("avatar", t.arg)) /\ UNCHANGED page
     \/ /\ t.wire = "failed" /\ End(t)
        /\ page' = [page EXCEPT !.busy = @ \ {"avatar"}]
  /\ UNCHANGED <<server, stale>>

\* Mutant: the message of success is set whatever the call returned.
SubmitReturnsMutant(t) ==
  /\ t.fn \in Forms /\ t.wire # "sent" /\ End(t)
  /\ page' = [page EXCEPT !.busy = @ \ {t.fn}, !.done = @ \cup {t.fn}]
  /\ UNCHANGED <<server, stale>>
SubmitReturns(t) ==
  /\ t.fn \in Forms /\ t.wire # "sent" /\ End(t)
  /\ page' = [page EXCEPT !.busy = @ \ {t.fn},
       !.done = IF t.wire = "ok" THEN @ \cup {t.fn} ELSE @]
  /\ UNCHANGED <<server, stale>>

EditNext ==
  \/ RefusePassword
  \/ \E v \in Typed : SetDetail(v)
  \/ \E f \in Forms, v \in Typed \cup {"blank", "stored"} :
       (f # "details" => v = "typed1") /\ Submit(f, v)
  \/ \E t \in tasks : \/ ServeEdit(t) \/ EditLoadReturns(t)
                      \/ UploadReturns(t) \/ SubmitReturns(t)

EditBusy == page.busy # {}
\* Each form that reports success has changed its part of the account to what
\* was sent.  That is what the fields show too, unless they have been filled in
\* anew since: by the student while the save was under way, or by the first
\* reading of the profile when it arrives after the save was sent (which takes
\* the message of success for other text).
EditDone ==
  /\ \A f \in page.done : server[f] = page.sent[f]
  /\ "details" \in page.done /\ ~page.touched => page.text = server["details"]
=============================================================================
