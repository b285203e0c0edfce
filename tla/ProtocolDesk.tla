---------------------------- MODULE ProtocolDesk ----------------------------
(***************************************************************************)
(* The protocols of the committee in the office: ProtocolCreatePage,       *)
(* ProtocolListPage and ProtocolDetailPage, where a member votes.          *)
(***************************************************************************)
EXTENDS Screen

CONSTANTS Candidates, Dormitories, MaxTicks

ASSUME TicksAssumption == MaxTicks \in Nat \ {0}

\* A list that has been read is finite, and told from one that has not.
ASSUME CandidatesAssumption ==
  IsFiniteSet(Candidates) /\ \A s \in SUBSET Candidates : s # None
\* And so is one protocol, its status, and the list of them.
ASSUME ProtocolAssumption ==
  /\ None \notin [there : BOOLEAN, status : {"pending", "approved"},
                  vote : {None, "approved", "rejected"}, others : BOOLEAN]
  /\ None \notin {"pending", "approved"}
ASSUME ProtocolsAssumption == None \notin [Candidates -> {"pending", "approved", "deleted"}]

------------------------------------------------------------------------------
\* ProtocolCreatePage

\* server.free: who may be put into a protocol; made: the students of the one
\* made here; strays: those of them ticked under another filter than the one
\* it was sent under.
CreateInit ==
  /\ page = [at |-> "create", list |-> None, error |-> FALSE, filter |-> None,
             ticked |-> {}, under |-> None, submitting |-> FALSE, submitError |-> FALSE,
             left |-> None]
  /\ \E h \in [Candidates -> Dormitories] :
       server = [house |-> h, free |-> Candidates, made |-> None, strays |-> {}]
  /\ tasks = {Task("load", 1, None)} /\ stale = FALSE

Visible ==
  {c \in page.list : page.filter = None \/ server.house[c] = page.filter}

\* The list is asked for again when the language is switched; ticks stay.
CandidatesReturn(t) ==
  /\ t.fn = "load" /\ t.wire # "sent" /\ End(t)
  /\ page' = IF t.wire = "ok" THEN [page EXCEPT !.list = t.reply]
             ELSE [page EXCEPT !.error = TRUE]
  /\ UNCHANGED <<server, stale>>
SwitchLanguage ==
  /\ page.left = None /\ MayTap /\ Start(New("load", None))
  /\ UNCHANGED <<page, server, stale>>

\* page.under: of each ticked candidate, the filter it was ticked under.
Tick(now) ==
  [page EXCEPT !.ticked = now,
     !.under = [c \in now |-> IF c \in page.ticked THEN page.under[c] ELSE page.filter]]

\* Mutant: the ticks are carried over.
ChangeDormitoryFilterMutant(d) ==
  /\ page.left = None /\ page.list # None /\ page.filter # d
  /\ page' = [page EXCEPT !.filter = d]
  /\ UNCHANGED <<tasks, server, stale>>
ChangeDormitoryFilter(d) ==
  /\ page.left = None /\ page.list # None /\ page.filter # d
  /\ page' = [page EXCEPT !.filter = d, !.ticked = {}, !.under = None]
  /\ UNCHANGED <<tasks, server, stale>>

ToggleSelectedKey(c) ==
  /\ page.left = None /\ page.list # None /\ c \in Visible
  /\ \/ c \in page.ticked /\ page' = Tick(page.ticked \ {c})
     \/ /\ c \notin page.ticked /\ Cardinality(page.ticked) < MaxTicks
        /\ page' = Tick(page.ticked \cup {c})
  /\ UNCHANGED <<tasks, server, stale>>

\* All are ticked when as many are as could be; the first MaxTicks of the list
\* are taken, whatever its order.
Least(m, n) == IF m < n THEN m ELSE n
ToggleSelectAll ==
  /\ page.left = None /\ page.list # None
  /\ LET most == Least(Cardinality(Visible), MaxTicks)
     IN IF page.ticked # {} /\ Cardinality(page.ticked) = most
          THEN page' = Tick({})
          ELSE \E now \in SUBSET Visible : Cardinality(now) = most /\ page' = Tick(now)
  /\ UNCHANGED <<tasks, server, stale>>

\* Of the ticked, those the filter shows are sent.
HandleCreate ==
  /\ page.left = None /\ page.list # None /\ page.ticked # {} /\ ~page.submitting /\ MayTap
  /\ LET selected == page.ticked \cap Visible
     IN Start(New("create", [students |-> selected,
                 strays |-> {c \in selected : page.under[c] # page.filter}]))
  /\ page' = [page EXCEPT !.submitting = TRUE, !.submitError = FALSE]
  /\ UNCHANGED <<server, stale>>

\* The file is fetched next, and the page left whether it comes or not.
CreateReturns(t) ==
  /\ t.fn = "create" /\ t.wire # "sent"
  /\ IF t.wire = "failed"
       THEN End(t) /\ page' = [page EXCEPT !.submitting = FALSE, !.submitError = TRUE]
       ELSE GoOn(t, New("file", t.arg.students)) /\ UNCHANGED page
  /\ UNCHANGED <<server, stale>>
FileFetched(t) ==
  /\ Awaiting(t, {"file"}) /\ End(t)
  /\ page' = [page EXCEPT !.submitting = FALSE, !.left = t.arg]
  /\ UNCHANGED <<server, stale>>

\* A protocol needs students, all of them free.
ServeCreate(t) ==
  \/ Awaiting(t, {"load"}) /\ Serve(t, TRUE, server, server.free)
  \/ /\ Awaiting(t, {"create"})
     /\ Serve(t, t.arg.students # {} /\ t.arg.students \subseteq server.free,
              [server EXCEPT !.free = @ \ t.arg.students, !.made = t.arg.students,
                             !.strays = @ \cup t.arg.strays], None)

TakenElsewhere(c) ==
  c \in server.free /\ Elsewhere([server EXCEPT !.free = @ \ {c}])

CreateNext ==
  \/ SwitchLanguage \/ ToggleSelectAll \/ HandleCreate
  \/ \E d \in Dormitories \cup {None} : ChangeDormitoryFilter(d)
  \/ \E c \in Candidates : ToggleSelectedKey(c) \/ TakenElsewhere(c)
  \/ \E t \in tasks : \/ ServeCreate(t) \/ CandidatesReturn(t) \/ CreateReturns(t)
                      \/ FileFetched(t)

CreateBusy == page.submitting \/ (page.list = None /\ ~page.error)
\* The page shows the protocol it has made.
CreateDone == page.left # None => server.made = page.left

\* No protocol holds a student ticked under another filter than the one on the
\* screen, nor more than it may ("a protocol meant for one dormitory can't
\* silently include students ticked under another filter", changeDormitoryFilter).
TickedHere ==
  page.at = "create" =>
    server.strays = {} /\ (server.made # None => Cardinality(server.made) <= MaxTicks)

------------------------------------------------------------------------------
\* ProtocolDetailPage, for a member of the committee who is a manager too.

\* server.vote: the member's; others: have all others approved?
ProtocolInit ==
  /\ page = [at |-> "protocol", shown |-> None, error |-> FALSE, preview |-> None,
             previewError |-> FALSE, asking |-> FALSE, deleting |-> FALSE,
             form |-> FALSE, reason |-> FALSE, voting |-> FALSE, voteError |-> FALSE,
             deleteError |-> FALSE, left |-> FALSE]
  /\ \E o \in BOOLEAN :
       server = [there |-> TRUE, status |-> "pending", vote |-> None, others |-> o]
  /\ tasks = {Task("load", 1, None)} /\ stale = FALSE

Seen == page.shown # None /\ ~page.error /\ ~page.left
CanVote == Seen /\ page.shown.status = "pending" /\ page.shown.vote = None

\* The text of a protocol is asked for whenever it has been read; what is still
\* under way for an earlier reading is given up.
ProtocolLoadReturns(t) ==
  /\ t.fn = "load" /\ t.wire # "sent"
  /\ IF t.wire = "failed" THEN End(t) /\ page' = [page EXCEPT !.error = TRUE]
     ELSE /\ tasks' = {u \in tasks \ {t} : u.fn # "preview"}
                        \cup {Task("preview", 1, t.reply.status)}
          /\ page' = [page EXCEPT !.shown = t.reply]
  /\ UNCHANGED <<server, stale>>
PreviewReturns(t, ok) ==
  /\ Awaiting(t, {"preview"}) /\ End(t)
  /\ page' = IF ok THEN [page EXCEPT !.preview = t.arg]
             ELSE [page EXCEPT !.previewError = TRUE]
  /\ UNCHANGED <<server, stale>>

AskDeleteProtocol ==
  /\ Seen /\ page.shown.status = "pending" /\ ~page.asking
  /\ page' = [page EXCEPT !.asking = TRUE]
  /\ UNCHANGED <<tasks, server, stale>>
CancelDeleteProtocol ==
  /\ page.asking /\ ~page.deleting /\ page' = [page EXCEPT !.asking = FALSE]
  /\ UNCHANGED <<tasks, server, stale>>
DeleteProtocol ==
  /\ Seen /\ page.asking /\ ~page.deleting /\ MayTap
  /\ page' = [page EXCEPT !.deleting = TRUE, !.deleteError = FALSE]
  /\ Start(New("delete", None))
  /\ UNCHANGED <<server, stale>>
DeleteProtocolReturns(t) ==
  /\ t.fn = "delete" /\ t.wire # "sent" /\ End(t)
  /\ page' = IF t.wire = "ok" THEN [page EXCEPT !.left = TRUE]
             ELSE [page EXCEPT !.deleting = FALSE, !.deleteError = TRUE]
  /\ UNCHANGED <<server, stale>>

\* The buttons are open again before the protocol has been read again.
OpenRejectForm ==
  /\ CanVote /\ ~page.form /\ ~page.asking
  /\ page' = [page EXCEPT !.form = TRUE]
  /\ UNCHANGED <<tasks, server, stale>>
WriteReason ==
  /\ CanVote /\ page.form /\ ~page.reason /\ ~page.asking
  /\ page' = [page EXCEPT !.reason = TRUE]
  /\ UNCHANGED <<tasks, server, stale>>
CloseRejectForm ==
  /\ CanVote /\ page.form /\ ~page.asking
  /\ page' = [page EXCEPT !.form = FALSE]
  /\ UNCHANGED <<tasks, server, stale>>
HandleVote(v) ==
  /\ CanVote /\ ~page.asking /\ ~page.voting /\ MayTap
  /\ IF v = "approved" THEN ~page.form ELSE page.form /\ page.reason
  /\ page' = [page EXCEPT !.voting = TRUE, !.voteError = FALSE]
  /\ Start(New("vote", v))
  /\ UNCHANGED <<server, stale>>

VoteReturns(t) ==
  /\ t.fn = "vote" /\ t.wire # "sent"
  /\ LET ok == t.wire = "ok"
     IN page' = [page EXCEPT !.voting = FALSE, !.voteError = ~ok,
                   !.form = @ /\ ~(ok /\ t.arg = "rejected"),
                   !.reason = @ /\ ~(ok /\ t.arg = "rejected")]
  /\ IF t.wire = "ok" THEN GoOn(t, New("load", None)) ELSE End(t)
  /\ UNCHANGED <<server, stale>>

\* A pending protocol takes a vote, and another in its place; the last approval
\* settles it.
Settled(v, others) == IF v = "approved" /\ others THEN "approved" ELSE "pending"
ServeProtocol(t) ==
  \/ Awaiting(t, {"load"}) /\ Serve(t, server.there, server, server)
  \/ /\ Awaiting(t, {"vote"})
     /\ Serve(t, server.there /\ server.status = "pending",
              [server EXCEPT !.vote = t.arg, !.status = Settled(t.arg, server.others)], None)
  \/ /\ Awaiting(t, {"delete"})
     /\ Serve(t, server.there /\ server.status = "pending",
              [server EXCEPT !.there = FALSE], None)
OthersVote ==
  /\ server.there /\ ~server.others
  /\ Elsewhere([server EXCEPT !.others = TRUE, !.status = Settled(server.vote, TRUE)])

ProtocolNext ==
  \/ AskDeleteProtocol \/ CancelDeleteProtocol \/ DeleteProtocol \/ OpenRejectForm
  \/ WriteReason \/ CloseRejectForm \/ OthersVote
  \/ \E v \in {"approved", "rejected"} : HandleVote(v)
  \/ \E t \in tasks : \/ ServeProtocol(t) \/ ProtocolLoadReturns(t)
                      \/ DeleteProtocolReturns(t) \/ VoteReturns(t)
                      \/ \E ok \in BOOLEAN : PreviewReturns(t, ok)

ProtocolBusy ==
  /\ ~page.left /\ ~page.error
  /\ \/ page.deleting \/ page.voting \/ page.shown = None
     \/ page.preview = None /\ ~page.previewError
ProtocolDone == page.left => ~server.there
ProtocolAgrees ==
  Seen => page.shown = server /\ page.preview \in {None, server.status, "pending"}

------------------------------------------------------------------------------
\* ProtocolListPage

ProtocolsInit ==
  /\ page = [at |-> "protocols", list |-> None, error |-> FALSE, delete |-> None,
             deleting |-> FALSE, deleteError |-> FALSE]
  /\ server \in [Candidates -> {"pending", "approved"}]
  /\ tasks = {Task("load", 1, None)} /\ stale = FALSE

\* Each protocol of the list is then asked for its students: the rows are shown
\* as they were listed.
ProtocolsLoadReturns(t) ==
  /\ t.fn = "load" /\ t.wire # "sent"
  /\ IF t.wire = "failed" THEN End(t) /\ page' = [page EXCEPT !.error = TRUE]
     ELSE GoOn(t, New("enrich", t.reply)) /\ UNCHANGED page
  /\ UNCHANGED <<server, stale>>
EnrichReturns(t) ==
  /\ Awaiting(t, {"enrich"}) /\ End(t)
  /\ page' = [page EXCEPT !.list = t.arg]
  /\ UNCHANGED <<server, stale>>

AskDeleteRow(p) ==
  /\ page.list # None /\ page.delete = None /\ page.list[p] = "pending"
  /\ page' = [page EXCEPT !.delete = p]
  /\ UNCHANGED <<tasks, server, stale>>
CancelDeleteRow ==
  /\ page.delete # None /\ ~page.deleting /\ page' = [page EXCEPT !.delete = None]
  /\ UNCHANGED <<tasks, server, stale>>
HandleDeleteRow ==
  /\ page.delete # None /\ ~page.deleting /\ MayTap
  /\ page' = [page EXCEPT !.deleting = TRUE, !.deleteError = FALSE]
  /\ Start(New("delete", page.delete))
  /\ UNCHANGED <<server, stale>>
DeleteRowReturns(t) ==
  /\ t.fn = "delete" /\ t.wire # "sent"
  /\ page' = [page EXCEPT !.deleting = FALSE, !.deleteError = t.wire = "failed",
                          !.delete = IF t.wire = "ok" THEN None ELSE @]
  /\ IF t.wire = "ok" THEN GoOn(t, New("load", None)) ELSE End(t)
  /\ UNCHANGED <<server, stale>>

ServeProtocols(t) ==
  \/ /\ Awaiting(t, {"load"})
     /\ Serve(t, TRUE, server, server)
  \/ /\ Awaiting(t, {"delete"})
     /\ Serve(t, server[t.arg] = "pending", [server EXCEPT ![t.arg] = "deleted"], None)

ProtocolsNext ==
  \/ \E p \in Candidates : AskDeleteRow(p)
  \/ CancelDeleteRow \/ HandleDeleteRow
  \/ \E t \in tasks : \/ ServeProtocols(t) \/ ProtocolsLoadReturns(t) \/ EnrichReturns(t)
                      \/ DeleteRowReturns(t)

ProtocolsBusy == page.deleting \/ (page.list = None /\ ~page.error)
ProtocolsAgree == page.list # None /\ ~page.error => page.list = server
=============================================================================
