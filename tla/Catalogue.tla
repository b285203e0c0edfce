------------------------------ MODULE Catalogue ------------------------------
(***************************************************************************)
(* What the office keeps: DormitoryFormPage with its images,               *)
(* BenefitFormPage with its documents, and the documents of                *)
(* DocumentListPage.                                                       *)
(***************************************************************************)
EXTENDS Screen

CONSTANTS Images, Papers, Documents

------------------------------------------------------------------------------
\* DormitoryFormPage: a dormitory that is not there yet gets its images after
\* it has been created, on the same page.

HouseFormInit ==
  /\ \E edit \in BOOLEAN :
       /\ page = [at |-> "houseForm", edit |-> edit,
                  text |-> IF edit THEN "blank" ELSE "v1", error |-> FALSE,
                  submitting |-> FALSE, left |-> None, shown |-> {}, unread |-> edit,
                  file |-> None, uploading |-> FALSE, imageError |-> FALSE]
       /\ server = [data |-> IF edit THEN "old" ELSE None, images |-> {}]
       /\ tasks = IF edit THEN {Task("load", 1, None), Task("data", 1, None)} ELSE {}
  /\ stale = FALSE

\* The form is there at once, blank until what is stored arrives.
OnForm == page.left = None

\* The fields are set to what is stored, whatever was typed meanwhile; a
\* failure replaces the page.  The images appear when their list comes.
HouseDataReturns(t) ==
  /\ t.fn = "data" /\ t.wire # "sent" /\ End(t)
  /\ page' = IF t.wire = "ok" THEN [page EXCEPT !.text = t.reply]
             ELSE [page EXCEPT !.left = IF @ = None THEN "error" ELSE @]
  /\ UNCHANGED <<server, stale>>
ImagesReturn(t) ==
  /\ t.fn = "load" /\ t.wire # "sent" /\ End(t)
  /\ page' = IF t.wire = "ok" THEN [page EXCEPT !.shown = t.reply, !.unread = FALSE]
             ELSE [page EXCEPT !.unread = TRUE]
  /\ UNCHANGED <<server, stale>>

TypeHouse(v) ==
  /\ OnForm /\ page.text # v /\ page' = [page EXCEPT !.text = v]
  /\ UNCHANGED <<tasks, server, stale>>
SubmitHouse ==
  /\ OnForm /\ page.text # "blank" /\ ~page.submitting /\ MayTap
  /\ page' = [page EXCEPT !.submitting = TRUE, !.error = FALSE]
  /\ Start(New("house", page.text))
  /\ UNCHANGED <<server, stale>>

\* A new dormitory is edited on (the same component, another path).
HouseReturns(t) ==
  /\ t.fn = "house" /\ t.wire # "sent"
  /\ page' = CASE t.wire = "failed" -> [page EXCEPT !.submitting = FALSE, !.error = TRUE]
               [] t.wire = "ok" /\ page.edit ->
                    [page EXCEPT !.submitting = FALSE, !.left = t.arg]
               [] OTHER -> [page EXCEPT !.submitting = FALSE, !.edit = TRUE, !.unread = TRUE]
  /\ IF t.wire = "ok" /\ ~page.edit
       THEN tasks' = (tasks \ {t}) \cup {Task("load", 1, None), Task("data", 1, None)}
       ELSE End(t)
  /\ UNCHANGED <<server, stale>>

ChooseFile(i) ==
  /\ OnForm /\ page.edit /\ page.file = None /\ i \notin server.images
  /\ page' = [page EXCEPT !.file = i]
  /\ UNCHANGED <<tasks, server, stale>>
HandleAddImage ==
  /\ OnForm /\ page.file # None /\ ~page.uploading /\ MayTap
  /\ page' = [page EXCEPT !.uploading = TRUE, !.imageError = FALSE]
  /\ Start(New("upload", page.file))
  /\ UNCHANGED <<server, stale>>
\* The file is stored first, its row then.
ImageUploaded(t) ==
  /\ Returned(t, "upload") /\ GoOn(t, New("addImage", t.arg))
  /\ UNCHANGED <<page, server, stale>>
AddImageReturns(t) ==
  /\ Threw(t, "upload") \/ (t.fn = "addImage" /\ t.wire # "sent")
  /\ page' = [page EXCEPT !.uploading = FALSE, !.imageError = t.wire = "failed",
                          !.file = IF t.wire = "ok" THEN None ELSE @]
  /\ IF t.wire = "ok" THEN GoOn(t, New("load", None)) ELSE End(t)
  /\ UNCHANGED <<server, stale>>

\* Nothing keeps the button from a second tap.
HandleDeleteImage(i) ==
  /\ OnForm /\ i \in page.shown /\ MayTap
  /\ Start(New("deleteImage", i)) /\ UNCHANGED <<page, server, stale>>
DeleteImageReturns(t) ==
  /\ t.fn = "deleteImage" /\ t.wire # "sent"
  /\ page' = [page EXCEPT !.imageError = @ \/ t.wire = "failed"]
  /\ IF t.wire = "ok" THEN GoOn(t, New("load", None)) ELSE End(t)
  /\ UNCHANGED <<server, stale>>

ServeHouseForm(t) ==
  \/ Awaiting(t, {"load"}) /\ Serve(t, TRUE, server, server.images)
  \/ Awaiting(t, {"data"}) /\ Serve(t, TRUE, server, server.data)
  \/ Awaiting(t, {"upload"}) /\ Serve(t, TRUE, server, None)
  \/ Awaiting(t, {"house"}) /\ Serve(t, TRUE, [server EXCEPT !.data = t.arg], None)
  \/ /\ Awaiting(t, {"addImage"})
     /\ Serve(t, TRUE, [server EXCEPT !.images = @ \cup {t.arg}], None)
  \/ /\ Awaiting(t, {"deleteImage"})
     /\ Serve(t, t.arg \in server.images, [server EXCEPT !.images = @ \ {t.arg}], None)

HouseFormNext ==
  \/ \E v \in {"v1", "v2"} : TypeHouse(v)
  \/ SubmitHouse \/ HandleAddImage
  \/ \E i \in Images : ChooseFile(i) \/ HandleDeleteImage(i)
  \/ \E t \in tasks : \/ ServeHouseForm(t) \/ HouseDataReturns(t) \/ ImagesReturn(t)
                      \/ HouseReturns(t) \/ ImageUploaded(t) \/ AddImageReturns(t)
                      \/ DeleteImageReturns(t)

HouseFormBusy == page.left = None /\ (page.submitting \/ page.uploading)
HouseFormDone == page.left \notin {None, "error"} => server.data = page.left
HouseFormAgrees ==
  page.left = None /\ ~page.unread => page.shown = server.images

------------------------------------------------------------------------------
\* BenefitFormPage of a benefit that is there: the documents it asks for.

BenefitInit ==
  /\ page = [at |-> "benefit", assigned |-> {}, unread |-> TRUE, toggling |-> None,
             error |-> FALSE]
  /\ server \in SUBSET Papers
  /\ tasks = {Task("load", 1, None)} /\ stale = FALSE

AssignedReturn(t) ==
  /\ t.fn = "load" /\ t.wire # "sent" /\ End(t)
  /\ page' = IF t.wire = "ok" THEN [page EXCEPT !.assigned = t.reply, !.unread = FALSE]
             ELSE [page EXCEPT !.unread = TRUE]
  /\ UNCHANGED <<server, stale>>

\* The box that waits is one; the others stay open, and it opens when any of
\* them has been answered.
HandleToggleDocument(p) ==
  /\ page.toggling # p /\ MayTap
  /\ page' = [page EXCEPT !.toggling = p, !.error = FALSE]
  /\ Start(New(IF p \in page.assigned THEN "remove" ELSE "add", p))
  /\ UNCHANGED <<server, stale>>

ToggleReturns(t) ==
  /\ t.fn \in {"add", "remove"} /\ t.wire # "sent"
  /\ page' = [page EXCEPT !.toggling = None, !.error = @ \/ t.wire = "failed"]
  /\ IF t.wire = "ok" THEN GoOn(t, New("load", None)) ELSE End(t)
  /\ UNCHANGED <<server, stale>>

\* A document is asked for once; its row is deleted by the key that was read.
ServeBenefit(t) ==
  \/ Awaiting(t, {"load"}) /\ Serve(t, TRUE, server, server)
  \/ Awaiting(t, {"add"}) /\ Serve(t, t.arg \notin server, server \cup {t.arg}, None)
  \/ Awaiting(t, {"remove"}) /\ Serve(t, t.arg \in server, server \ {t.arg}, None)

BenefitNext ==
  \/ \E p \in Papers : HandleToggleDocument(p)
  \/ \E t \in tasks : ServeBenefit(t) \/ AssignedReturn(t) \/ ToggleReturns(t)

BenefitBusy == page.toggling # None
BenefitAgrees == ~page.unread => page.assigned = server

------------------------------------------------------------------------------
\* DocumentListPage: the documents with how long each is valid.

Validities == {"none", "short"}
\* Null is not a list.
ASSUME PapersAssumption == None \notin [Documents -> Validities \cup {"absent"}]
PapersInit ==
  /\ page = [at |-> "papers", list |-> None, error |-> FALSE, field |-> None,
             named |-> FALSE, delete |-> None, deleting |-> FALSE]
  /\ server = [p \in Documents |-> "short"]
  /\ tasks = {Task("load", 1, None)} /\ stale = FALSE

Known == {p \in Documents : page.list # None /\ page.list[p] # "absent"}

\* ValidityField is keyed by its document: what it holds outlives a reading.
PapersReturn(t) ==
  /\ t.fn = "load" /\ t.wire # "sent" /\ End(t)
  /\ page' = IF t.wire = "failed" THEN [page EXCEPT !.error = TRUE]
             ELSE [page EXCEPT !.list = t.reply,
                     !.field = [p \in Documents |->
                        IF page.field = None \/ page.field[p] = "absent" \/ t.reply[p] = "absent"
                          THEN t.reply[p] ELSE page.field[p]]]
  /\ UNCHANGED <<server, stale>>

TypeValidity(p, v) ==
  /\ p \in Known /\ page.delete = None /\ page.field[p] # v
  /\ page' = [page EXCEPT !.field[p] = v]
  /\ UNCHANGED <<tasks, server, stale>>
\* The field loses the focus: only what differs from the list is sent.
SaveValidity(p) ==
  /\ p \in Known /\ page.delete = None /\ page.field[p] # page.list[p] /\ MayTap
  /\ Start(New("validity", [paper |-> p, to |-> page.field[p]]))
  /\ UNCHANGED <<page, server, stale>>

TypePaper ==
  /\ ~page.named /\ page.delete = None /\ page' = [page EXCEPT !.named = TRUE]
  /\ UNCHANGED <<tasks, server, stale>>
\* Nothing keeps the button from a second tap.
HandleAddDocument ==
  /\ page.named /\ page.delete = None /\ MayTap
  /\ Start(New("addPaper", None)) /\ page' = [page EXCEPT !.error = FALSE]
  /\ UNCHANGED <<server, stale>>

AskDeletePaper(p) ==
  /\ p \in Known /\ page.delete = None /\ page' = [page EXCEPT !.delete = p]
  /\ UNCHANGED <<tasks, server, stale>>
CancelDeletePaper ==
  /\ page.delete # None /\ ~page.deleting /\ page' = [page EXCEPT !.delete = None]
  /\ UNCHANGED <<tasks, server, stale>>
HandleDeleteDocument ==
  /\ page.delete # None /\ ~page.deleting /\ MayTap
  /\ page' = [page EXCEPT !.deleting = TRUE, !.error = FALSE]
  /\ Start(New("deletePaper", page.delete))
  /\ UNCHANGED <<server, stale>>

PaperReturns(t) ==
  /\ t.fn \in {"validity", "addPaper", "deletePaper"} /\ t.wire # "sent"
  /\ LET ok(fn) == t.wire = "ok" /\ t.fn = fn
     IN page' = [page EXCEPT !.error = @ \/ t.wire = "failed",
          !.named = @ /\ ~ok("addPaper"),
          !.deleting = @ /\ t.fn # "deletePaper",
          !.delete = IF ok("deletePaper") THEN None ELSE @]
  /\ IF t.wire = "ok" THEN GoOn(t, New("load", None)) ELSE End(t)
  /\ UNCHANGED <<server, stale>>

\* A document that something asks for cannot be deleted.
ServePapers(t) ==
  \/ Awaiting(t, {"load"}) /\ Serve(t, TRUE, server, server)
  \/ /\ Awaiting(t, {"validity"})
     /\ Serve(t, server[t.arg.paper] # "absent",
              [server EXCEPT ![t.arg.paper] = t.arg.to], None)
  \/ /\ Awaiting(t, {"addPaper"})
     /\ \E p \in Documents :
          Serve(t, server[p] = "absent", [server EXCEPT ![p] = "none"], None)
  \/ /\ Awaiting(t, {"deletePaper"})
     /\ Serve(t, server[t.arg] # "absent", [server EXCEPT ![t.arg] = "absent"], None)

PapersNext ==
  \/ \E p \in Documents : \/ SaveValidity(p) \/ AskDeletePaper(p)
                       \/ \E v \in Validities : TypeValidity(p, v)
  \/ TypePaper \/ HandleAddDocument \/ CancelDeletePaper \/ HandleDeleteDocument
  \/ \E t \in tasks : ServePapers(t) \/ PapersReturn(t) \/ PaperReturns(t)

PapersBusy == page.deleting \/ (page.list = None /\ ~page.error)
PapersAgree == page.list # None /\ ~page.error => page.list = server
=============================================================================
