------------------------------ MODULE Assistant ------------------------------
(***************************************************************************)
(* AssistantWidget and the turns of a conversation it keeps with           *)
(* AssistantService, AISettingsPage which opens it to an audience,         *)
(* NotificationBroadcastPage and the pages of the document templates.      *)
(***************************************************************************)
EXTENDS Screen, Sequences

CONSTANTS Chats, Audiences, MaxTurns, MaxAsks

ASSUME TurnsAssumption == MaxTurns \in Nat \ {0} /\ MaxAsks \in Nat
\* No conversation is told from one, and from one without turns.
ASSUME ChatsAssumption == None \notin Chats /\ None \notin Seq(Nat)
\* Audiences that have been read are told from those that have not.
ASSUME AudiencesAssumption == \A s \in SUBSET Audiences : s # None

------------------------------------------------------------------------------
\* AssistantWidget

\* server.turns: of each conversation, for every turn how many turns the model
\* was shown (None: there is no such conversation); latest: the one last used;
\* foreign: those of another role of the user's than the one of now.
\* page.early: something was done before the conversation had been loaded;
\* page.asked: a bound, how many questions were sent.
ChatInit ==
  /\ page = [at |-> "chat", loaded |-> FALSE, chat |-> None, messages |-> <<>>,
             sending |-> FALSE, error |-> FALSE, early |-> FALSE, asked |-> 0]
  /\ \E old \in Chats \cup {None} :
       server = [turns |-> [c \in Chats |-> IF c = old THEN <<0>> ELSE None],
                 latest |-> old, foreign |-> {}]
  /\ tasks = {Task("load", 1, None)} /\ stale = FALSE

\* The messages a turn is displayed as: the question and the answer.
Displayed(turns) == [i \in 1..(2 * Len(turns)) |-> IF i % 2 = 1 THEN "user" ELSE "assistant"]

ConversationReturns(t) ==
  /\ t.fn = "load" /\ t.wire # "sent" /\ End(t)
  /\ page' = IF t.wire = "failed" THEN [page EXCEPT !.loaded = TRUE, !.error = TRUE]
             ELSE [page EXCEPT !.loaded = TRUE, !.chat = t.reply.chat,
                               !.messages = t.reply.messages]
  /\ UNCHANGED <<server, stale>>

\* The question is shown at once.
Ask(chat, by) == New("ask", [chat |-> chat, by |-> by, seen |-> 0])
SendMessage ==
  /\ ~page.sending /\ page.asked < MaxAsks /\ MayTap
  /\ page' = [page EXCEPT !.sending = TRUE, !.error = FALSE, !.asked = @ + 1,
                !.messages = Append(@, "user"), !.early = @ \/ ~page.loaded]
  /\ Start(Ask(page.chat, "page"))
  /\ UNCHANGED <<server, stale>>

\* The answer is added, or the last message dropped and its text given back.
SendReturns(t) ==
  /\ t.fn \in {"ask", "answer"} /\ t.wire # "sent" /\ t.arg.by = "page" /\ End(t)
  /\ page' = IF t.wire = "failed"
               THEN [page EXCEPT !.sending = FALSE, !.error = TRUE,
                       !.messages = SubSeq(@, 1, Len(@) - 1)]
               ELSE [page EXCEPT !.sending = FALSE, !.chat = t.arg.chat,
                       !.messages = Append(@, "assistant")]
  /\ UNCHANGED <<server, stale>>

NewChat ==
  /\ ~page.sending /\ page.messages # <<>>
  /\ page' = [page EXCEPT !.chat = None, !.messages = <<>>, !.error = FALSE,
                          !.early = @ \/ ~page.loaded]
  /\ UNCHANGED <<tasks, server, stale>>

\* The same user in another tab, with the conversation that tab has loaded.
AskInAnotherTab ==
  /\ MayTap /\ server.latest # None /\ ~\E t \in tasks : t.fn = "ask" /\ t.arg.by = "tab"
  /\ page.asked < MaxAsks /\ page' = [page EXCEPT !.asked = @ + 1]
  /\ Start(Ask(server.latest, "tab"))
  /\ UNCHANGED <<server, stale>>
TabAnswered(t) ==
  /\ t.fn \in {"ask", "answer"} /\ t.wire # "sent" /\ t.arg.by = "tab" /\ End(t)
  /\ UNCHANGED <<page, server, stale>>

\* Send: a conversation that is full is refused, and one is created when none
\* is named, or one of another role (conversationFor); the turns there are are
\* what the model is shown,
ReadHistory(t) ==
  /\ Awaiting(t, {"ask"})
  /\ \/ /\ t.arg.chat # None /\ t.arg.chat \notin server.foreign
        /\ Len(server.turns[t.arg.chat]) < MaxTurns
        /\ GoOn(t, New("answer", [t.arg EXCEPT !.seen = Len(server.turns[t.arg.chat])]))
        /\ UNCHANGED server
     \/ /\ t.arg.chat = None \/ t.arg.chat \in server.foreign
        /\ \E c \in Chats :
             /\ server.turns[c] = None
             /\ server' = [server EXCEPT !.turns[c] = <<>>, !.latest = c]
             /\ GoOn(t, New("answer", [t.arg EXCEPT !.chat = c]))
     \/ Answered(t, "failed", None) /\ UNCHANGED server
  /\ UNCHANGED <<page, stale>>

\* Mutant: the turn is put at the end whatever is there.
AppendMessagesMutant(t) ==
  /\ Awaiting(t, {"answer"})
  /\ Serve(t, TRUE,
           [server EXCEPT !.turns[t.arg.chat] = Append(@, t.arg.seen), !.latest = t.arg.chat],
           None)
\* and the turn is added when no other has been meanwhile (AppendMessages).
AppendMessages(t) ==
  /\ Awaiting(t, {"answer"})
  /\ Serve(t, Len(server.turns[t.arg.chat]) = t.arg.seen,
           [server EXCEPT !.turns[t.arg.chat] = Append(@, t.arg.seen), !.latest = t.arg.chat],
           None)

\* The latest one, when it is of the role of now.
ServeConversation(t) ==
  /\ Awaiting(t, {"load"})
  /\ Serve(t, TRUE, server,
           IF server.latest = None \/ server.latest \in server.foreign
             THEN [chat |-> None, messages |-> <<>>]
             ELSE [chat |-> server.latest, messages |-> Displayed(server.turns[server.latest])])

\* The user gets a position, or loses it.
RoleChanges ==
  Elsewhere([server EXCEPT !.foreign = {c \in Chats : server.turns[c] # None} \ @])

ChatNext ==
  \/ SendMessage \/ NewChat \/ AskInAnotherTab \/ RoleChanges
  \/ \E t \in tasks : \/ ReadHistory(t) \/ AppendMessages(t) \/ ServeConversation(t)
                      \/ ConversationReturns(t) \/ SendReturns(t) \/ TabAnswered(t)

ChatBusy == page.sending \/ ~page.loaded
\* What is shown is the conversation that the next question goes to, unless
\* another tab has written to it, the user's role has changed or a question
\* overtook the first loading.
ChatAgrees ==
  page.loaded /\ ~page.early /\ page.chat # None =>
    LET there == Displayed(server.turns[page.chat])
    IN Len(page.messages) <= Len(there) /\ page.messages = SubSeq(there, 1, Len(page.messages))
\* No question is shown that nobody has answered.
ChatWhole == page.loaded /\ ~page.early => Len(page.messages) % 2 = 0

\* Every turn was answered from all the turns before it: two tabs that ask at
\* once cannot both add theirs (the sequence number AppendMessages expects).
TurnsSeeAll ==
  page.at = "chat" =>
    \A c \in Chats : server.turns[c] # None =>
      \A i \in 1..Len(server.turns[c]) : server.turns[c][i] = i - 1

------------------------------------------------------------------------------
\* AISettingsPage

AccessInit ==
  /\ page = [at |-> "access", access |-> None, selected |-> {}, error |-> FALSE,
             saved |-> FALSE, saving |-> FALSE]
  /\ server \in SUBSET Audiences
  /\ tasks = {Task("load", 1, None)} /\ stale = FALSE

\* Loaded again when the language is switched, over what was selected.
AccessReturns(t) ==
  /\ t.fn = "load" /\ t.wire # "sent" /\ End(t)
  /\ page' = IF t.wire = "ok" THEN [page EXCEPT !.access = t.reply, !.selected = t.reply]
             ELSE [page EXCEPT !.error = TRUE]
  /\ UNCHANGED <<server, stale>>
SwitchAccessLanguage ==
  /\ MayTap /\ Start(New("load", None)) /\ UNCHANGED <<page, server, stale>>

ToggleAudience(a) ==
  /\ page.access # None
  /\ page' = [page EXCEPT !.saved = FALSE,
                !.selected = IF a \in @ THEN @ \ {a} ELSE @ \cup {a}]
  /\ UNCHANGED <<tasks, server, stale>>
SaveAccess ==
  /\ page.access # None /\ page.selected # page.access /\ ~page.saving /\ MayTap
  /\ page' = [page EXCEPT !.saving = TRUE, !.error = FALSE]
  /\ Start(New("save", page.selected))
  /\ UNCHANGED <<server, stale>>
\* What is stored replaces what is selected, toggles of meanwhile included.
SaveAccessReturns(t) ==
  /\ t.fn = "save" /\ t.wire # "sent" /\ End(t)
  /\ page' = IF t.wire = "failed" THEN [page EXCEPT !.saving = FALSE, !.error = TRUE]
             ELSE [page EXCEPT !.saving = FALSE, !.saved = TRUE, !.access = t.reply,
                               !.selected = t.reply]
  /\ UNCHANGED <<server, stale>>
ServeAccess(t) ==
  \/ Awaiting(t, {"load"}) /\ Serve(t, TRUE, server, server)
  \/ Awaiting(t, {"save"}) /\ Serve(t, TRUE, t.arg, t.arg)
AccessNext ==
  \/ SwitchAccessLanguage \/ SaveAccess
  \/ \E a \in Audiences : ToggleAudience(a)
  \/ \E t \in tasks : ServeAccess(t) \/ AccessReturns(t) \/ SaveAccessReturns(t)
AccessBusy == page.saving \/ (page.access = None /\ ~page.error)
AccessAgrees == page.access # None /\ ~page.error => page.access = server
AccessDone == page.saved /\ ~stale => page.selected = server

------------------------------------------------------------------------------
\* NotificationBroadcastPage

\* server: the broadcasts that went out; page.history: those it lists.
BroadcastInit ==
  /\ \E draft \in BOOLEAN :
       page = [at |-> "broadcast", audience |-> "all", chosen |-> FALSE, text |-> draft,
               error |-> FALSE, sending |-> FALSE, sent |-> FALSE, history |-> 0]
  /\ server = [all |-> 0, some |-> 0]
  /\ tasks = {} /\ stale = FALSE

\* The addressee of a broadcast to a dormitory or a student.
ChooseAudience(a) ==
  /\ ~page.sent /\ page.audience # a /\ page' = [page EXCEPT !.audience = a]
  /\ UNCHANGED <<tasks, server, stale>>
ChooseAddressee ==
  /\ ~page.sent /\ page.audience = "some" /\ page' = [page EXCEPT !.chosen = ~@]
  /\ UNCHANGED <<tasks, server, stale>>
WriteBroadcast ==
  /\ ~page.sent /\ ~page.text /\ page' = [page EXCEPT !.text = TRUE]
  /\ UNCHANGED <<tasks, server, stale>>
HandleSend ==
  /\ ~page.sent /\ ~page.sending /\ MayTap
  /\ IF page.text /\ (page.audience = "some" => page.chosen)
       THEN /\ page' = [page EXCEPT !.error = FALSE, !.sending = TRUE]
            /\ Start(New("send", page.audience))
       ELSE page' = [page EXCEPT !.error = TRUE] /\ UNCHANGED tasks
  /\ UNCHANGED <<server, stale>>
\* Sent: the text is cleared, what was typed meanwhile too.
HandleSendReturns(t) ==
  /\ t.fn = "send" /\ t.wire # "sent" /\ End(t)
  /\ page' = IF t.wire = "failed" THEN [page EXCEPT !.sending = FALSE, !.error = TRUE]
             ELSE [page EXCEPT !.sending = FALSE, !.sent = TRUE, !.text = FALSE,
                               !.history = @ + 1]
  /\ UNCHANGED <<server, stale>>
NewBroadcast ==
  /\ page.sent /\ page' = [page EXCEPT !.sent = FALSE]
  /\ UNCHANGED <<tasks, server, stale>>
\* MaxAsks bounds how many go out.
ServeBroadcast(t) ==
  /\ Awaiting(t, {"send"})
  /\ Serve(t, server.all + server.some < MaxAsks, [server EXCEPT ![t.arg] = @ + 1], None)
BroadcastNext ==
  \/ \E a \in {"all", "some"} : ChooseAudience(a)
  \/ ChooseAddressee \/ WriteBroadcast \/ HandleSend \/ NewBroadcast
  \/ \E t \in tasks : ServeBroadcast(t) \/ HandleSendReturns(t)
BroadcastBusy == page.sending
\* The list holds what went out: all of it, but for answers that were lost.
BroadcastDone ==
  /\ page.history <= server.all + server.some
  /\ ~stale => page.history = server.all + server.some

------------------------------------------------------------------------------
\* The template pages: TemplateEditor inside a page that loads and saves.
\* page.sheets: the keys of the editor's pages in their order; MaxTurns bounds
\* them. page.edited: how often the text was changed, stored as server.text.

TemplateInit ==
  /\ page = [at |-> "template", sheets |-> <<>>, active |-> None, next |-> 1,
             edited |-> 0, double |-> FALSE, delete |-> None, loaded |-> FALSE,
             error |-> FALSE, saving |-> FALSE, saved |-> None, saveError |-> FALSE]
  /\ \E b \in BOOLEAN : server = [text |-> 0, double |-> b]
  /\ tasks = {Task("load", 1, None)} /\ stale = FALSE

Editing == page.loaded /\ ~page.error /\ page.delete = None
Holds(k) == \E i \in 1..Len(page.sheets) : page.sheets[i] = k
PlaceOf(k) == CHOOSE i \in 1..Len(page.sheets) : page.sheets[i] = k

\* The first loading mounts the editor; a later one, when the language was
\* switched, sets the page's own option only.
TemplateReturns(t) ==
  /\ t.fn = "load" /\ t.wire # "sent" /\ End(t)
  /\ page' = IF t.wire = "failed" THEN [page EXCEPT !.error = TRUE]
             ELSE [page EXCEPT !.loaded = TRUE, !.double = t.reply.double,
                     !.sheets = IF page.loaded THEN @ ELSE <<1>>,
                     !.active = IF page.loaded THEN @ ELSE 1,
                     !.next = IF page.loaded THEN @ ELSE 2]
  /\ UNCHANGED <<server, stale>>
SwitchTemplateLanguage ==
  /\ page.loaded /\ MayTap /\ Start(New("load", None)) /\ UNCHANGED <<page, server, stale>>

FocusSheet(i) ==
  /\ Editing /\ i <= Len(page.sheets) /\ page.active # page.sheets[i]
  /\ page' = [page EXCEPT !.active = page.sheets[i]]
  /\ UNCHANGED <<tasks, server, stale>>
\* Typed, or a variable inserted, on the active sheet.
EditSheet ==
  /\ Editing /\ page.active # None /\ page.edited < MaxAsks
  /\ page' = [page EXCEPT !.edited = @ + 1]
  /\ UNCHANGED <<tasks, server, stale>>
\* After the active sheet, which the new one then is.
HandleAddPage ==
  /\ Editing /\ Len(page.sheets) < MaxTurns /\ page.next <= MaxTurns + 1
  /\ LET at == IF Holds(page.active) THEN PlaceOf(page.active) ELSE Len(page.sheets)
     IN page' = [page EXCEPT !.active = page.next, !.next = @ + 1,
          !.sheets = SubSeq(@, 1, at) \o <<page.next>> \o SubSeq(@, at + 1, Len(@))]
  /\ UNCHANGED <<tasks, server, stale>>
AskDeleteSheet(i) ==
  /\ Editing /\ Len(page.sheets) > 1 /\ i <= Len(page.sheets)
  /\ page' = [page EXCEPT !.delete = page.sheets[i]]
  /\ UNCHANGED <<tasks, server, stale>>
CancelDeleteSheet ==
  /\ page.delete # None /\ page' = [page EXCEPT !.delete = None]
  /\ UNCHANGED <<tasks, server, stale>>
\* No two pages have one key (page.next only grows): the one that goes is the
\* one at its place.
HandleDeletePage ==
  /\ page.delete # None
  /\ LET at == PlaceOf(page.delete)
         kept == SubSeq(page.sheets, 1, at - 1)
                   \o SubSeq(page.sheets, at + 1, Len(page.sheets))
     IN page' = [page EXCEPT !.delete = None, !.sheets = kept,
          !.active = IF @ # page.delete THEN @
                     ELSE IF kept = <<>> THEN None ELSE Head(kept)]
  /\ UNCHANGED <<tasks, server, stale>>

SetTwoPagesPerSheet ==
  /\ Editing /\ page' = [page EXCEPT !.double = ~@]
  /\ UNCHANGED <<tasks, server, stale>>
HandleSaveTemplate ==
  /\ Editing /\ ~page.saving /\ MayTap
  /\ page' = [page EXCEPT !.saving = TRUE, !.saveError = FALSE, !.saved = None]
  /\ Start(New("save", [text |-> page.edited, double |-> page.double]))
  /\ UNCHANGED <<server, stale>>
SaveTemplateReturns(t) ==
  /\ t.fn = "save" /\ t.wire # "sent" /\ End(t)
  /\ page' = [page EXCEPT !.saving = FALSE, !.saveError = t.wire = "failed",
                          !.saved = IF t.wire = "ok" THEN t.arg ELSE None]
  /\ UNCHANGED <<server, stale>>
ServeTemplate(t) ==
  \/ Awaiting(t, {"load"}) /\ Serve(t, TRUE, server, server)
  \/ Awaiting(t, {"save"}) /\ Serve(t, TRUE, t.arg, None)
TemplateNext ==
  \/ SwitchTemplateLanguage \/ EditSheet \/ HandleAddPage \/ CancelDeleteSheet
  \/ HandleDeletePage \/ SetTwoPagesPerSheet \/ HandleSaveTemplate
  \/ \E i \in 1..MaxTurns : FocusSheet(i) \/ AskDeleteSheet(i)
  \/ \E t \in tasks : ServeTemplate(t) \/ TemplateReturns(t) \/ SaveTemplateReturns(t)
TemplateBusy == page.saving \/ (~page.loaded /\ ~page.error)
\* Saved: what the editor held then is stored.
TemplateDone == page.saved # None => server = page.saved
\* The editor has a sheet, and what is typed or inserted goes to one it has.
TemplateWhole == page.loaded => Holds(page.active)
=============================================================================
